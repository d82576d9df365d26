--------------------------- MODULE BlockingQueueProofs ---------------------------
(***************************************************************************)
(* Theorems of BlockingQueue, for any producers, consumers and calls: what *)
(* the counters that consumers race for, and the semaphore, allow, and,    *)
(* below, where the elements are meanwhile: the blocks that are used again.*)
(***************************************************************************)
EXTENDS BlockingQueue, FiniteSetTheorems, SequenceTheorems, TLAPS

\* The tickets of an argument, and those of the others.
TicketsOf(f, x) == {x} \X (1..f[x])
TicketsBut(f, x) == UNION {TicketsOf(f, y) : y \in DOMAIN f \ {x}}

\* Together they are all the tickets, as many more as the argument's value says.
LEMMA TicketsSplit ==
  ASSUME NEW S, IsFiniteSet(S), NEW f \in [S -> Nat], NEW x \in S
  PROVE  /\ Tickets(f) = TicketsBut(f, x) \cup TicketsOf(f, x) /\ TicketsBut(f, x) \cap TicketsOf(f, x) = {}
         /\ IsFiniteSet(TicketsBut(f, x)) /\ IsFiniteSet(TicketsOf(f, x)) /\ Cardinality(TicketsOf(f, x)) = f[x]
<1> DEFINE rest == UNION {{y} \X (1..f[y]) : y \in S \ {x}}
           mine == {x} \X (1..f[x])
<1>1. DOMAIN f = S
  OBVIOUS
<1>2. Tickets(f) = rest \cup mine
  BY <1>1 DEF Tickets
<1>3. rest \cap mine = {}
  OBVIOUS
<1>4. ASSUME NEW y \in S
      PROVE  /\ IsFiniteSet({y} \X (1..f[y])) /\ Cardinality({y} \X (1..f[y])) = f[y]
  <2>1. f[y] \in Nat
    OBVIOUS
  <2>2. IsFiniteSet(1..f[y]) /\ Cardinality(1..f[y]) = f[y]
    BY <2>1, FS_Interval
  <2>3. IsFiniteSet({y}) /\ Cardinality({y}) = 1
    BY FS_Singleton
  <2>4. /\ IsFiniteSet({y} \X (1..f[y]))
        /\ Cardinality({y} \X (1..f[y])) = Cardinality({y}) * Cardinality(1..f[y])
    BY <2>2, <2>3, FS_Product
  <2>5. 1 * f[y] = f[y]
    BY <2>1
  <2> QED
    BY <2>2, <2>3, <2>4, <2>5
<1>5. IsFiniteSet(rest)
  <2> DEFINE parts == {{y} \X (1..f[y]) : y \in S \ {x}}
  <2>1. IsFiniteSet(S \ {x})
    BY FS_RemoveElement
  <2>2. IsFiniteSet(parts)
    <3> DEFINE g == [y \in S \ {x} |-> {y} \X (1..f[y])]
    <3>1. g \in Surjection(S \ {x}, parts)
      BY DEF Surjection
    <3> HIDE DEF g, parts
    <3> QED
      BY <2>1, <3>1, FS_Surjection
  <2>3. \A T \in parts : IsFiniteSet(T)
    BY <1>4
  <2> HIDE DEF parts
  <2>4. IsFiniteSet(UNION parts)
    BY <2>2, <2>3, FS_UNION
  <2> QED
    BY <2>4 DEF parts
<1>6. TicketsBut(f, x) = rest /\ TicketsOf(f, x) = mine
  BY <1>1 DEF TicketsBut, TicketsOf
<1> HIDE DEF rest, mine
<1>7. IsFiniteSet(mine) /\ Cardinality(mine) = f[x]
  BY <1>4 DEF mine
<1> QED
  BY <1>2, <1>3, <1>5, <1>6, <1>7

\* A sum is a number, as high as each of its parts and higher if a part is.
LEMMA TotalType ==
  ASSUME NEW S, IsFiniteSet(S), NEW f \in [S -> Nat]
  PROVE  IsFiniteSet(Tickets(f)) /\ Total(f) \in Nat /\ \A x \in S : f[x] <= Total(f)
<1>1. IsFiniteSet(Tickets(f))
  <2>1. CASE S = {}
    <3>1. Tickets(f) = {}
      BY <2>1 DEF Tickets
    <3> QED
      BY <3>1, FS_EmptySet
  <2>2. CASE S # {}
    <3>1. PICK x : x \in S
      BY <2>2
    <3>2. Tickets(f) = TicketsBut(f, x) \cup TicketsOf(f, x) /\ IsFiniteSet(TicketsBut(f, x)) /\ IsFiniteSet(TicketsOf(f, x))
      BY <3>1, TicketsSplit
    <3> QED
      BY <3>2, FS_Union
  <2> QED
    BY <2>1, <2>2
<1>2. Total(f) \in Nat
  BY <1>1, FS_CardinalityType DEF Total
<1>3. ASSUME NEW x \in S PROVE f[x] <= Total(f)
  <2>1. TicketsOf(f, x) \in SUBSET Tickets(f) /\ Cardinality(TicketsOf(f, x)) = f[x]
    BY TicketsSplit
  <2> QED
    BY <1>1, <2>1, FS_Subset DEF Total
<1> QED
  BY <1>1, <1>2, <1>3

\* When one part changes, the sum changes by as much.
LEMMA TotalChange ==
  ASSUME NEW S, IsFiniteSet(S), NEW f \in [S -> Nat], NEW g \in [S -> Nat], NEW x \in S,
         \A y \in S \ {x} : g[y] = f[y]
  PROVE  Total(g) - g[x] = Total(f) - f[x]
<1>1. ASSUME NEW h \in [S -> Nat] PROVE Total(h) = Cardinality(TicketsBut(h, x)) + h[x]
  <2>1. /\ Tickets(h) = TicketsBut(h, x) \cup TicketsOf(h, x) /\ TicketsBut(h, x) \cap TicketsOf(h, x) = {}
        /\ IsFiniteSet(TicketsBut(h, x)) /\ IsFiniteSet(TicketsOf(h, x)) /\ Cardinality(TicketsOf(h, x)) = h[x]
    BY TicketsSplit
  <2>2. /\ Cardinality(TicketsBut(h, x) \cup TicketsOf(h, x))
             = Cardinality(TicketsBut(h, x)) + Cardinality(TicketsOf(h, x)) - Cardinality(TicketsBut(h, x) \cap TicketsOf(h, x))
        /\ Cardinality(TicketsBut(h, x)) \in Nat
    BY <2>1, FS_Union, FS_CardinalityType
  <2>3. Cardinality(TicketsBut(h, x) \cap TicketsOf(h, x)) = 0
    BY <2>1, FS_EmptySet
  <2> QED
    BY <2>1, <2>2, <2>3 DEF Total
<1>2. TicketsBut(g, x) = TicketsBut(f, x)
  <2>1. DOMAIN f = S /\ DOMAIN g = S
    OBVIOUS
  <2>2. \A y \in S \ {x} : TicketsOf(g, y) = TicketsOf(f, y)
    BY DEF TicketsOf
  <2> QED
    BY <2>1, <2>2 DEF TicketsBut
<1>3. Cardinality(TicketsBut(f, x)) \in Nat
  <2>1. IsFiniteSet(TicketsBut(f, x))
    BY TicketsSplit
  <2> QED
    BY <2>1, FS_CardinalityType
<1> QED
  BY <1>1, <1>2, <1>3

\* A sum is no higher than one of higher parts.
LEMMA TotalLess ==
  ASSUME NEW S, IsFiniteSet(S), NEW f \in [S -> Nat], NEW g \in [S -> Nat], \A y \in S : f[y] <= g[y]
  PROVE  Total(f) <= Total(g)
<1>1. \A y \in S : 1..f[y] \subseteq 1..g[y]
  OBVIOUS
<1>2. Tickets(f) \in SUBSET Tickets(g)
  BY <1>1 DEF Tickets
<1>3. IsFiniteSet(Tickets(g))
  BY TotalType
<1> QED
  BY <1>2, <1>3, FS_Subset DEF Total

\* The sum of nothings.
LEMMA TotalZero ==
  ASSUME NEW S, NEW f, f \in [S -> Nat], \A x \in S : f[x] = 0
  PROVE  Total(f) = 0
<1>1. \A x \in S : 1..f[x] = {}
  OBVIOUS
<1>2. Tickets(f) = {}
  BY <1>1 DEF Tickets
<1> QED
  BY <1>2, FS_EmptySet DEF Total
-------------------------------------------------------------------------------
Sleeping == {"sleep", "signalled", "timed out"}
Wanting  == {"tail read", "both read", "add", "added", "give back", "claim"}

\* The types of the variables, the memory's left out.
CounterTypes ==
  /\ tailIndex \in [Producers -> Nat] /\ headIndex \in [Producers -> Nat]
  /\ optimistic \in [Producers -> Nat] /\ overcommit \in [Producers -> Nat]
FillingTypes ==
  /\ DOMAIN filling = Producers
  /\ \A p \in Producers :
       /\ filling[p] = [at |-> filling[p].at, count |-> filling[p].count, start |-> filling[p].start, slot |-> filling[p].slot, used |-> filling[p].used]
       /\ filling[p].count \in Nat
       /\ filling[p].at = "post" => filling[p].count > 0
ConsumerTypes ==
  taking \in [Consumers -> [at : Wanting \cup {"out", "move", "moved"},
                            from : Producers \cup {Nothing}, want : Nat, tail : Nat,
                            over : Nat, first : Nat]]
CallTypes ==
  /\ toEnqueue \in [Producers -> Seq(Nat)]
  /\ toDequeue \in [Consumers -> Seq([max : Nat \ {0}, mode : {"try", "timed", "wait"}])]
SemaphoreTypes == count \in Int /\ sema \in Nat
PlaceTypes ==
  /\ place \in [Consumers -> Sleeping \cup {"out", "more"}]
  /\ left \in [Consumers -> Nat] /\ untried \in [Consumers -> SUBSET Producers]

Types ==
  CounterTypes /\ FillingTypes /\ ConsumerTypes /\ CallTypes /\ SemaphoreTypes /\ PlaceTypes

\* Where a consumer is in its call, and what it knows.
KnowsCall(c) ==
  /\ taking[c].at # "out" => taking[c].from \in Producers /\ place[c] = "out"
  /\ taking[c].at \in Wanting => 1 <= taking[c].want /\ taking[c].want <= left[c]
  /\ taking[c].at = "give back" => taking[c].tail < taking[c].want
  /\ taking[c].at \in {"both read", "add", "added"} => taking[c].over <= overcommit[taking[c].from]
  /\ place[c] \in Sleeping => left[c] = 0
  /\ place[c] = "more" => left[c] = 1 /\ Call(c).max > 1
  /\ place[c] # "out" => toDequeue[c] # <<>>

KnowsItsCall == \A c \in Consumers : KnowsCall(c)

\* What a consumer has added to dequeueOptimisticCount of p and neither claimed nor given back.
WeightOf(c, p) ==
  IF taking[c].from = p /\ taking[c].at \in {"added", "give back", "claim"} THEN taking[c].want ELSE 0

Weight(p) == [c \in Consumers |-> WeightOf(c, p)]

\* Every increment of dequeueOptimisticCount ends as one of the head or of dequeueOvercommit.
Accounted ==
  \A p \in Producers : optimistic[p] = overcommit[p] + headIndex[p] + Total(Weight(p))

\* What a consumer may claim, or could if the tail were n when it reads it again.
ShareOf(c, p, n) ==
  IF taking[c].from # p THEN 0
  ELSE IF taking[c].at = "claim" THEN taking[c].want
  ELSE IF taking[c].at = "give back" THEN taking[c].tail
  ELSE IF taking[c].at = "added" THEN Largest(0, Smaller(n - (taking[c].first - taking[c].over), taking[c].want))
  ELSE 0

Share(p, n) == [c \in Consumers |-> ShareOf(c, p, n)]

\* However far the producer gets, consumers may never claim more than it has enqueued.
Covered ==
  \A p \in Producers : \A n \in Nat :
    n >= tailIndex[p] => headIndex[p] + Total(Share(p, n)) <= n

Unsignalled == [p \in Producers |-> IF filling[p].at = "published" THEN filling[p].count ELSE 0]
Posts       == [p \in Producers |-> IF filling[p].at = "post" THEN filling[p].count ELSE 0]
InQueue     == [p \in Producers |-> tailIndex[p] - headIndex[p]]
Sleepers    == [c \in Consumers |-> IF place[c] \in Sleeping THEN 1 ELSE 0]

\* The semaphore's count is what is enqueued, signalled and promised to nobody, less those
\* who sleep; and for each sleeper that the count does not hold there is a post.
Balanced ==
  /\ Total(InQueue) = Total(left) + Total(Unsignalled) + count + Total(Sleepers)
  /\ Total(Sleepers) = sema + Total(Posts) + Largest(0, -count)

Races == Types /\ KnowsItsCall /\ Accounted /\ Covered

\* Together they are inductive.
IInv == Races /\ Balanced
-------------------------------------------------------------------------------
\* The types of what a consumer knows.
LEMMA TakingTypes ==
  Types => \A c \in Consumers : /\ taking[c].at \in Wanting \cup {"out", "move", "moved"}
                                /\ taking[c].from \in Producers \cup {Nothing}
                                /\ taking[c].want \in Nat /\ taking[c].tail \in Nat
                                /\ taking[c].over \in Nat /\ taking[c].first \in Nat
<1> SUFFICES ASSUME Types, NEW c \in Consumers
             PROVE  /\ taking[c].at \in Wanting \cup {"out", "move", "moved"}
                    /\ taking[c].from \in Producers \cup {Nothing}
                    /\ taking[c].want \in Nat /\ taking[c].tail \in Nat
                    /\ taking[c].over \in Nat /\ taking[c].first \in Nat
  OBVIOUS
<1>1. taking[c] \in [at : Wanting \cup {"out", "move", "moved"}, from : Producers \cup {Nothing},
                     want : Nat, tail : Nat, over : Nat, first : Nat]
  BY DEF Types, ConsumerTypes
<1> QED
  BY <1>1

\* The types of the parts that are summed.
PartsAreNumbers ==
  /\ \A p : Weight(p) \in [Consumers -> Nat]
  /\ \A p : \A n \in Nat : Share(p, n) \in [Consumers -> Nat]
  /\ Unsignalled \in [Producers -> Nat] /\ Posts \in [Producers -> Nat]
  /\ Sleepers \in [Consumers -> Nat]

\* They are natural numbers.
LEMMA PartTypes == Types => PartsAreNumbers
<1> SUFFICES ASSUME Types PROVE PartsAreNumbers
  OBVIOUS
<1>1. \A c \in Consumers : \A p : WeightOf(c, p) \in Nat
  BY TakingTypes DEF WeightOf
<1>2. ASSUME NEW c \in Consumers, NEW p, NEW n \in Nat PROVE ShareOf(c, p, n) \in Nat
  <2>1. taking[c].want \in Nat /\ taking[c].tail \in Nat /\ taking[c].first - taking[c].over \in Int
    BY TakingTypes
  <2>2. Largest(0, Smaller(n - (taking[c].first - taking[c].over), taking[c].want)) \in Nat
    BY <2>1 DEF Largest, Smaller
  <2> QED
    BY <2>1, <2>2 DEF ShareOf
<1>3. Unsignalled \in [Producers -> Nat] /\ Posts \in [Producers -> Nat]
  BY DEF Types, FillingTypes, Unsignalled, Posts
<1>4. Sleepers \in [Consumers -> Nat]
  BY DEF Sleepers
<1>5. ASSUME NEW p PROVE Weight(p) \in [Consumers -> Nat]
  BY <1>1 DEF Weight
<1>6. ASSUME NEW p, NEW n \in Nat PROVE Share(p, n) \in [Consumers -> Nat]
  BY <1>2 DEF Share
<1> QED
  BY <1>3, <1>4, <1>5, <1>6 DEF PartsAreNumbers

\* Consumers have a share in no more than they have added.
LEMMA ShareWithinWeight ==
  ASSUME Types, KnowsItsCall, NEW p, NEW n \in Nat
  PROVE  Total(Share(p, n)) <= Total(Weight(p))
<1>1. ASSUME NEW c \in Consumers PROVE ShareOf(c, p, n) <= WeightOf(c, p)
  <2>1. taking[c].want \in Nat /\ taking[c].tail \in Nat /\ taking[c].first \in Nat /\ taking[c].over \in Nat
    BY TakingTypes
  <2>2. taking[c].at = "give back" => taking[c].tail < taking[c].want
    BY DEF KnowsItsCall, KnowsCall
  <2>3. Largest(0, Smaller(n - (taking[c].first - taking[c].over), taking[c].want)) <= taking[c].want
    BY <2>1 DEF Largest, Smaller
  <2>4. CASE taking[c].from # p
    <3>1. ShareOf(c, p, n) = 0 /\ WeightOf(c, p) = 0
      BY <2>4 DEF ShareOf, WeightOf
    <3> QED
      BY <3>1
  <2>5. CASE taking[c].from = p /\ taking[c].at = "claim"
    BY <2>1, <2>5 DEF ShareOf, WeightOf
  <2>6. CASE taking[c].from = p /\ taking[c].at = "give back"
    <3>1. ShareOf(c, p, n) = taking[c].tail /\ WeightOf(c, p) = taking[c].want
      BY <2>6 DEF ShareOf, WeightOf
    <3>2. taking[c].tail < taking[c].want
      BY <2>2, <2>6
    <3> QED
      BY <2>1, <3>1, <3>2
  <2>7. CASE taking[c].from = p /\ taking[c].at = "added"
    BY <2>1, <2>3, <2>7 DEF ShareOf, WeightOf
  <2>8. CASE taking[c].from = p /\ taking[c].at \notin {"claim", "give back", "added"}
    <3>1. ShareOf(c, p, n) = 0 /\ WeightOf(c, p) = 0
      BY <2>8 DEF ShareOf, WeightOf
    <3> QED
      BY <3>1
  <2> QED
    BY <2>4, <2>5, <2>6, <2>7, <2>8
<1>2. Share(p, n) \in [Consumers -> Nat] /\ Weight(p) \in [Consumers -> Nat]
  BY PartTypes DEF PartsAreNumbers
<1>3. \A c \in Consumers : Share(p, n)[c] <= Weight(p)[c]
  BY <1>1 DEF Share, Weight
<1>4. IsFiniteSet(Consumers)
  BY CallsAssumption DEF CallsAssumption
<1> QED
  BY <1>2, <1>3, <1>4, TotalLess

\* A step of one consumer changes its own parts only.
LEMMA ConsumerParts ==
  ASSUME Types, Types', NEW c \in Consumers, \A d \in Consumers \ {c} : taking'[d] = taking[d], NEW p
  PROVE  /\ Total(Weight(p)') - WeightOf(c, p)' = Total(Weight(p)) - WeightOf(c, p)
         /\ \A n \in Nat : Total(Share(p, n)') - ShareOf(c, p, n)' = Total(Share(p, n)) - ShareOf(c, p, n)
         /\ Total(Weight(p)) \in Nat /\ Total(Weight(p)') \in Nat
         /\ WeightOf(c, p) \in Nat /\ WeightOf(c, p)' \in Nat
         /\ \A n \in Nat : /\ Total(Share(p, n)) \in Nat /\ Total(Share(p, n)') \in Nat
                           /\ ShareOf(c, p, n) \in Nat /\ ShareOf(c, p, n)' \in Nat
<1>1. IsFiniteSet(Consumers)
  BY CallsAssumption DEF CallsAssumption
<1>a. PartsAreNumbers /\ PartsAreNumbers'
  BY PartTypes, PTL
<1>2. Weight(p) \in [Consumers -> Nat] /\ Weight(p)' \in [Consumers -> Nat]
  BY <1>a DEF PartsAreNumbers
<1>3. \A d \in Consumers \ {c} : Weight(p)'[d] = Weight(p)[d]
  BY DEF Weight, WeightOf
<1>4. Weight(p)[c] = WeightOf(c, p) /\ Weight(p)'[c] = WeightOf(c, p)'
  BY DEF Weight
<1>5. ASSUME NEW n \in Nat
      PROVE  /\ Total(Share(p, n)') - ShareOf(c, p, n)' = Total(Share(p, n)) - ShareOf(c, p, n)
             /\ Total(Share(p, n)) \in Nat /\ Total(Share(p, n)') \in Nat
             /\ ShareOf(c, p, n) \in Nat /\ ShareOf(c, p, n)' \in Nat
  <2>1. Share(p, n) \in [Consumers -> Nat] /\ Share(p, n)' \in [Consumers -> Nat]
    BY <1>a DEF PartsAreNumbers
  <2>2. \A d \in Consumers \ {c} : Share(p, n)'[d] = Share(p, n)[d]
    BY DEF Share, ShareOf
  <2>3. Share(p, n)[c] = ShareOf(c, p, n) /\ Share(p, n)'[c] = ShareOf(c, p, n)'
    BY DEF Share
  <2>4. Total(Share(p, n)) \in Nat /\ Total(Share(p, n)') \in Nat
    BY <1>1, <2>1, TotalType
  <2> QED
    BY <1>1, <2>1, <2>2, <2>3, <2>4, TotalChange
<1>6. Total(Weight(p)) \in Nat /\ Total(Weight(p)') \in Nat
  BY <1>1, <1>2, TotalType
<1>7. Total(Weight(p)') - Weight(p)'[c] = Total(Weight(p)) - Weight(p)[c]
  BY <1>1, <1>2, <1>3, TotalChange
<1> QED
  BY <1>2, <1>4, <1>5, <1>6, <1>7
-------------------------------------------------------------------------------
\* What a consumer knows, as a record.
Knows(a, f, w, t, o, x) == [at |-> a, from |-> f, want |-> w, tail |-> t, over |-> o, first |-> x]

\* A step of a dequeue replaces some fields of it.
AnewAt(r, b) == [r EXCEPT !.at = b]
AnewOver(r, b, u) == [r EXCEPT !.at = b, !.over = u]
AnewFirst(r, b, u) == [r EXCEPT !.at = b, !.first = u]
AnewTail(r, b, u) == [r EXCEPT !.at = b, !.tail = u]
AnewWant(r, b, u) == [r EXCEPT !.at = b, !.want = u]
AnewWantTail(r, b, u, v) == [r EXCEPT !.at = b, !.want = u, !.tail = v]
AnewWantFirst(r, b, u, v) == [r EXCEPT !.at = b, !.want = u, !.first = v]
AnewFromTail(r, b, g, u, v) == [r EXCEPT !.at = b, !.from = g, !.want = u, !.tail = v]
AnewFromFirst(r, b, g, u, v) == [r EXCEPT !.at = b, !.from = g, !.want = u, !.first = v]

\* These are, of a record with all fields:
LEMMA KnowsAnew ==
  /\ \A a, f, w, t, o, x, b : AnewAt(Knows(a, f, w, t, o, x), b) = Knows(b, f, w, t, o, x)
  /\ \A a, f, w, t, o, x, b, u : AnewOver(Knows(a, f, w, t, o, x), b, u) = Knows(b, f, w, t, u, x)
  /\ \A a, f, w, t, o, x, b, u : AnewFirst(Knows(a, f, w, t, o, x), b, u) = Knows(b, f, w, t, o, u)
  /\ \A a, f, w, t, o, x, b, u : AnewTail(Knows(a, f, w, t, o, x), b, u) = Knows(b, f, w, u, o, x)
  /\ \A a, f, w, t, o, x, b, u : AnewWant(Knows(a, f, w, t, o, x), b, u) = Knows(b, f, u, t, o, x)
  /\ \A a, f, w, t, o, x, b, u, v : AnewWantTail(Knows(a, f, w, t, o, x), b, u, v) = Knows(b, f, u, v, o, x)
  /\ \A a, f, w, t, o, x, b, u, v : AnewWantFirst(Knows(a, f, w, t, o, x), b, u, v) = Knows(b, f, u, t, o, v)
  /\ \A a, f, w, t, o, x, b, g, u, v : AnewFromTail(Knows(a, f, w, t, o, x), b, g, u, v) = Knows(b, g, u, v, o, x)
  /\ \A a, f, w, t, o, x, b, g, u, v : AnewFromFirst(Knows(a, f, w, t, o, x), b, g, u, v) = Knows(b, g, u, t, o, v)
<1> DEFINE All(a, f, w, t, o, x, b, g, u, v) ==
             /\ AnewAt(Knows(a, f, w, t, o, x), b) = Knows(b, f, w, t, o, x)
             /\ AnewOver(Knows(a, f, w, t, o, x), b, u) = Knows(b, f, w, t, u, x)
             /\ AnewFirst(Knows(a, f, w, t, o, x), b, u) = Knows(b, f, w, t, o, u)
             /\ AnewTail(Knows(a, f, w, t, o, x), b, u) = Knows(b, f, w, u, o, x)
             /\ AnewWant(Knows(a, f, w, t, o, x), b, u) = Knows(b, f, u, t, o, x)
             /\ AnewWantTail(Knows(a, f, w, t, o, x), b, u, v) = Knows(b, f, u, v, o, x)
             /\ AnewWantFirst(Knows(a, f, w, t, o, x), b, u, v) = Knows(b, f, u, t, o, v)
             /\ AnewFromTail(Knows(a, f, w, t, o, x), b, g, u, v) = Knows(b, g, u, v, o, x)
             /\ AnewFromFirst(Knows(a, f, w, t, o, x), b, g, u, v) = Knows(b, g, u, t, o, v)
<1>a. ASSUME NEW a, NEW f, NEW w, NEW t, NEW o, NEW x, NEW b, NEW g, NEW u, NEW v
      PROVE  All(a, f, w, t, o, x, b, g, u, v)
  <2>0. PICK r : r = Knows(a, f, w, t, o, x)
    OBVIOUS
  <2>1. PICK s : s = [r EXCEPT !.at = b]
    OBVIOUS
  <2>2. s = Knows(b, f, w, t, o, x)
    BY <2>0, <2>1 DEF Knows
  <2>3. /\ [r EXCEPT !.at = b, !.over = u] = [s EXCEPT !.over = u]
        /\ [r EXCEPT !.at = b, !.first = u] = [s EXCEPT !.first = u]
        /\ [r EXCEPT !.at = b, !.tail = u] = [s EXCEPT !.tail = u]
        /\ [r EXCEPT !.at = b, !.want = u] = [s EXCEPT !.want = u]
        /\ [r EXCEPT !.at = b, !.from = g] = [s EXCEPT !.from = g]
    BY <2>1
  <2>4. /\ [s EXCEPT !.over = u] = Knows(b, f, w, t, u, x)
        /\ [s EXCEPT !.first = u] = Knows(b, f, w, t, o, u)
        /\ [s EXCEPT !.tail = u] = Knows(b, f, w, u, o, x)
        /\ [s EXCEPT !.want = u] = Knows(b, f, u, t, o, x)
        /\ [s EXCEPT !.from = g] = Knows(b, g, w, t, o, x)
    BY <2>2 DEF Knows
  <2>5. PICK s1 : s1 = [r EXCEPT !.at = b, !.want = u]
    OBVIOUS
  <2>6. PICK s2 : s2 = [r EXCEPT !.at = b, !.from = g]
    OBVIOUS
  <2>7. s1 = Knows(b, f, u, t, o, x) /\ s2 = Knows(b, g, w, t, o, x)
    BY <2>3, <2>4, <2>5, <2>6
  <2>8. PICK s3 : s3 = [s2 EXCEPT !.want = u]
    OBVIOUS
  <2>9. s3 = Knows(b, g, u, t, o, x)
    BY <2>7, <2>8 DEF Knows
  <2>10. /\ [r EXCEPT !.at = b, !.want = u, !.tail = v] = [s1 EXCEPT !.tail = v]
         /\ [r EXCEPT !.at = b, !.want = u, !.first = v] = [s1 EXCEPT !.first = v]
         /\ [r EXCEPT !.at = b, !.from = g, !.want = u, !.tail = v] = [s3 EXCEPT !.tail = v]
         /\ [r EXCEPT !.at = b, !.from = g, !.want = u, !.first = v] = [s3 EXCEPT !.first = v]
    BY <2>5, <2>6, <2>8
  <2>11. /\ [s1 EXCEPT !.tail = v] = Knows(b, f, u, v, o, x)
         /\ [s1 EXCEPT !.first = v] = Knows(b, f, u, t, o, v)
         /\ [s3 EXCEPT !.tail = v] = Knows(b, g, u, v, o, x)
         /\ [s3 EXCEPT !.first = v] = Knows(b, g, u, t, o, v)
    BY <2>7, <2>9 DEF Knows
  <2>12. /\ AnewAt(r, b) = Knows(b, f, w, t, o, x)
         /\ AnewOver(r, b, u) = Knows(b, f, w, t, u, x)
         /\ AnewFirst(r, b, u) = Knows(b, f, w, t, o, u)
         /\ AnewTail(r, b, u) = Knows(b, f, w, u, o, x)
         /\ AnewWant(r, b, u) = Knows(b, f, u, t, o, x)
         /\ AnewWantTail(r, b, u, v) = Knows(b, f, u, v, o, x)
         /\ AnewWantFirst(r, b, u, v) = Knows(b, f, u, t, o, v)
         /\ AnewFromTail(r, b, g, u, v) = Knows(b, g, u, v, o, x)
         /\ AnewFromFirst(r, b, g, u, v) = Knows(b, g, u, t, o, v)
    BY <2>1, <2>2, <2>3, <2>4, <2>5, <2>7, <2>10, <2>11 DEF AnewAt, AnewOver, AnewFirst, AnewTail, AnewWant, AnewWantTail, AnewWantFirst, AnewFromTail, AnewFromFirst
  <2> QED
    BY <2>0, <2>12 DEF All
<1> HIDE DEF All
<1>1. ASSUME NEW a, NEW f, NEW w, NEW t, NEW o, NEW x, NEW b
      PROVE  AnewAt(Knows(a, f, w, t, o, x), b) = Knows(b, f, w, t, o, x)
  <2>1. All(a, f, w, t, o, x, b, b, b, b)
    BY <1>a
  <2> QED
    BY <2>1 DEF All
<1>2. ASSUME NEW a, NEW f, NEW w, NEW t, NEW o, NEW x, NEW b, NEW u
      PROVE  AnewOver(Knows(a, f, w, t, o, x), b, u) = Knows(b, f, w, t, u, x)
  <2>1. All(a, f, w, t, o, x, b, b, u, b)
    BY <1>a
  <2> QED
    BY <2>1 DEF All
<1>3. ASSUME NEW a, NEW f, NEW w, NEW t, NEW o, NEW x, NEW b, NEW u
      PROVE  AnewFirst(Knows(a, f, w, t, o, x), b, u) = Knows(b, f, w, t, o, u)
  <2>1. All(a, f, w, t, o, x, b, b, u, b)
    BY <1>a
  <2> QED
    BY <2>1 DEF All
<1>4. ASSUME NEW a, NEW f, NEW w, NEW t, NEW o, NEW x, NEW b, NEW u
      PROVE  AnewTail(Knows(a, f, w, t, o, x), b, u) = Knows(b, f, w, u, o, x)
  <2>1. All(a, f, w, t, o, x, b, b, u, b)
    BY <1>a
  <2> QED
    BY <2>1 DEF All
<1>5. ASSUME NEW a, NEW f, NEW w, NEW t, NEW o, NEW x, NEW b, NEW u
      PROVE  AnewWant(Knows(a, f, w, t, o, x), b, u) = Knows(b, f, u, t, o, x)
  <2>1. All(a, f, w, t, o, x, b, b, u, b)
    BY <1>a
  <2> QED
    BY <2>1 DEF All
<1>6. ASSUME NEW a, NEW f, NEW w, NEW t, NEW o, NEW x, NEW b, NEW u, NEW v
      PROVE  AnewWantTail(Knows(a, f, w, t, o, x), b, u, v) = Knows(b, f, u, v, o, x)
  <2>1. All(a, f, w, t, o, x, b, b, u, v)
    BY <1>a
  <2> QED
    BY <2>1 DEF All
<1>7. ASSUME NEW a, NEW f, NEW w, NEW t, NEW o, NEW x, NEW b, NEW u, NEW v
      PROVE  AnewWantFirst(Knows(a, f, w, t, o, x), b, u, v) = Knows(b, f, u, t, o, v)
  <2>1. All(a, f, w, t, o, x, b, b, u, v)
    BY <1>a
  <2> QED
    BY <2>1 DEF All
<1>8. ASSUME NEW a, NEW f, NEW w, NEW t, NEW o, NEW x, NEW b, NEW g, NEW u, NEW v
      PROVE  AnewFromTail(Knows(a, f, w, t, o, x), b, g, u, v) = Knows(b, g, u, v, o, x)
  <2>1. All(a, f, w, t, o, x, b, g, u, v)
    BY <1>a
  <2> QED
    BY <2>1 DEF All
<1>9. ASSUME NEW a, NEW f, NEW w, NEW t, NEW o, NEW x, NEW b, NEW g, NEW u, NEW v
      PROVE  AnewFromFirst(Knows(a, f, w, t, o, x), b, g, u, v) = Knows(b, g, u, t, o, v)
  <2>1. All(a, f, w, t, o, x, b, g, u, v)
    BY <1>a
  <2> QED
    BY <2>1 DEF All
<1> QED
  BY <1>1, <1>2, <1>3, <1>4, <1>5, <1>6, <1>7, <1>8, <1>9

\* A consumer comes to know something.
Comes(c, b, g, u, v, y, z) == taking' = [taking EXCEPT ![c] = Knows(b, g, u, v, y, z)]
Leaves(c)                  == Comes(c, "out", Nothing, 0, 0, 0, 0)

\* The steps of a dequeue, by what the consumer knows after them.
LEMMA Learns ==
  ASSUME Types, KnowsItsCall, NEW c \in Consumers, NEW a, NEW f, NEW w, NEW t, NEW o, NEW x,
         taking[c] = Knows(a, f, w, t, o, x)
  PROVE  /\ NotTaking = Knows("out", Nothing, 0, 0, 0, 0)
         /\ \A p, n : ReadTail(c, p, n) =>
              a = "out" /\ Comes(c, "tail read", p, n, tailIndex[p], 0, 0)
         /\ ReadOvercommit(c) =>
              a = "tail read" /\ Comes(c, "both read", f, w, t, overcommit[f], x)
         /\ Guess(c) =>
              /\ a = "both read"
              /\ \/ Leaves(c)
                 \/ \E n \in 1..w : Comes(c, "add", f, n, 0, o, x)
         /\ AddOptimistic(c) =>
              a = "add" /\ Comes(c, "added", f, w, t, o, optimistic[f])
         /\ ReadTailAgain(c) =>
              /\ a = "added"
              /\ LET n == Smaller(w, tailIndex[f] - (x - o))
                 IN Comes(c, IF n = w THEN "claim" ELSE "give back", f, w,
                                                          IF n > 0 THEN n ELSE 0, o, x)
         /\ GiveBack(c) =>
              a = "give back" /\ (IF t > 0 THEN Comes(c, "claim", f, t, t, o, x) ELSE Leaves(c))
         /\ Claim(c) =>
              a = "claim" /\ Comes(c, "move", f, w, 0, 0, headIndex[f])
         /\ Move(c) =>
              a = "move" /\ Comes(c, "moved", f, w, t, o, x)
         /\ SetEmpty(c) =>
              /\ a = "moved"
              /\ \/ Leaves(c)
                 \/ \E k \in Nat : k < w /\ Comes(c, "move", f, w - k, t, o, x + k)
<1>0. /\ a = taking[c].at /\ f = taking[c].from /\ w = taking[c].want /\ t = taking[c].tail
      /\ o = taking[c].over /\ x = taking[c].first
  BY DEF Knows
<1>n. NotTaking = Knows("out", Nothing, 0, 0, 0, 0)
  BY DEF NotTaking, Knows
<1>t. /\ f \in Producers \cup {Nothing} /\ w \in Nat /\ t \in Nat /\ o \in Nat /\ x \in Nat
  BY <1>0, TakingTypes
<1>p. PICK r : r = taking[c]
  OBVIOUS
<1>q. r = Knows(a, f, w, t, o, x)
  BY <1>p
<1>1. ASSUME NEW p, NEW n, ReadTail(c, p, n)
      PROVE  a = "out" /\ Comes(c, "tail read", p, n, tailIndex[p], 0, 0)
  <2>1. PICK s : s = NotTaking
    OBVIOUS
  <2>2. \A b, m : AnewFromTail(s, b, p, n, m) = Knows(b, p, n, m, 0, 0)
    BY <1>n, <2>1, KnowsAnew
  <2>3. a = "out" /\ taking' = [taking EXCEPT ![c] = AnewFromTail(s, "tail read", p, n, tailIndex[p])]
    BY <1>0, <1>1, <2>1 DEF ReadTail, Takes, AnewFromTail
  <2> QED
    BY <1>n, <2>2, <2>3 DEF Comes, Leaves
<1>2. ASSUME ReadOvercommit(c)
      PROVE  a = "tail read" /\ Comes(c, "both read", f, w, t, overcommit[f], x)
  <2>1. a = "tail read" /\ taking' = [taking EXCEPT ![c] = AnewOver(r, "both read", overcommit[f])]
    BY <1>0, <1>p, <1>2 DEF ReadOvercommit, Takes, AnewOver
  <2>2. \A b, m : AnewOver(r, b, m) = Knows(b, f, w, t, m, x)
    BY <1>q, KnowsAnew
  <2> QED
    BY <1>n, <2>1, <2>2 DEF Comes, Leaves
<1>3. ASSUME Guess(c)
      PROVE  /\ a = "both read"
             /\ \/ Leaves(c)
                \/ \E n \in 1..w : Comes(c, "add", f, n, 0, o, x)
  <2> DEFINE n == Smaller(w, t - (optimistic[f] - o))
  <2>1. a = "both read" /\ taking' = [taking EXCEPT ![c] = IF n > 0 THEN AnewWantTail(r, "add", n, 0) ELSE NotTaking]
    BY <1>0, <1>p, <1>3 DEF Guess, Takes, AnewWantTail
  <2>2. n > 0 => n \in 1..w
    <3>1. f \in Producers
      BY <1>0, <2>1 DEF KnowsItsCall, KnowsCall
    <3>2. optimistic[f] \in Nat
      BY <3>1 DEF Types, CounterTypes
    <3> QED
      BY <1>t, <3>2 DEF Smaller
  <2> HIDE DEF n
  <2>3. AnewWantTail(r, "add", n, 0) = Knows("add", f, n, 0, o, x)
    BY <1>q, KnowsAnew
  <2> QED
    BY <1>n, <2>1, <2>2, <2>3 DEF Comes, Leaves
<1>4. ASSUME AddOptimistic(c)
      PROVE  a = "add" /\ Comes(c, "added", f, w, t, o, optimistic[f])
  <2>1. a = "add" /\ taking' = [taking EXCEPT ![c] = AnewFirst(r, "added", optimistic[f])]
    BY <1>0, <1>p, <1>4 DEF AddOptimistic, Takes, AnewFirst
  <2>2. AnewFirst(r, "added", optimistic[f]) = Knows("added", f, w, t, o, optimistic[f])
    BY <1>q, KnowsAnew
  <2> QED
    BY <1>n, <2>1, <2>2 DEF Comes, Leaves
<1>5. ASSUME ReadTailAgain(c)
      PROVE  /\ a = "added"
             /\ LET n == Smaller(w, tailIndex[f] - (x - o))
                IN Comes(c, IF n = w THEN "claim" ELSE "give back", f, w, IF n > 0 THEN n ELSE 0, o, x)
  <2> DEFINE n == Smaller(w, tailIndex[f] - (x - o))
             b == IF n = w THEN "claim" ELSE "give back"
             m == IF n > 0 THEN n ELSE 0
  <2>1. a = "added" /\ taking' = [taking EXCEPT ![c] = AnewTail(r, b, m)]
    BY <1>0, <1>p, <1>5 DEF ReadTailAgain, Takes, AnewTail
  <2> HIDE DEF b, m
  <2>2. AnewTail(r, b, m) = Knows(b, f, w, m, o, x)
    BY <1>q, KnowsAnew
  <2> QED
    BY <2>1, <2>2 DEF b, m, Comes, Leaves
<1>6. ASSUME GiveBack(c)
      PROVE  a = "give back" /\ (IF t > 0 THEN Comes(c, "claim", f, t, t, o, x) ELSE Leaves(c))
  <2>1. a = "give back" /\ taking' = [taking EXCEPT ![c] = IF t > 0 THEN AnewWant(r, "claim", t) ELSE NotTaking]
    BY <1>0, <1>p, <1>6 DEF GiveBack, Takes, AnewWant
  <2>2. AnewWant(r, "claim", t) = Knows("claim", f, t, t, o, x)
    BY <1>q, KnowsAnew
  <2> QED
    BY <1>n, <2>1, <2>2 DEF Comes, Leaves
<1>7. ASSUME Claim(c)
      PROVE  a = "claim" /\ Comes(c, "move", f, w, 0, 0, headIndex[f])
  <2>1. PICK s : s = NotTaking
    OBVIOUS
  <2>2. AnewFromFirst(s, "move", f, w, headIndex[f])
          = Knows("move", f, w, 0, 0, headIndex[f])
    BY <1>n, <2>1, KnowsAnew
  <2>3. a = "claim" /\ taking' = [taking EXCEPT ![c] = AnewFromFirst(s, "move", f, w, headIndex[f])]
    BY <1>0, <1>7, <2>1 DEF Claim, Takes, AnewFromFirst
  <2> QED
    BY <1>n, <2>2, <2>3 DEF Comes, Leaves
<1>8. ASSUME Move(c)
      PROVE  a = "move" /\ Comes(c, "moved", f, w, t, o, x)
  <2>1. a = "move" /\ taking' = [taking EXCEPT ![c] = AnewAt(r, "moved")]
    BY <1>0, <1>p, <1>8 DEF Move, Looked, Takes, AnewAt
  <2>2. AnewAt(r, "moved") = Knows("moved", f, w, t, o, x)
    BY <1>q, KnowsAnew
  <2> QED
    BY <1>n, <2>1, <2>2 DEF Comes, Leaves
<1>9. ASSUME SetEmpty(c)
      PROVE  /\ a = "moved"
             /\ \/ Leaves(c)
                \/ \E k \in Nat : k < w /\ Comes(c, "move", f, w - k, t, o, x + k)
  <2>1. PICK k : k = Cardinality(Part(c))
    OBVIOUS
  <2>2. k \in Nat
    <3>1. Part(c) \subseteq x..x + w - 1
      BY <1>0 DEF Part
    <3>2. IsFiniteSet(x..x + w - 1)
      BY <1>t, FS_Interval
    <3> QED
      BY <2>1, <3>1, <3>2, FS_Subset, FS_CardinalityType
  <2>3. a = "moved" /\ taking' = [taking EXCEPT ![c] = IF k < w THEN AnewWantFirst(r, "move", w - k, x + k) ELSE NotTaking]
    BY <1>0, <1>p, <1>9, <2>1 DEF SetEmpty, Takes, AnewWantFirst
  <2>4. AnewWantFirst(r, "move", w - k, x + k) = Knows("move", f, w - k, t, o, x + k)
    BY <1>q, KnowsAnew
  <2> QED
    BY <1>n, <2>2, <2>3, <2>4 DEF Comes, Leaves
<1> QED
  BY <1>n, <1>1, <1>2, <1>3, <1>4, <1>5, <1>6, <1>7, <1>8, <1>9

\* A record with all the fields that a consumer has.
KnowsAll(c, a, f, w, t, o, x) ==
  /\ taking[c] = Knows(a, f, w, t, o, x)
  /\ a = taking[c].at /\ f = taking[c].from /\ w = taking[c].want /\ t = taking[c].tail
  /\ o = taking[c].over /\ x = taking[c].first

\* There is nothing else that a consumer could know.
LEMMA KnowsSome ==
  Types => \A c \in Consumers : \E a, f, w, t, o, x : KnowsAll(c, a, f, w, t, o, x)
<1> SUFFICES ASSUME Types, NEW c \in Consumers PROVE \E a, f, w, t, o, x : KnowsAll(c, a, f, w, t, o, x)
  OBVIOUS
<1>1. taking[c] \in [at : Wanting \cup {"out", "move", "moved"}, from : Producers \cup {Nothing},
                     want : Nat, tail : Nat, over : Nat, first : Nat]
  BY DEF Types, ConsumerTypes
<1>2. taking[c] = Knows(taking[c].at, taking[c].from, taking[c].want, taking[c].tail, taking[c].over, taking[c].first)
  BY <1>1 DEF Knows
<1> QED
  BY <1>2 DEF KnowsAll

\* The queue's side of a dequeue keeps its types.
LEMMA DequeueTypes ==
  ASSUME Types, KnowsItsCall, NEW c \in Consumers, DequeueInner(c)
  PROVE  ConsumerTypes' /\ CounterTypes' /\ PlaceTypes'
<1>0. PICK a, f, w, t, o, x : KnowsAll(c, a, f, w, t, o, x)
  BY KnowsSome
<1>1. taking[c] = Knows(a, f, w, t, o, x) /\ taking[c].at = a /\ taking[c].want = w
  BY <1>0 DEF KnowsAll
<1>2. /\ a \in Wanting \cup {"out", "move", "moved"} /\ f \in Producers \cup {Nothing}
      /\ w \in Nat /\ t \in Nat /\ o \in Nat /\ x \in Nat
  BY <1>0, TakingTypes DEF KnowsAll
<1>3. a # "out" => f \in Producers
  BY <1>0 DEF KnowsAll, KnowsItsCall, KnowsCall
<1>4. a \in Wanting => 1 <= w /\ w <= left[c]
  BY <1>0 DEF KnowsAll, KnowsItsCall, KnowsCall
<1>5. a = "give back" => t < w
  BY <1>0 DEF KnowsAll, KnowsItsCall, KnowsCall
<1>6. UNCHANGED <<tailIndex, place, untried>> /\ left' = [left EXCEPT ![c] = IF a = "claim" THEN left[c] - w ELSE left[c]]
  BY <1>1 DEF DequeueInner, Dequeuing, ReadOvercommit, Guess, AddOptimistic, ReadTailAgain, GiveBack,
              Claim, ReadIndex, ReadFront, Move, SetEmpty, counters, semaphore
<1>u. CounterTypes /\ ConsumerTypes /\ PlaceTypes
  BY DEF Types
<1>7. PlaceTypes'
  <2>1. left[c] \in Nat
    BY <1>u DEF PlaceTypes
  <2>2. (IF a = "claim" THEN left[c] - w ELSE left[c]) \in Nat
    <3>1. CASE a = "claim"
      <4>1. w <= left[c]
        BY <1>4, <3>1 DEF Wanting
      <4>2. left[c] - w \in Nat
        BY <1>2, <2>1, <4>1
      <4> QED
        BY <3>1, <4>2
    <3>2. CASE a # "claim"
      BY <2>1, <3>2
    <3> QED
      BY <3>1, <3>2
  <2> QED
    BY <1>6, <1>u, <2>2 DEF PlaceTypes
<1>k. ASSUME NEW b \in Wanting \cup {"out", "move", "moved"}, NEW g \in Producers \cup {Nothing},
             NEW u \in Nat, NEW v \in Nat, NEW y \in Nat, NEW z \in Nat,
             Comes(c, b, g, u, v, y, z)
      PROVE  ConsumerTypes'
  <2>1. Knows(b, g, u, v, y, z) \in [at : Wanting \cup {"out", "move", "moved"}, from : Producers \cup {Nothing},
                                     want : Nat, tail : Nat, over : Nat, first : Nat]
    BY DEF Knows
  <2> QED
    BY <1>k, <1>u, <2>1 DEF ConsumerTypes, Comes
<1>n. Leaves(c) => ConsumerTypes'
  BY <1>k DEF Leaves
<1>f. f \in Producers => /\ optimistic[f] \in Nat /\ overcommit[f] \in Nat /\ headIndex[f] \in Nat /\ tailIndex[f] \in Nat
  BY <1>u DEF CounterTypes
<1>8. CASE ReadOvercommit(c)
  <2>1. a = "tail read" /\ Comes(c, "both read", f, w, t, overcommit[f], x)
    BY <1>1, <1>8, Learns
  <2>2. ConsumerTypes'
    BY <1>2, <1>3, <1>f, <1>k, <2>1 DEF Wanting
  <2> QED
    BY <1>7, <1>8, <1>u, <2>2 DEF ReadOvercommit, CounterTypes, counters
<1>9. CASE Guess(c)
  <2>1. a = "both read" /\ (\/ Leaves(c)
                            \/ \E n \in 1..w : Comes(c, "add", f, n, 0, o, x))
    BY <1>1, <1>9, Learns
  <2>2. ASSUME NEW n \in 1..w, Comes(c, "add", f, n, 0, o, x) PROVE ConsumerTypes'
    <3>1. n \in Nat
      BY <1>2
    <3> QED
      BY <1>2, <1>k, <2>2, <3>1 DEF Wanting
  <2>3. ConsumerTypes'
    BY <1>n, <2>1, <2>2
  <2> QED
    BY <1>7, <1>9, <1>u, <2>3 DEF Guess, CounterTypes, counters
<1>10. CASE AddOptimistic(c)
  <2>1. a = "add" /\ Comes(c, "added", f, w, t, o, optimistic[f])
    BY <1>1, <1>10, Learns
  <2>2. ConsumerTypes'
    BY <1>2, <1>3, <1>f, <1>k, <2>1 DEF Wanting
  <2>3. optimistic' = [optimistic EXCEPT ![f] = optimistic[f] + w] /\ UNCHANGED <<tailIndex, headIndex, overcommit>>
    BY <1>0, <1>10 DEF AddOptimistic, KnowsAll
  <2>4. CounterTypes'
    BY <1>2, <1>3, <1>f, <1>u, <2>1, <2>3 DEF CounterTypes
  <2> QED
    BY <1>7, <2>2, <2>4
<1>11. CASE ReadTailAgain(c)
  <2> DEFINE n == Smaller(w, tailIndex[f] - (x - o))
             b == IF n = w THEN "claim" ELSE "give back"
             m == IF n > 0 THEN n ELSE 0
  <2>1. a = "added" /\ Comes(c, b, f, w, m, o, x)
    BY <1>1, <1>11, Learns
  <2>4. tailIndex[f] \in Nat
    BY <1>3, <1>f, <2>1
  <2>5. n \in Int
    BY <1>2, <2>4 DEF Smaller
  <2>6. b \in Wanting
    BY DEF Wanting
  <2> HIDE DEF n
  <2> HIDE DEF b
  <2>2. m \in Nat /\ b \in Wanting
    BY <2>5, <2>6
  <2> HIDE DEF m
  <2>3. ConsumerTypes'
    BY <1>2, <1>k, <2>1, <2>2
  <2> QED
    BY <1>7, <1>11, <1>u, <2>3 DEF ReadTailAgain, CounterTypes, counters
<1>12. CASE GiveBack(c)
  <2>1. a = "give back" /\ (IF t > 0 THEN Comes(c, "claim", f, t, t, o, x) ELSE Leaves(c))
    BY <1>1, <1>12, Learns
  <2>2. ConsumerTypes'
    <3>1. CASE t > 0
      BY <1>2, <1>k, <2>1, <3>1 DEF Wanting
    <3>2. CASE ~(t > 0)
      BY <1>n, <2>1, <3>2
    <3> QED
      BY <3>1, <3>2
  <2>3. overcommit' = [overcommit EXCEPT ![f] = overcommit[f] + w - t] /\ UNCHANGED <<tailIndex, headIndex, optimistic>>
    BY <1>0, <1>12 DEF GiveBack, KnowsAll
  <2>6. overcommit[f] \in Nat /\ t < w
    BY <1>3, <1>5, <1>f, <2>1
  <2>4. overcommit[f] + w - t \in Nat
    BY <1>2, <2>6
  <2>5. CounterTypes'
    BY <1>u, <2>3, <2>4 DEF CounterTypes
  <2> QED
    BY <1>7, <2>2, <2>5
<1>13. CASE Claim(c)
  <2>1. a = "claim" /\ Comes(c, "move", f, w, 0, 0, headIndex[f])
    BY <1>1, <1>13, Learns
  <2>2. ConsumerTypes'
    BY <1>2, <1>3, <1>f, <1>k, <2>1
  <2>3. headIndex' = [headIndex EXCEPT ![f] = headIndex[f] + w] /\ UNCHANGED <<tailIndex, optimistic, overcommit>>
    BY <1>0, <1>13 DEF Claim, KnowsAll
  <2>4. CounterTypes'
    BY <1>2, <1>3, <1>f, <1>u, <2>1, <2>3 DEF CounterTypes
  <2> QED
    BY <1>7, <2>2, <2>4
<1>14. CASE Move(c)
  <2>1. a = "move" /\ Comes(c, "moved", f, w, t, o, x)
    BY <1>1, <1>14, Learns
  <2>2. ConsumerTypes'
    BY <1>2, <1>k, <2>1
  <2> QED
    BY <1>7, <1>14, <1>u, <2>2 DEF Move, CounterTypes, counters
<1>15. CASE SetEmpty(c)
  <2>1. a = "moved" /\ (\/ Leaves(c)
                        \/ \E k \in Nat : k < w /\ Comes(c, "move", f, w - k, t, o, x + k))
    BY <1>1, <1>15, Learns
  <2>2. ASSUME NEW k \in Nat, k < w, Comes(c, "move", f, w - k, t, o, x + k) PROVE ConsumerTypes'
    <3>1. w - k \in Nat /\ x + k \in Nat
      BY <1>2, <2>2
    <3> QED
      BY <1>2, <1>k, <2>2, <3>1
  <2>3. ConsumerTypes'
    BY <1>n, <2>1, <2>2
  <2> QED
    BY <1>7, <1>15, <1>u, <2>3 DEF SetEmpty, CounterTypes, counters
<1>16. CASE ReadIndex(c) \/ ReadFront(c)
  <2>1. UNCHANGED <<counters, taking>>
    BY <1>16 DEF ReadIndex, ReadFront
  <2> QED
    BY <1>7, <1>u, <2>1 DEF ConsumerTypes, CounterTypes, counters
<1> QED
  BY <1>8, <1>9, <1>10, <1>11, <1>12, <1>13, <1>14, <1>15, <1>16 DEF DequeueInner, Dequeuing

\* A record of who posts.
LEMMA PostRecord ==
  \A k : [NotFilling EXCEPT !.at = "post", !.count = k] = [at |-> "post", count |-> k, start |-> Nothing, slot |-> 0, used |-> 0]
<1> SUFFICES ASSUME NEW k
             PROVE  [NotFilling EXCEPT !.at = "post", !.count = k] = [at |-> "post", count |-> k, start |-> Nothing, slot |-> 0, used |-> 0]
  OBVIOUS
<1>1. PICK r : r = NotFilling
  OBVIOUS
<1>2. PICK s : s = [r EXCEPT !.at = "post"]
  OBVIOUS
<1>3. s = [at |-> "post", count |-> 0, start |-> Nothing, slot |-> 0, used |-> 0]
  BY <1>1, <1>2 DEF NotFilling
<1>4. [s EXCEPT !.count = k] = [at |-> "post", count |-> k, start |-> Nothing, slot |-> 0, used |-> 0]
  BY <1>3
<1>5. [NotFilling EXCEPT !.at = "post", !.count = k] = [s EXCEPT !.count = k]
  BY <1>1, <1>2
<1> QED
  BY <1>4, <1>5
-------------------------------------------------------------------------------
\* A step keeps the types.
LEMMA TypesStep == Types /\ KnowsItsCall /\ [Next]_vars => Types'
<1> SUFFICES ASSUME Types, KnowsItsCall, [Next]_vars PROVE Types'
  OBVIOUS
<1> DEFINE Parts ==
             CounterTypes /\ FillingTypes /\ ConsumerTypes /\ CallTypes /\ SemaphoreTypes /\ PlaceTypes
<1>u. CounterTypes /\ FillingTypes /\ ConsumerTypes /\ CallTypes /\ SemaphoreTypes /\ PlaceTypes
  BY DEF Types
<1>t. \A c \in Consumers : /\ taking[c].at \in Wanting \cup {"out", "move", "moved"}
                           /\ taking[c].from \in Producers \cup {Nothing}
                           /\ taking[c].want \in Nat /\ taking[c].tail \in Nat
                           /\ taking[c].over \in Nat /\ taking[c].first \in Nat
  BY TakingTypes
<1>c. ASSUME NEW c \in Consumers, toDequeue[c] # <<>>
      PROVE  /\ Tail(toDequeue[c]) \in Seq([max : Nat \ {0}, mode : {"try", "timed", "wait"}])
             /\ Call(c).max \in Nat \ {0}
  <2>1. toDequeue[c] \in Seq([max : Nat \ {0}, mode : {"try", "timed", "wait"}])
    BY <1>u DEF CallTypes
  <2> DEFINE call == Head(toDequeue[c])
  <2>2. call \in [max : Nat \ {0}, mode : {"try", "timed", "wait"}]
    BY <1>u, <1>c, <2>1, HeadTailProperties
  <2> HIDE DEF call
  <2>3. call.max \in Nat \ {0}
    BY <1>u, <2>2
  <2> QED
    BY <1>u, <1>c, <2>1, <2>3, HeadTailProperties DEF call, Call
<1>m. ASSUME NEW k \in Nat PROVE MayTake(k) \in Nat /\ MayTake(k) <= k /\ count - MayTake(k) \in Int
  BY <1>u DEF SemaphoreTypes, MayTake, Largest, Smaller
<1>k1. UNCHANGED counters => CounterTypes'
  BY <1>u DEF CounterTypes, counters
<1>k2. UNCHANGED filling => FillingTypes'
  BY <1>u DEF FillingTypes
<1>k3. UNCHANGED taking => ConsumerTypes'
  BY <1>u DEF ConsumerTypes
<1>k4. UNCHANGED <<toEnqueue, toDequeue>> => CallTypes'
  BY <1>u DEF CallTypes
<1>k5. UNCHANGED <<count, sema>> => SemaphoreTypes'
  BY <1>u DEF SemaphoreTypes
<1>k6. UNCHANGED <<place, left, untried>> => PlaceTypes'
  BY <1>u DEF PlaceTypes
<1>1. ASSUME NEW p \in Producers, Enqueue(p) PROVE Parts'
  <2>1. Head(toEnqueue[p]) \in Nat /\ Tail(toEnqueue[p]) \in Seq(Nat)
    BY <1>u, <1>1, HeadTailProperties DEF CallTypes, Enqueue
  <2> DEFINE n == Head(toEnqueue[p])
             s == IF ring[p] # <<>> THEN Last(ring[p]) ELSE Nothing
             b == IF p \in Explicit THEN "reserve" ELSE "allocate"
  <2>2. /\ filling' = [filling EXCEPT ![p] = [at |-> b, count |-> n, start |-> s, slot |-> nextSlot[p], used |-> slotsUsed[p]]]
        /\ b # "post"
        /\ toEnqueue' = [toEnqueue EXCEPT ![p] = Tail(@)] /\ n \in Nat
        /\ UNCHANGED <<counters, taking, toDequeue, semaphore, left, untried>>
    BY <1>u, <1>1, <2>1 DEF Enqueue, Begin
  <2> HIDE DEF n, s, b
  <2>3. FillingTypes'
    BY <1>u, <2>2 DEF FillingTypes
  <2>4. CallTypes'
    BY <1>u, <2>1, <2>2 DEF CallTypes
  <2> QED
    BY <1>u, <2>2, <2>3, <2>4, <1>k1, <1>k3, <1>k5, <1>k6 DEF semaphore
<1>2. ASSUME NEW p \in Producers, EnqueueInner(p) PROVE Parts'
  <2>1. UNCHANGED <<headIndex, optimistic, overcommit, taking, toEnqueue, toDequeue, semaphore, left, untried>>
    BY <1>u, <1>2 DEF EnqueueInner, Enqueuing, Reuse, AskPool, Grow, Requisition, Fail, Fill, Publish, counters
  <2>2. FillingTypes'
    <3>1. CASE filling' = filling
      BY <1>u, <3>1, <1>k2
    <3>2. CASE filling' = [filling EXCEPT ![p] = NotFilling]
      BY <1>u, <3>2 DEF FillingTypes, NotFilling
    <3>3. ASSUME NEW a, a # "post", filling' = [filling EXCEPT ![p].at = a] PROVE FillingTypes'
      <4>1. /\ filling[p] = [at |-> filling[p].at, count |-> filling[p].count, start |-> filling[p].start, slot |-> filling[p].slot, used |-> filling[p].used]
            /\ filling[p].count \in Nat /\ DOMAIN filling = Producers
        BY <1>u DEF FillingTypes
      <4>2. [filling[p] EXCEPT !.at = a] = [at |-> a, count |-> filling[p].count, start |-> filling[p].start, slot |-> filling[p].slot, used |-> filling[p].used]
        BY <1>u, <4>1
      <4>3. filling' = [filling EXCEPT ![p] = [at |-> a, count |-> filling[p].count, start |-> filling[p].start, slot |-> filling[p].slot, used |-> filling[p].used]]
        BY <1>u, <3>3, <4>2
      <4> QED
        BY <1>u, <3>3, <4>1, <4>3 DEF FillingTypes
    <3>4. ASSUME NEW l, filling' = [filling EXCEPT ![p].slot = l] PROVE FillingTypes'
      <4>1. /\ filling[p] = [at |-> filling[p].at, count |-> filling[p].count, start |-> filling[p].start, slot |-> filling[p].slot, used |-> filling[p].used]
            /\ filling[p].count \in Nat /\ DOMAIN filling = Producers /\ (filling[p].at = "post" => filling[p].count > 0)
        BY <1>u DEF FillingTypes
      <4>2. [filling[p] EXCEPT !.slot = l] = [at |-> filling[p].at, count |-> filling[p].count, start |-> filling[p].start, slot |-> l, used |-> filling[p].used]
        BY <4>1
      <4>3. filling' = [filling EXCEPT ![p] = [at |-> filling[p].at, count |-> filling[p].count, start |-> filling[p].start, slot |-> l, used |-> filling[p].used]]
        BY <3>4, <4>2
      <4> QED
        BY <1>u, <4>1, <4>3 DEF FillingTypes
    <3> QED
      BY <1>u, <1>2, <3>1, <3>2, <3>3, <3>4 DEF EnqueueInner, Enqueuing, Reuse, AskPool, Grow, Requisition, Fail, Fill, Publish, Fills
  <2>3. CounterTypes'
    <3>1. tailIndex' = tailIndex \/ tailIndex' = [tailIndex EXCEPT ![p] = @ + filling[p].count]
      BY <1>u, <1>2 DEF EnqueueInner, Enqueuing, Reuse, AskPool, Grow, Requisition, Fail, Fill, Publish, counters
    <3>2. tailIndex[p] + filling[p].count \in Nat
      BY <1>u DEF CounterTypes, FillingTypes
    <3>3. tailIndex' \in [Producers -> Nat]
      BY <1>u, <3>1, <3>2 DEF CounterTypes
    <3> QED
      BY <1>u, <2>1, <3>3 DEF CounterTypes
  <2> QED
    BY <1>u, <2>1, <2>2, <2>3, <1>k3, <1>k4, <1>k5, <1>k6 DEF semaphore
<1>3. ASSUME NEW p \in Producers, AddCount(p) PROVE Parts'
  <2> DEFINE release == Largest(0, Smaller(-count, filling[p].count))
  <2>1. /\ count' = count + filling[p].count
        /\ filling' = [filling EXCEPT ![p] =
             IF release > 0 THEN [NotFilling EXCEPT !.at = "post", !.count = release] ELSE NotFilling]
        /\ UNCHANGED <<counters, taking, toEnqueue, toDequeue, sema, place, left, untried>>
    BY <1>u, <1>3 DEF AddCount
  <2>2. release \in Nat /\ filling[p].count \in Nat
    BY <1>u DEF SemaphoreTypes, FillingTypes, Largest, Smaller
  <2> HIDE DEF release
  <2>3. [NotFilling EXCEPT !.at = "post", !.count = release] = [at |-> "post", count |-> release, start |-> Nothing, slot |-> 0, used |-> 0]
    BY <1>u, PostRecord
  <2>4. filling' = [filling EXCEPT ![p] = filling'[p]]
        /\ \/ filling'[p] = [at |-> "post", count |-> release, start |-> Nothing, slot |-> 0, used |-> 0] /\ release > 0
           \/ filling'[p] = NotFilling
    BY <1>u, <2>1, <2>3 DEF FillingTypes
  <2>5. FillingTypes'
    BY <1>u, <2>2, <2>4 DEF FillingTypes, NotFilling
  <2>6. SemaphoreTypes'
    BY <1>u, <2>1, <2>2 DEF SemaphoreTypes
  <2> QED
    BY <1>u, <2>1, <2>5, <2>6, <1>k1, <1>k3, <1>k4, <1>k6
<1>4. ASSUME NEW p \in Producers, Post(p) PROVE Parts'
  <2>0. /\ filling[p] = [at |-> filling[p].at, count |-> filling[p].count, start |-> filling[p].start, slot |-> filling[p].slot, used |-> filling[p].used]
        /\ filling[p].count \in Nat /\ DOMAIN filling = Producers
    BY <1>u DEF FillingTypes
  <2>1. [filling[p] EXCEPT !.count = filling[p].count - 1]
          = [at |-> filling[p].at, count |-> filling[p].count - 1, start |-> filling[p].start, slot |-> filling[p].slot, used |-> filling[p].used]
    BY <1>u, <2>0
  <2>5. filling' = [filling EXCEPT ![p] = IF filling[p].count > 1 THEN [filling[p] EXCEPT !.count = filling[p].count - 1]
                                                                ELSE NotFilling]
    <3>1. CASE filling[p].count > 1
      BY <1>4, <3>1 DEF Post
    <3>2. CASE ~(filling[p].count > 1)
      BY <1>4, <3>2 DEF Post
    <3> QED
      BY <3>1, <3>2
  <2>2. filling' = [filling EXCEPT ![p] = filling'[p]]
        /\ \/ filling'[p] = [at |-> filling[p].at, count |-> filling[p].count - 1, start |-> filling[p].start, slot |-> filling[p].slot, used |-> filling[p].used]
              /\ filling[p].count > 1
           \/ filling'[p] = NotFilling
    BY <1>u, <2>0, <2>1, <2>5
  <2>3. FillingTypes'
    BY <1>u, <2>0, <2>2 DEF FillingTypes, NotFilling
  <2>4. SemaphoreTypes'
    BY <1>u, <1>4 DEF Post, SemaphoreTypes
  <2> QED
    BY <1>u, <1>4, <2>3, <2>4, <1>k1, <1>k3, <1>k4, <1>k6 DEF Post
<1>g. ASSUME NEW c \in Consumers, NEW n \in Nat, Grant(c, n), toDequeue[c] # <<>>
      PROVE  /\ PlaceTypes' /\ toDequeue' \in [Consumers -> Seq([max : Nat \ {0}, mode : {"try", "timed", "wait"}])]
  <2>1. PlaceTypes'
    BY <1>u, <1>g DEF PlaceTypes, Grant
  <2> QED
    BY <1>u, <1>g, <1>c, <2>1 DEF CallTypes, Grant
<1>h. ASSUME NEW c \in Consumers, Granted1(c), toDequeue[c] # <<>>
      PROVE  /\ PlaceTypes' /\ toDequeue' \in [Consumers -> Seq([max : Nat \ {0}, mode : {"try", "timed", "wait"}])]
  <2>1. CASE Call(c).max > 1
    <3>1. /\ left' = [left EXCEPT ![c] = 1] /\ place' = [place EXCEPT ![c] = "more"]
          /\ UNCHANGED <<toDequeue, untried>>
      BY <1>u, <1>h, <2>1 DEF Granted1
    <3>2. PlaceTypes'
      BY <1>u, <3>1 DEF PlaceTypes
    <3> QED
      BY <1>u, <3>1, <3>2 DEF CallTypes
  <2>2. CASE ~(Call(c).max > 1)
    BY <1>u, <1>h, <1>g, <2>2 DEF Granted1
  <2> QED
    BY <1>u, <2>1, <2>2
<1>5. ASSUME NEW c \in Consumers, TryWait(c) PROVE Parts'
  <2>1. toDequeue[c] # <<>>
    BY <1>u, <1>5 DEF TryWait, Asks
  <2>2. PICK n \in Nat : n = MayTake(Call(c).max) /\ count - n \in Int
    BY <1>u, <2>1, <1>c, <1>m
  <2>3. Grant(c, n) /\ count' = count - n /\ UNCHANGED <<queueVars, toEnqueue, sema>>
    BY <1>u, <1>5, <2>2 DEF TryWait
  <2>4. PlaceTypes' /\ CallTypes'
    BY <1>u, <2>1, <2>3, <1>g DEF CallTypes
  <2>5. SemaphoreTypes'
    BY <1>u, <2>2, <2>3 DEF SemaphoreTypes
  <2> QED
    BY <1>u, <2>3, <2>4, <2>5, <1>k1, <1>k2, <1>k3 DEF queueVars
<1>6. ASSUME NEW c \in Consumers, NothingToTry(c) PROVE Parts'
  <2>1. CallTypes'
    BY <1>u, <1>6, <1>c DEF CallTypes, NothingToTry, Asks
  <2> QED
    BY <1>u, <1>6, <2>1, <1>k1, <1>k2, <1>k3, <1>k5, <1>k6 DEF NothingToTry, queueVars, semaphore
<1>7. ASSUME NEW c \in Consumers, GoToSleep(c) PROVE Parts'
  <2>1. count' = count - 1 /\ UNCHANGED <<queueVars, toEnqueue, sema>>
    BY <1>u, <1>7 DEF GoToSleep
  <2>2. PlaceTypes' /\ CallTypes'
    <3>1. CASE count > 0
      BY <1>u, <1>7, <1>h, <2>1, <3>1 DEF GoToSleep, Asks, CallTypes
    <3>2. CASE ~(count > 0)
      BY <1>u, <1>7, <2>1, <3>2 DEF GoToSleep, CallTypes, PlaceTypes, Sleeping
    <3> QED
      BY <1>u, <3>1, <3>2
  <2>3. SemaphoreTypes'
    BY <1>u, <2>1 DEF SemaphoreTypes
  <2> QED
    BY <1>u, <2>1, <2>2, <2>3, <1>k1, <1>k2, <1>k3 DEF queueVars
<1>8. ASSUME NEW c \in Consumers, WakeUp(c) PROVE Parts'
  <2>1. Granted1(c) /\ sema' = sema - 1 /\ sema > 0 /\ UNCHANGED <<queueVars, toEnqueue, count>>
    BY <1>u, <1>8 DEF WakeUp
  <2>2. toDequeue[c] # <<>>
    BY <1>u, <1>8 DEF WakeUp, KnowsItsCall, KnowsCall
  <2>3. PlaceTypes' /\ CallTypes'
    BY <1>u, <2>1, <2>2, <1>h DEF CallTypes
  <2>4. SemaphoreTypes'
    BY <1>u, <2>1 DEF SemaphoreTypes
  <2> QED
    BY <1>u, <2>1, <2>3, <2>4, <1>k1, <1>k2, <1>k3 DEF queueVars
<1>9. ASSUME NEW c \in Consumers, More(c) PROVE Parts'
  <2>1. toDequeue[c] # <<>>
    BY <1>u, <1>9 DEF More, KnowsItsCall, KnowsCall
  <2>2. Call(c).max - 1 \in Nat
    BY <1>u, <1>c, <2>1
  <2>3. PICK n \in Nat : n = MayTake(Call(c).max - 1) /\ count - n \in Int
    BY <1>u, <1>m, <2>2
  <2>4. Grant(c, 1 + n) /\ count' = count - n /\ UNCHANGED <<queueVars, toEnqueue, sema>>
    BY <1>u, <1>9, <2>3 DEF More
  <2>5. PlaceTypes' /\ CallTypes'
    <3>1. 1 + n \in Nat
      OBVIOUS
    <3> QED
      BY <1>u, <2>1, <2>4, <3>1, <1>g DEF CallTypes
  <2>6. SemaphoreTypes'
    BY <1>u, <2>3, <2>4 DEF SemaphoreTypes
  <2> QED
    BY <1>u, <2>4, <2>5, <2>6, <1>k1, <1>k2, <1>k3 DEF queueVars
<1>10. ASSUME NEW c \in Consumers, TimeOut(c) PROVE Parts'
  <2>1. PlaceTypes'
    BY <1>u, <1>10 DEF PlaceTypes, TimeOut, Sleeping
  <2> QED
    BY <1>u, <1>10, <2>1, <1>k1, <1>k2, <1>k3, <1>k4, <1>k5 DEF TimeOut, queueVars
<1>11. ASSUME NEW c \in Consumers, Withdraw(c) PROVE Parts'
  <2>1. toDequeue[c] # <<>>
    BY <1>u, <1>11 DEF Withdraw, KnowsItsCall, KnowsCall, Sleeping
  <2>2. PlaceTypes'
    BY <1>u, <1>11 DEF PlaceTypes, Withdraw
  <2>3. CallTypes'
    BY <1>u, <1>11, <1>c, <2>1 DEF CallTypes, Withdraw
  <2>5. count' = count + 1 /\ sema' = sema
    BY <1>u, <1>11 DEF Withdraw
  <2>4. SemaphoreTypes'
    BY <1>u, <2>5 DEF SemaphoreTypes
  <2> QED
    BY <1>u, <1>11, <2>2, <2>3, <2>4, <1>k1, <1>k2, <1>k3 DEF Withdraw, queueVars
<1>12. ASSUME NEW c \in Consumers, SeesSignal(c) PROVE Parts'
  <2>1. PlaceTypes'
    BY <1>u, <1>12 DEF PlaceTypes, SeesSignal, Sleeping
  <2> QED
    BY <1>u, <1>12, <2>1, <1>k1, <1>k2, <1>k3, <1>k4, <1>k5 DEF SeesSignal, queueVars
<1>13. ASSUME NEW c \in Consumers, NotPostedYet(c) PROVE Parts'
  <2>1. PlaceTypes'
    BY <1>u, <1>13 DEF PlaceTypes, NotPostedYet, Sleeping
  <2> QED
    BY <1>u, <1>13, <2>1, <1>k1, <1>k2, <1>k3, <1>k4, <1>k5 DEF NotPostedYet, queueVars
<1>14. ASSUME NEW c \in Consumers, AskProducer(c) PROVE Parts'
  <2>1. PICK p \in IF untried[c] = {} THEN Producers ELSE untried[c] :
          /\ ReadTail(c, p, left[c])
          /\ untried' = [untried EXCEPT ![c] = (IF @ = {} THEN Producers ELSE @) \ {p}]
    BY <1>u, <1>14 DEF AskProducer
  <2>2. p \in Producers /\ left[c] \in Nat
    BY <1>u, <2>1 DEF PlaceTypes
  <2>3. PlaceTypes'
    BY <1>u, <1>14, <2>1 DEF PlaceTypes, AskProducer, semaphore
  <2>0. PICK a, f, w, t, o, x : KnowsAll(c, a, f, w, t, o, x)
    BY <1>u, KnowsSome
  <2>4. Comes(c, "tail read", p, left[c], tailIndex[p], 0, 0)
    BY ZenonT(60), <2>0, <2>1, Learns DEF KnowsAll
  <2>5. tailIndex[p] \in Nat
    BY <1>u, <2>2 DEF CounterTypes
  <2>6. ConsumerTypes'
    BY <1>u, <2>2, <2>4, <2>5 DEF ConsumerTypes, Wanting, Knows, Comes
  <2> QED
    BY <1>u, <1>14, <2>1, <2>3, <2>6, <1>k1, <1>k2, <1>k4, <1>k5 DEF AskProducer, ReadTail, semaphore
<1>15. ASSUME NEW c \in Consumers, DequeueInner(c) PROVE Parts'
  <2>1. ConsumerTypes' /\ CounterTypes' /\ PlaceTypes'
    BY <1>15, DequeueTypes
  <2>2. UNCHANGED <<filling, toEnqueue, toDequeue, count, sema>>
    BY <1>15 DEF DequeueInner, Dequeuing, ReadOvercommit, Guess, AddOptimistic, ReadTailAgain, GiveBack,
                 Claim, ReadIndex, ReadFront, Move, SetEmpty, semaphore
  <2> QED
    BY <2>1, <2>2, <1>k2, <1>k4, <1>k5
<1>16. ASSUME UNCHANGED vars PROVE Parts'
  BY <1>u, <1>16, <1>k1, <1>k2, <1>k3, <1>k4, <1>k5, <1>k6 DEF vars, queueVars, semaphore
<1> QED
  BY <1>u, <1>1, <1>2, <1>3, <1>4, <1>5, <1>6, <1>7, <1>8, <1>9, <1>10, <1>11, <1>12, <1>13, <1>14, <1>15, <1>16 DEF Next, Types
-------------------------------------------------------------------------------
\* What a consumer comes to know is what it knows then.
LEMMA ComesToKnow ==
  ASSUME Types, NEW c \in Consumers, NEW b, NEW g, NEW u, NEW v, NEW y, NEW z, Comes(c, b, g, u, v, y, z)
  PROVE  /\ taking'[c].at = b /\ taking'[c].from = g /\ taking'[c].want = u /\ taking'[c].tail = v
         /\ taking'[c].over = y /\ taking'[c].first = z
         /\ \A d \in Consumers \ {c} : taking'[d] = taking[d]
<1>1. taking' = [taking EXCEPT ![c] = Knows(b, g, u, v, y, z)] /\ DOMAIN taking = Consumers
  BY DEF Comes, Types, ConsumerTypes
<1>2. taking'[c] = Knows(b, g, u, v, y, z) /\ \A d \in Consumers \ {c} : taking'[d] = taking[d]
  BY <1>1
<1> QED
  BY <1>2 DEF Knows

\* A consumer that the semaphore has let on, and one that is in the queue.
LEMMA KnowsAfterwards ==
  /\ \A c \in Consumers :
       taking'[c].at = "out" /\ place'[c] = "out" => KnowsCall(c)'
  /\ \A c \in Consumers :
       (/\ place'[c] = "out" /\ taking'[c].from \in Producers
        /\ taking'[c].at \in Wanting => 1 <= taking'[c].want /\ taking'[c].want <= left'[c]
        /\ taking'[c].at = "give back" => taking'[c].tail < taking'[c].want
        /\ taking'[c].at \in {"both read", "add", "added"} => taking'[c].over <= overcommit'[taking'[c].from])
       => KnowsCall(c)'
  BY DEF KnowsCall, Sleeping, Wanting

\* A step of the queue keeps what the consumer knows.
LEMMA DequeueKnows ==
  ASSUME Types, KnowsItsCall, NEW c \in Consumers, DequeueInner(c)
  PROVE  KnowsItsCall'
<1>0. PICK a, f, w, t, o, x : KnowsAll(c, a, f, w, t, o, x)
  BY KnowsSome
<1>1. taking[c] = Knows(a, f, w, t, o, x) /\ taking[c].at = a /\ taking[c].want = w /\ taking[c].from = f
  BY <1>0 DEF KnowsAll
<1>2. w \in Nat /\ t \in Nat /\ o \in Nat /\ x \in Nat
  BY <1>0, TakingTypes DEF KnowsAll
<1>3. a # "out" => f \in Producers /\ place[c] = "out"
  BY <1>0 DEF KnowsAll, KnowsItsCall, KnowsCall
<1>4. a \in Wanting => 1 <= w /\ w <= left[c]
  BY <1>0 DEF KnowsAll, KnowsItsCall, KnowsCall
<1>5. a = "give back" => t < w
  BY <1>0 DEF KnowsAll, KnowsItsCall, KnowsCall
<1>o. a \in {"both read", "add", "added"} => o <= overcommit[f]
  BY <1>0 DEF KnowsAll, KnowsItsCall, KnowsCall
<1>6. UNCHANGED <<tailIndex, place, toDequeue>> /\ left' = [left EXCEPT ![c] = IF a = "claim" THEN left[c] - w ELSE left[c]]
  BY <1>1 DEF DequeueInner, Dequeuing, ReadOvercommit, Guess, AddOptimistic, ReadTailAgain, GiveBack,
              Claim, ReadIndex, ReadFront, Move, SetEmpty, counters, semaphore
<1>7. left[c] \in Nat /\ \A d \in Consumers \ {c} : left'[d] = left[d]
  BY <1>6 DEF Types, PlaceTypes
<1>8. a # "claim" => left'[c] = left[c]
  BY <1>6 DEF Types, PlaceTypes
<1>f. ASSUME \A d \in Consumers \ {c} : taking'[d] = taking[d],
             \A p \in Producers : overcommit'[p] >= overcommit[p], KnowsCall(c)'
      PROVE  KnowsItsCall'
  <2>1. ASSUME NEW d \in Consumers \ {c} PROVE KnowsCall(d)'
    <3>1. taking'[d] = taking[d] /\ place'[d] = place[d] /\ left'[d] = left[d] /\ toDequeue'[d] = toDequeue[d]
      BY <1>f, <1>6, <1>7
    <3>2. KnowsCall(d)
      BY DEF KnowsItsCall
    <3>3. taking[d].at \in {"both read", "add", "added"} => taking[d].over <= overcommit'[taking[d].from]
      <4>1. CASE taking[d].at \in {"both read", "add", "added"}
        <5>1. taking[d].from \in Producers /\ taking[d].over <= overcommit[taking[d].from]
          BY <3>2, <4>1 DEF KnowsCall
        <5>2. PICK p \in Producers : p = taking[d].from
          BY <5>1
        <5>3. overcommit'[p] >= overcommit[p] /\ overcommit[p] \in Nat /\ overcommit'[p] \in Nat
          BY <1>f, DequeueTypes DEF Types, CounterTypes
        <5>4. taking[d].over \in Nat
          BY TakingTypes
        <5>5. taking[d].over <= overcommit[p]
          BY <5>1, <5>2
        <5>6. taking[d].over <= overcommit'[p]
          BY <5>3, <5>4, <5>5
        <5> QED
          BY <5>2, <5>6
      <4> QED
        BY <4>1
    <3> QED
      BY <3>1, <3>2, <3>3 DEF KnowsCall, Call
  <2> QED
    BY <1>f, <2>1 DEF KnowsItsCall
<1>g. UNCHANGED overcommit => \A p \in Producers : overcommit'[p] >= overcommit[p]
  BY DEF Types, CounterTypes
<1>n. ASSUME Leaves(c), UNCHANGED overcommit, place[c] = "out" PROVE KnowsItsCall'
  <2>1. taking'[c].at = "out" /\ \A d \in Consumers \ {c} : taking'[d] = taking[d]
    BY <1>n, ComesToKnow DEF Leaves
  <2>2. KnowsCall(c)'
    BY <1>6, <1>n, <2>1, KnowsAfterwards
  <2> QED
    BY <1>f, <1>g, <1>n, <2>1, <2>2
<1> DEFINE May(b, u, v, y) ==
             /\ b \in Wanting => 1 <= u /\ u <= left'[c]
             /\ b = "give back" => v < u
             /\ b \in {"both read", "add", "added"} => y <= overcommit[f]
<1>k. ASSUME NEW b, NEW u, NEW v, NEW y, NEW z, Comes(c, b, f, u, v, y, z), UNCHANGED overcommit, a # "out",
             May(b, u, v, y)
      PROVE  KnowsItsCall'
  <2>1. /\ taking'[c].at = b /\ taking'[c].from = f /\ taking'[c].want = u /\ taking'[c].tail = v
        /\ taking'[c].over = y /\ \A d \in Consumers \ {c} : taking'[d] = taking[d]
    BY ZenonT(60), <1>k, ComesToKnow
  <2>2. KnowsCall(c)'
    BY <1>3, <1>6, <1>k, <2>1, KnowsAfterwards
  <2> QED
    BY <1>f, <1>g, <1>k, <2>1, <2>2
<1>m. ASSUME NEW u, NEW v, NEW y PROVE May("move", u, v, y) /\ May("moved", u, v, y)
  BY DEF Wanting
<1>w. a \in {"tail read", "both read", "add", "added"} => 1 <= w /\ w <= left'[c]
  BY <1>4, <1>8 DEF Wanting
<1> HIDE DEF May
<1>9. CASE ReadOvercommit(c)
  <2>1. a = "tail read" /\ Comes(c, "both read", f, w, t, overcommit[f], x)
    BY ZenonT(60), <1>1, <1>9, Learns
  <2>2. UNCHANGED overcommit
    BY <1>9 DEF ReadOvercommit, counters
  <2>3. overcommit[f] <= overcommit[f]
    <3>1. overcommit[f] \in Nat
      BY <1>3, <2>1 DEF Types, CounterTypes
    <3> QED
      BY <3>1
  <2>4. May("both read", w, t, overcommit[f])
    BY <1>w, <2>1, <2>3 DEF May
  <2> QED
    BY <1>k, <2>1, <2>2, <2>4
<1>10. CASE Guess(c)
  <2>1. a = "both read" /\ (Leaves(c) \/ \E n \in 1..w : Comes(c, "add", f, n, 0, o, x))
    BY <1>1, <1>10, Learns
  <2>2. UNCHANGED overcommit
    BY <1>10 DEF Guess, counters
  <2>3. ASSUME NEW n \in 1..w, Comes(c, "add", f, n, 0, o, x) PROVE KnowsItsCall'
    <3>1. w <= left'[c] /\ left'[c] \in Nat
      BY <1>7, <1>8, <1>w, <2>1
    <3>2. 1 <= n /\ n <= left'[c]
      BY <1>2, <3>1
    <3>3. May("add", n, 0, o)
      BY <1>o, <2>1, <3>2 DEF May
    <3> QED
      BY <1>k, <2>1, <2>2, <2>3, <3>3
  <2> QED
    BY <1>3, <1>n, <2>1, <2>2, <2>3
<1>11. CASE AddOptimistic(c)
  <2>1. a = "add" /\ Comes(c, "added", f, w, t, o, optimistic[f])
    BY <1>1, <1>11, Learns
  <2>2. UNCHANGED overcommit
    BY <1>11 DEF AddOptimistic
  <2>3. May("added", w, t, o)
    BY <1>o, <1>w, <2>1 DEF May
  <2> QED
    BY <1>k, <2>1, <2>2, <2>3
<1>12. CASE ReadTailAgain(c)
  <2> DEFINE n == Smaller(w, tailIndex[f] - (x - o))
             b == IF n = w THEN "claim" ELSE "give back"
             m == IF n > 0 THEN n ELSE 0
  <2>1. a = "added" /\ Comes(c, b, f, w, m, o, x)
    BY ZenonT(60), <1>1, <1>12, Learns
  <2>2. UNCHANGED overcommit
    BY <1>12 DEF ReadTailAgain, counters
  <2>3. 1 <= w /\ w <= left'[c]
    BY <1>w, <2>1
  <2>4. tailIndex[f] \in Nat
    BY <1>3, <2>1 DEF Types, CounterTypes
  <2>5. n <= w /\ n \in Int
    BY <1>2, <2>4 DEF Smaller
  <2> HIDE DEF n
  <2>6. b = "give back" => m < w
    BY <1>2, <2>3, <2>5
  <2>7. b \notin {"both read", "add", "added"}
    OBVIOUS
  <2> HIDE DEF m, b
  <2>8. May(b, w, m, o)
    BY <2>3, <2>6, <2>7 DEF May
  <2> QED
    BY <1>k, <2>1, <2>2, <2>8
<1>13. CASE GiveBack(c)
  <2>1. a = "give back" /\ (IF t > 0 THEN Comes(c, "claim", f, t, t, o, x) ELSE Leaves(c))
    BY ZenonT(60), <1>1, <1>13, Learns
  <2>2. overcommit' = [overcommit EXCEPT ![f] = overcommit[f] + w - t] /\ t < w
    BY <1>0, <1>5, <1>13, <2>1 DEF GiveBack, KnowsAll
  <2>3. \A p \in Producers : overcommit'[p] >= overcommit[p]
    BY <1>2, <2>2 DEF Types, CounterTypes
  <2>4. \A d \in Consumers \ {c} : taking'[d] = taking[d]
    BY <2>1, ComesToKnow DEF Leaves
  <2>5. KnowsCall(c)'
    <3>1. CASE t > 0
      <4>1. taking'[c].at = "claim" /\ taking'[c].from = f /\ taking'[c].want = t
        BY ZenonT(60), <2>1, <3>1, ComesToKnow
      <4>2. 1 <= t /\ t <= left'[c]
        <5>1. w <= left[c] /\ left'[c] = left[c]
          BY <1>4, <1>8, <2>1 DEF Wanting
        <5> QED
          BY <1>2, <1>7, <2>2, <3>1, <5>1
      <4> QED
        BY <1>3, <1>6, <2>1, <4>1, <4>2, KnowsAfterwards
    <3>2. CASE ~(t > 0)
      <4>1. taking'[c].at = "out"
        BY <2>1, <3>2, ComesToKnow DEF Leaves
      <4> QED
        BY <1>3, <1>6, <2>1, <4>1, KnowsAfterwards
    <3> QED
      BY <3>1, <3>2
  <2> QED
    BY <1>f, <2>3, <2>4, <2>5
<1>14. CASE Claim(c)
  <2>1. a = "claim" /\ Comes(c, "move", f, w, 0, 0, headIndex[f])
    BY <1>1, <1>14, Learns
  <2>2. UNCHANGED overcommit
    BY <1>14 DEF Claim
  <2> QED
    BY <1>k, <1>m, <2>1, <2>2
<1>15. CASE Move(c)
  <2>1. a = "move" /\ Comes(c, "moved", f, w, t, o, x)
    BY <1>1, <1>15, Learns
  <2>2. UNCHANGED overcommit
    BY <1>15 DEF Move, counters
  <2> QED
    BY <1>k, <1>m, <2>1, <2>2
<1>16. CASE SetEmpty(c)
  <2>1. a = "moved" /\ (Leaves(c) \/ \E k \in Nat : k < w /\ Comes(c, "move", f, w - k, t, o, x + k))
    BY ZenonT(60), <1>1, <1>16, Learns
  <2>2. UNCHANGED overcommit
    BY <1>16 DEF SetEmpty, counters
  <2>3. ASSUME NEW k \in Nat, Comes(c, "move", f, w - k, t, o, x + k) PROVE KnowsItsCall'
    BY <1>k, <1>m, <2>1, <2>2, <2>3
  <2> QED
    BY <1>3, <1>n, <2>1, <2>2, <2>3
<1>17. CASE ReadIndex(c) \/ ReadFront(c)
  <2>1. UNCHANGED <<overcommit, taking>> /\ a = "move"
    BY <1>1, <1>17 DEF ReadIndex, ReadFront, counters
  <2>2. left' = left
    BY <1>6, <2>1 DEF Types, PlaceTypes
  <2> QED
    BY <1>6, <2>1, <2>2 DEF KnowsItsCall, KnowsCall, Call
<1> QED
  BY <1>9, <1>10, <1>11, <1>12, <1>13, <1>14, <1>15, <1>16, <1>17 DEF DequeueInner, Dequeuing

\* Every step keeps it.
LEMMA KnowsStep == Types /\ KnowsItsCall /\ [Next]_vars => KnowsItsCall'
<1> SUFFICES ASSUME Types, KnowsItsCall, [Next]_vars PROVE KnowsItsCall'
  OBVIOUS
<1>t. CallTypes /\ PlaceTypes /\ ConsumerTypes
  BY DEF Types
<1>k. \A c \in Consumers : KnowsCall(c)
  BY DEF KnowsItsCall
<1>0. ASSUME UNCHANGED <<counters, taking, toDequeue, place, left>> PROVE KnowsItsCall'
  BY <1>k, <1>0 DEF KnowsItsCall, KnowsCall, Call, counters
<1>f. ASSUME NEW c \in Consumers, UNCHANGED <<counters, taking>>, KnowsCall(c)',
             \A d \in Consumers \ {c} : place'[d] = place[d] /\ left'[d] = left[d] /\ toDequeue'[d] = toDequeue[d]
      PROVE  KnowsItsCall'
  <2>1. ASSUME NEW d \in Consumers \ {c} PROVE KnowsCall(d)'
    BY <1>f, <1>k DEF KnowsCall, Call, counters
  <2> QED
    BY <1>f, <2>1 DEF KnowsItsCall
<1>p. ASSUME NEW p \in Producers, Enqueue(p) \/ EnqueueInner(p) \/ AddCount(p) \/ Post(p) PROVE KnowsItsCall'
  <2>1. UNCHANGED <<overcommit, taking, toDequeue, place, left>>
    BY <1>p DEF Enqueue, Begin, EnqueueInner, Enqueuing, Reuse, AskPool, Grow, Requisition, Fail, Fill, Publish, AddCount, Post,
                counters, semaphore
  <2> QED
    BY <1>k, <2>1 DEF KnowsItsCall, KnowsCall, Call
<1>o. ASSUME NEW c \in Consumers, place[c] # "out" PROVE taking[c].at = "out"
  BY <1>k, <1>o DEF KnowsCall
<1>n. NotTaking.at = "out"
  BY DEF NotTaking
<1>g. ASSUME NEW c \in Consumers, NEW n, Grant(c, n), taking[c].at = "out", UNCHANGED queueVars PROVE KnowsItsCall'
  <2>1. place'[c] = "out" /\ taking'[c].at = "out"
    BY <1>g, <1>t DEF Grant, PlaceTypes, queueVars
  <2>2. KnowsCall(c)'
    BY <2>1, KnowsAfterwards
  <2>3. \A d \in Consumers \ {c} : place'[d] = place[d] /\ left'[d] = left[d] /\ toDequeue'[d] = toDequeue[d]
    BY <1>g, <1>t DEF Grant, PlaceTypes, CallTypes
  <2> QED
    BY <1>f, <1>g, <2>2, <2>3 DEF queueVars
<1>h. ASSUME NEW c \in Consumers, Granted1(c), taking[c].at = "out", toDequeue[c] # <<>>, UNCHANGED queueVars
      PROVE  KnowsItsCall'
  <2>1. CASE Call(c).max > 1
    <3>1. /\ left' = [left EXCEPT ![c] = 1] /\ place' = [place EXCEPT ![c] = "more"] /\ UNCHANGED toDequeue
      BY <1>h, <2>1 DEF Granted1
    <3>2. place'[c] = "more" /\ left'[c] = 1 /\ toDequeue'[c] = toDequeue[c] /\ taking'[c] = taking[c]
          /\ \A d \in Consumers \ {c} : place'[d] = place[d] /\ left'[d] = left[d] /\ toDequeue'[d] = toDequeue[d]
      BY <1>h, <1>t, <3>1 DEF PlaceTypes, queueVars
    <3>3. KnowsCall(c)'
      BY <1>h, <2>1, <3>2 DEF KnowsCall, Call, Sleeping, Wanting
    <3> QED
      BY <1>f, <1>h, <3>2, <3>3 DEF queueVars
  <2>2. CASE ~(Call(c).max > 1)
    BY <1>g, <1>h, <2>2 DEF Granted1
  <2> QED
    BY <2>1, <2>2
<1>s. ASSUME NEW c \in Consumers, NEW s \in Sleeping, place[c] \in Sleeping \/ left[c] = 0,
             taking[c].at = "out", toDequeue[c] # <<>>,
             place' = [place EXCEPT ![c] = s], UNCHANGED <<queueVars, left, toDequeue>>
      PROVE  KnowsItsCall'
  <2>1. left[c] = 0
    BY <1>k, <1>s DEF KnowsCall
  <2>2. place'[c] = s /\ left'[c] = 0 /\ toDequeue'[c] = toDequeue[c] /\ taking'[c] = taking[c]
        /\ \A d \in Consumers \ {c} : place'[d] = place[d] /\ left'[d] = left[d] /\ toDequeue'[d] = toDequeue[d]
    BY <1>s, <1>t, <2>1 DEF PlaceTypes, queueVars
  <2>3. KnowsCall(c)'
    BY <1>s, <2>2 DEF KnowsCall, Sleeping, Wanting
  <2> QED
    BY <1>f, <1>s, <2>2, <2>3 DEF queueVars
<1>l. ASSUME NEW c \in Consumers, taking[c].at = "out", place' = [place EXCEPT ![c] = "out"],
             toDequeue' = [toDequeue EXCEPT ![c] = Tail(@)], UNCHANGED <<queueVars, left>>
      PROVE  KnowsItsCall'
  <2>1. place'[c] = "out" /\ taking'[c].at = "out"
        /\ \A d \in Consumers \ {c} : place'[d] = place[d] /\ left'[d] = left[d] /\ toDequeue'[d] = toDequeue[d]
    BY <1>l, <1>t DEF PlaceTypes, CallTypes, queueVars
  <2>2. KnowsCall(c)'
    BY <2>1, KnowsAfterwards
  <2> QED
    BY <1>f, <1>l, <2>1, <2>2 DEF queueVars
<1>1. ASSUME NEW c \in Consumers, TryWait(c) PROVE KnowsItsCall'
  BY <1>1, <1>g, <1>n DEF TryWait, Asks
<1>2. ASSUME NEW c \in Consumers, NothingToTry(c) PROVE KnowsItsCall'
  <2>1. place'[c] = "out" /\ taking'[c].at = "out"
        /\ \A d \in Consumers \ {c} : place'[d] = place[d] /\ left'[d] = left[d] /\ toDequeue'[d] = toDequeue[d]
    BY <1>2, <1>n, <1>t DEF NothingToTry, Asks, CallTypes, queueVars, semaphore
  <2>2. KnowsCall(c)'
    BY <2>1, KnowsAfterwards
  <2> QED
    BY <1>2, <1>f, <2>1, <2>2 DEF NothingToTry, queueVars
<1>3. ASSUME NEW c \in Consumers, GoToSleep(c) PROVE KnowsItsCall'
  <2>1. taking[c].at = "out" /\ toDequeue[c] # <<>> /\ left[c] = 0 /\ UNCHANGED queueVars
    BY <1>3, <1>n DEF GoToSleep, Asks
  <2>2. CASE count > 0
    BY <1>3, <1>h, <2>1, <2>2 DEF GoToSleep
  <2>3. CASE ~(count > 0)
    BY <1>3, <1>s, <2>1, <2>3 DEF GoToSleep, Sleeping
  <2> QED
    BY <2>2, <2>3
<1>4. ASSUME NEW c \in Consumers, WakeUp(c) PROVE KnowsItsCall'
  <2>1. taking[c].at = "out" /\ toDequeue[c] # <<>>
    BY <1>4, <1>k, <1>o DEF WakeUp, KnowsCall
  <2> QED
    BY <1>4, <1>h, <2>1 DEF WakeUp
<1>5. ASSUME NEW c \in Consumers, More(c) PROVE KnowsItsCall'
  BY <1>5, <1>g, <1>o DEF More
<1>6. ASSUME NEW c \in Consumers, TimeOut(c) \/ SeesSignal(c) \/ NotPostedYet(c) PROVE KnowsItsCall'
  <2>1. place[c] \in Sleeping /\ place[c] # "out"
    BY <1>6 DEF TimeOut, SeesSignal, NotPostedYet, Sleeping
  <2>2. taking[c].at = "out" /\ toDequeue[c] # <<>>
    BY <1>k, <1>o, <2>1 DEF KnowsCall
  <2>3. PICK s \in Sleeping : place' = [place EXCEPT ![c] = s] /\ UNCHANGED <<queueVars, left, toDequeue>>
    BY <1>6 DEF TimeOut, SeesSignal, NotPostedYet, Sleeping
  <2> QED
    BY <1>s, <2>1, <2>2, <2>3
<1>7. ASSUME NEW c \in Consumers, Withdraw(c) PROVE KnowsItsCall'
  BY <1>7, <1>l, <1>o DEF Withdraw
<1>8. ASSUME NEW c \in Consumers, AskProducer(c) PROVE KnowsItsCall'
  <2>0. PICK a, f, w, t, o, x : KnowsAll(c, a, f, w, t, o, x)
    BY KnowsSome
  <2>1. PICK p \in IF untried[c] = {} THEN Producers ELSE untried[c] : ReadTail(c, p, left[c])
    BY <1>8 DEF AskProducer
  <2>2. p \in Producers /\ left[c] \in Nat /\ left[c] > 0 /\ place[c] = "out"
    BY <1>8, <1>t, <2>1 DEF PlaceTypes, AskProducer
  <2>3. Comes(c, "tail read", p, left[c], tailIndex[p], 0, 0)
    BY ZenonT(60), <2>0, <2>1, Learns DEF KnowsAll
  <2>4. /\ taking'[c].at = "tail read" /\ taking'[c].from = p /\ taking'[c].want = left[c]
        /\ \A d \in Consumers \ {c} : taking'[d] = taking[d]
    <3>1. PICK b, q, n, m, y, z : b = "tail read" /\ q = p /\ n = left[c] /\ Comes(c, b, q, n, m, y, z)
      BY <2>3
    <3>3. Comes(c, b, q, n, m, y, z)
      BY <3>1
    <3>2. /\ taking'[c].at = b /\ taking'[c].from = q /\ taking'[c].want = n
          /\ \A d \in Consumers \ {c} : taking'[d] = taking[d]
      BY <3>3, ComesToKnow
    <3> QED
      BY <3>1, <3>2
  <2>5. UNCHANGED <<overcommit, toDequeue, place, left>>
    BY <1>8, <2>1 DEF AskProducer, ReadTail, counters, semaphore
  <2>6. KnowsCall(c)'
    <3>1. place'[c] = "out" /\ taking'[c].from \in Producers
      BY <2>2, <2>4, <2>5
    <3>2. 1 <= taking'[c].want /\ taking'[c].want <= left'[c]
      <4>1. 1 <= left[c] /\ left[c] <= left[c]
        BY <2>2
      <4> QED
        BY <2>4, <2>5, <4>1
    <3>3. taking'[c].at # "give back" /\ taking'[c].at \notin {"both read", "add", "added"}
      BY <2>4
    <3> QED
      BY <3>1, <3>2, <3>3, KnowsAfterwards
  <2>7. ASSUME NEW d \in Consumers \ {c} PROVE KnowsCall(d)'
    BY <1>k, <2>4, <2>5 DEF KnowsCall, Call
  <2> QED
    BY <2>6, <2>7 DEF KnowsItsCall
<1>9. ASSUME NEW c \in Consumers, DequeueInner(c) PROVE KnowsItsCall'
  BY <1>9, DequeueKnows
<1>10. CASE UNCHANGED vars
  BY <1>0, <1>10 DEF vars, queueVars, semaphore
<1> QED
  BY <1>p, <1>1, <1>2, <1>3, <1>4, <1>5, <1>6, <1>7, <1>8, <1>9, <1>10 DEF Next
-------------------------------------------------------------------------------
\* A consumer's weight and share, by what it knows.
Weighs(a, f, w, p) ==
  IF f = p /\ a \in {"added", "give back", "claim"} THEN w ELSE 0
Shares(a, f, w, t, o, x, p, n) ==
  IF f # p THEN 0
  ELSE IF a = "claim" THEN w
  ELSE IF a = "give back" THEN t
  ELSE IF a = "added" THEN Largest(0, Smaller(n - (x - o), w))
  ELSE 0

\* These are what a consumer has before and after it comes to know something.
LEMMA SharesNow ==
  ASSUME NEW c \in Consumers, NEW a, NEW f, NEW w, NEW t, NEW o, NEW x, KnowsAll(c, a, f, w, t, o, x),
         NEW p, NEW n
  PROVE  WeightOf(c, p) = Weighs(a, f, w, p) /\ ShareOf(c, p, n) = Shares(a, f, w, t, o, x, p, n)
  BY DEF KnowsAll, WeightOf, ShareOf, Weighs, Shares

\* Likewise, afterwards.
LEMMA SharesNext ==
  ASSUME Types, NEW c \in Consumers, NEW b, NEW g, NEW u, NEW v, NEW y, NEW z, Comes(c, b, g, u, v, y, z),
         NEW p, NEW n
  PROVE  WeightOf(c, p)' = Weighs(b, g, u, p) /\ ShareOf(c, p, n)' = Shares(b, g, u, v, y, z, p, n)
<1>1. /\ taking'[c].at = b /\ taking'[c].from = g /\ taking'[c].want = u /\ taking'[c].tail = v
      /\ taking'[c].over = y /\ taking'[c].first = z
  BY ComesToKnow
<1> QED
  BY <1>1 DEF WeightOf, ShareOf, Weighs, Shares

\* The step of a consumer keeps the sums if what it does to its own parts is as it should be.
LEMMA ConsumerRaces ==
  ASSUME Types, Types', Accounted, Covered, NEW c \in Consumers,
         \A d \in Consumers \ {c} : taking'[d] = taking[d], UNCHANGED tailIndex,
         \A p \in Producers :
           optimistic'[p] - overcommit'[p] - headIndex'[p] - WeightOf(c, p)'
             = optimistic[p] - overcommit[p] - headIndex[p] - WeightOf(c, p),
         \A p \in Producers : \A n \in Nat : n >= tailIndex[p] =>
           \/ headIndex'[p] + ShareOf(c, p, n)' <= headIndex[p] + ShareOf(c, p, n)
           \/ headIndex[p] + Total(Share(p, n)) - ShareOf(c, p, n) + ShareOf(c, p, n)' <= n /\ headIndex'[p] = headIndex[p]
  PROVE  Accounted' /\ Covered'
<1>1. ASSUME NEW p \in Producers
      PROVE  /\ optimistic[p] \in Nat /\ overcommit[p] \in Nat /\ headIndex[p] \in Nat /\ tailIndex[p] \in Nat
             /\ optimistic'[p] \in Nat /\ overcommit'[p] \in Nat /\ headIndex'[p] \in Nat
  BY DEF Types, CounterTypes
<1>2. ASSUME NEW p \in Producers PROVE (optimistic[p] = overcommit[p] + headIndex[p] + Total(Weight(p)))'
  <2>1. /\ Total(Weight(p)') - WeightOf(c, p)' = Total(Weight(p)) - WeightOf(c, p)
        /\ Total(Weight(p)) \in Nat /\ Total(Weight(p)') \in Nat
        /\ WeightOf(c, p) \in Nat /\ WeightOf(c, p)' \in Nat
    BY ConsumerParts
  <2>2. optimistic[p] = overcommit[p] + headIndex[p] + Total(Weight(p))
    BY DEF Accounted
  <2>3. optimistic'[p] = overcommit'[p] + headIndex'[p] + Total(Weight(p)')
    BY <1>1, <2>1, <2>2
  <2> QED
    BY <2>3
<1>3. ASSUME NEW p \in Producers, NEW n \in Nat, n >= tailIndex[p] PROVE headIndex'[p] + Total(Share(p, n)') <= n
  <2>1. /\ Total(Share(p, n)') - ShareOf(c, p, n)' = Total(Share(p, n)) - ShareOf(c, p, n)
        /\ Total(Share(p, n)) \in Nat /\ Total(Share(p, n)') \in Nat
        /\ ShareOf(c, p, n) \in Nat /\ ShareOf(c, p, n)' \in Nat
    BY ConsumerParts
  <2>2. headIndex[p] + Total(Share(p, n)) <= n
    BY <1>3 DEF Covered
  <2> QED
    BY <1>1, <1>3, <2>1, <2>2
<1>4. Accounted'
  BY <1>2 DEF Accounted
<1>5. Covered'
  BY <1>3 DEF Covered
<1> QED
  BY <1>4, <1>5

\* The steps of a dequeue keep them: none counts an index twice, and none goes past the tail.
LEMMA DequeueRaces ==
  ASSUME Types, Types', KnowsItsCall, Accounted, Covered, NEW c \in Consumers, DequeueInner(c)
  PROVE  Accounted' /\ Covered'
<1>0. PICK a, f, w, t, o, x : KnowsAll(c, a, f, w, t, o, x)
  BY KnowsSome
<1>1. taking[c] = Knows(a, f, w, t, o, x)
  BY <1>0 DEF KnowsAll
<1>2. w \in Nat /\ t \in Nat /\ o \in Nat /\ x \in Nat
  BY <1>0, TakingTypes DEF KnowsAll
<1>3. a # "out" => f \in Producers
  BY <1>0 DEF KnowsAll, KnowsItsCall, KnowsCall
<1>4. a = "add" => o <= overcommit[f]
  BY <1>0 DEF KnowsAll, KnowsItsCall, KnowsCall
<1>5. a = "give back" => t < w
  BY <1>0 DEF KnowsAll, KnowsItsCall, KnowsCall
<1>6. UNCHANGED tailIndex
  BY DEF DequeueInner, Dequeuing, ReadOvercommit, Guess, AddOptimistic, ReadTailAgain, GiveBack,
         Claim, ReadIndex, ReadFront, Move, SetEmpty, counters
<1>c. ASSUME NEW p \in Producers
      PROVE  /\ optimistic[p] \in Nat /\ overcommit[p] \in Nat /\ headIndex[p] \in Nat /\ tailIndex[p] \in Nat
             /\ optimistic'[p] \in Nat /\ overcommit'[p] \in Nat /\ headIndex'[p] \in Nat
  BY DEF Types, CounterTypes
<1>s. ASSUME NEW p, NEW n PROVE WeightOf(c, p) = Weighs(a, f, w, p) /\ ShareOf(c, p, n) = Shares(a, f, w, t, o, x, p, n)
  BY <1>0, SharesNow
<1>k. ASSUME NEW b, NEW g, NEW u, NEW v, NEW y, NEW z, Comes(c, b, g, u, v, y, z),
             \A p \in Producers :
               optimistic'[p] - overcommit'[p] - headIndex'[p] - Weighs(b, g, u, p)
                 = optimistic[p] - overcommit[p] - headIndex[p] - Weighs(a, f, w, p),
             \A p \in Producers : \A n \in Nat : n >= tailIndex[p] =>
               headIndex'[p] + Shares(b, g, u, v, y, z, p, n) <= headIndex[p] + Shares(a, f, w, t, o, x, p, n)
      PROVE  Accounted' /\ Covered'
  <2>1. \A d \in Consumers \ {c} : taking'[d] = taking[d]
    BY <1>k, ComesToKnow
  <2>2. ASSUME NEW p, NEW n PROVE WeightOf(c, p)' = Weighs(b, g, u, p) /\ ShareOf(c, p, n)' = Shares(b, g, u, v, y, z, p, n)
    BY <1>k, SharesNext
  <2>3. \A p \in Producers :
           optimistic'[p] - overcommit'[p] - headIndex'[p] - WeightOf(c, p)'
             = optimistic[p] - overcommit[p] - headIndex[p] - WeightOf(c, p)
    BY <1>k, <1>s, <2>2
  <2>4. \A p \in Producers : \A n \in Nat : n >= tailIndex[p] =>
           headIndex'[p] + ShareOf(c, p, n)' <= headIndex[p] + ShareOf(c, p, n)
    BY <1>k, <1>s, <2>2
  <2> QED
    BY <1>6, <2>1, <2>3, <2>4, ConsumerRaces
<1> DEFINE Idle(b) == b \notin {"added", "give back", "claim"}
<1>i. /\ Idle("out") /\ Idle("tail read") /\ Idle("both read") /\ Idle("add")
      /\ Idle("move") /\ Idle("moved")
  OBVIOUS
<1>n. ASSUME NEW b, NEW g, NEW u, NEW v, NEW y, NEW z, Comes(c, b, g, u, v, y, z), UNCHANGED counters,
             Idle(a), Idle(b)
      PROVE  Accounted' /\ Covered'
  <2>1. \A p, n : /\ Weighs(a, f, w, p) = 0 /\ Weighs(b, g, u, p) = 0
                  /\ Shares(a, f, w, t, o, x, p, n) = 0 /\ Shares(b, g, u, v, y, z, p, n) = 0
    BY <1>n DEF Weighs, Shares
  <2>2. \A p \in Producers :
          optimistic'[p] - overcommit'[p] - headIndex'[p] - Weighs(b, g, u, p)
            = optimistic[p] - overcommit[p] - headIndex[p] - Weighs(a, f, w, p)
    BY <1>n, <2>1 DEF counters
  <2>3. \A p \in Producers : \A n \in Nat : n >= tailIndex[p] =>
          headIndex'[p] + Shares(b, g, u, v, y, z, p, n) <= headIndex[p] + Shares(a, f, w, t, o, x, p, n)
    <3>1. ASSUME NEW p \in Producers PROVE headIndex'[p] + 0 <= headIndex[p] + 0
      <4>1. PICK h \in Nat : h = headIndex[p]
        BY <1>c
      <4>2. headIndex'[p] = h
        BY <1>n, <4>1 DEF counters
      <4> QED
        BY <4>1, <4>2
    <3> QED
      BY <2>1, <3>1
  <2> QED
    BY <1>k, <1>n, <2>2, <2>3
<1> HIDE DEF Idle
<1>l. ASSUME Leaves(c), UNCHANGED counters, Idle(a) PROVE Accounted' /\ Covered'
  BY <1>i, <1>l, <1>n DEF Leaves
<1>9. CASE ReadOvercommit(c)
  <2>1. a = "tail read" /\ Comes(c, "both read", f, w, t, overcommit[f], x)
    BY <1>1, <1>9, Learns
  <2> QED
    BY <1>9, <1>i, <1>n, <2>1 DEF ReadOvercommit
<1>10. CASE Guess(c)
  <2>1. a = "both read" /\ (Leaves(c) \/ \E n \in 1..w : Comes(c, "add", f, n, 0, o, x))
    BY <1>1, <1>10, Learns
  <2> QED
    BY <1>10, <1>i, <1>l, <1>n, <2>1 DEF Guess
<1>11. CASE AddOptimistic(c)
  <2>1. a = "add" /\ Comes(c, "added", f, w, t, o, optimistic[f])
    BY <1>1, <1>11, Learns
  <2>2. optimistic' = [optimistic EXCEPT ![f] = optimistic[f] + w] /\ UNCHANGED <<headIndex, overcommit>> /\ f \in Producers
    BY <1>0, <1>3, <1>11, <2>1 DEF AddOptimistic, KnowsAll
  <2>3. \A d \in Consumers \ {c} : taking'[d] = taking[d]
    BY <2>1, ComesToKnow
  <2>4. ASSUME NEW p, NEW n
        PROVE  WeightOf(c, p)' = Weighs("added", f, w, p) /\ ShareOf(c, p, n)' = Shares("added", f, w, t, o, optimistic[f], p, n)
    BY <2>1, SharesNext
  <2>5. ASSUME NEW p, NEW n PROVE WeightOf(c, p) = 0 /\ ShareOf(c, p, n) = 0
    BY <1>s, <2>1 DEF Weighs, Shares
  <2>6. ASSUME NEW p \in Producers
        PROVE  optimistic'[p] - overcommit'[p] - headIndex'[p] - WeightOf(c, p)'
                 = optimistic[p] - overcommit[p] - headIndex[p] - WeightOf(c, p)
    <3>1. CASE p = f
      <4>1. optimistic'[p] = optimistic[p] + w /\ WeightOf(c, p)' = w
        BY <2>2, <2>4, <3>1 DEF Weighs, Types, CounterTypes
      <4> QED
        BY <1>2, <1>c, <2>2, <2>5, <4>1
    <3>2. CASE p # f
      <4>1. optimistic'[p] = optimistic[p] /\ WeightOf(c, p)' = 0
        BY <2>2, <2>4, <3>2 DEF Weighs, Types, CounterTypes
      <4> QED
        BY <1>c, <2>2, <2>5, <4>1
    <3> QED
      BY <3>1, <3>2
  <2>7. ASSUME NEW p \in Producers, NEW n \in Nat, n >= tailIndex[p]
        PROVE  headIndex[p] + Total(Share(p, n)) - ShareOf(c, p, n) + ShareOf(c, p, n)' <= n
    <3>1. headIndex[p] + Total(Share(p, n)) <= n
      BY <2>7 DEF Covered
    <3>2. Total(Share(p, n)) <= Total(Weight(p))
      BY ShareWithinWeight
    <3>3. Total(Share(p, n)) \in Nat /\ Total(Weight(p)) \in Nat
      BY <2>3, ConsumerParts
    <3>4. optimistic[p] = overcommit[p] + headIndex[p] + Total(Weight(p))
      BY DEF Accounted
    <3>5. CASE p = f
      <4>1. ShareOf(c, p, n)' = Largest(0, Smaller(n - (optimistic[p] - o), w))
        BY <2>4, <3>5 DEF Shares
      <4>2. o <= overcommit[p]
        BY <1>4, <2>1, <3>5
      <4> QED
        BY <1>2, <1>c, <2>5, <3>1, <3>2, <3>3, <3>4, <4>1, <4>2 DEF Largest, Smaller
    <3>6. CASE p # f
      <4>1. ShareOf(c, p, n)' = 0
        BY <2>4, <3>6 DEF Shares
      <4> QED
        BY <1>c, <2>5, <3>1, <3>3, <4>1
    <3> QED
      BY <3>5, <3>6
  <2> QED
    BY <1>6, <2>2, <2>3, <2>6, <2>7, ConsumerRaces
<1>12. CASE ReadTailAgain(c)
  <2> DEFINE m == Smaller(w, tailIndex[f] - (x - o))
             b == IF m = w THEN "claim" ELSE "give back"
             v == IF m > 0 THEN m ELSE 0
  <2>1. a = "added" /\ Comes(c, b, f, w, v, o, x)
    BY <1>1, <1>12, Learns
  <2>2. UNCHANGED counters
    BY <1>12 DEF ReadTailAgain
  <2>3. \A p : Weighs(a, f, w, p) = Weighs(b, f, w, p)
    BY <2>1 DEF Weighs
  <2>4. ASSUME NEW p \in Producers, NEW n \in Nat, n >= tailIndex[p]
        PROVE  Shares(b, f, w, v, o, x, p, n) <= Shares(a, f, w, t, o, x, p, n)
    <3>1. CASE p # f
      <4>1. Shares(b, f, w, v, o, x, p, n) = 0 /\ Shares(a, f, w, t, o, x, p, n) = 0
        BY <3>1 DEF Shares
      <4> HIDE DEF b, v
      <4> QED
        BY <4>1
    <3>2. CASE p = f
      <4>1. Shares(a, f, w, t, o, x, p, n) = Largest(0, Smaller(n - (x - o), w))
        BY <2>1, <3>2 DEF Shares
      <4>2. Shares(b, f, w, v, o, x, p, n) = IF m = w THEN w ELSE v
        BY <3>2 DEF Shares
      <4>3. tailIndex[f] \in Nat /\ n >= tailIndex[f]
        BY <1>c, <2>4, <3>2
      <4>4. PICK k \in Nat : k = tailIndex[f]
        BY <4>3
      <4>5. (IF m = w THEN w ELSE v) <= Largest(0, Smaller(n - (x - o), w))
        BY <1>2, <4>3, <4>4 DEF Largest, Smaller
      <4> QED
        BY <4>1, <4>2, <4>5
    <3> QED
      BY <3>1, <3>2
  <2>5. ASSUME NEW p \in Producers, NEW n \in Nat
        PROVE  Shares(b, f, w, v, o, x, p, n) \in Int /\ Shares(a, f, w, t, o, x, p, n) \in Int
    <3>1. tailIndex[f] \in Nat
      BY <1>3, <1>c, <2>1
    <3>2. m \in Int
      BY <1>2, <3>1 DEF Smaller
    <3>3. v \in Int /\ Largest(0, Smaller(n - (x - o), w)) \in Int
      BY <1>2, <3>2 DEF Largest, Smaller
    <3> HIDE DEF v, b
    <3>6. 0 \in Int /\ w \in Int /\ t \in Int
      BY <1>2
    <3>4. Shares(b, f, w, v, o, x, p, n) \in Int
      BY <3>3, <3>6, Zenon DEF Shares
    <3>5. Shares(a, f, w, t, o, x, p, n) \in Int
      BY <3>3, <3>6, Zenon DEF Shares
    <3> QED
      BY <3>4, <3>5
  <2> HIDE DEF b, v, m
  <2>6. \A p \in Producers :
          optimistic'[p] - overcommit'[p] - headIndex'[p] - Weighs(b, f, w, p)
            = optimistic[p] - overcommit[p] - headIndex[p] - Weighs(a, f, w, p)
    BY <2>2, <2>3 DEF counters
  <2>7. \A p \in Producers : \A n \in Nat : n >= tailIndex[p] =>
          headIndex'[p] + Shares(b, f, w, v, o, x, p, n) <= headIndex[p] + Shares(a, f, w, t, o, x, p, n)
    BY <1>c, <2>2, <2>4, <2>5 DEF counters
  <2> QED
    BY <1>k, <2>1, <2>6, <2>7
<1>13. CASE GiveBack(c)
  <2>1. a = "give back" /\ (IF t > 0 THEN Comes(c, "claim", f, t, t, o, x) ELSE Leaves(c))
    BY <1>1, <1>13, Learns
  <2>2. /\ overcommit' = [overcommit EXCEPT ![f] = overcommit[f] + w - t] /\ UNCHANGED <<headIndex, optimistic>>
        /\ f \in Producers
    BY <1>0, <1>3, <1>13, <2>1 DEF GiveBack, KnowsAll
  <2> DEFINE Keeps(b, g, u, v, y, z) ==
               /\ \A p \in Producers : Weighs(b, g, u, p) = IF p = f THEN t ELSE 0
               /\ \A p \in Producers : \A n \in Nat : Shares(b, g, u, v, y, z, p, n) = IF p = f THEN t ELSE 0
  <2>3. ASSUME NEW b, NEW g, NEW u, NEW v, NEW y, NEW z, Comes(c, b, g, u, v, y, z),
               Keeps(b, g, u, v, y, z)
        PROVE  Accounted' /\ Covered'
    <3>1. ASSUME NEW p \in Producers
          PROVE  optimistic'[p] - overcommit'[p] - headIndex'[p] - Weighs(b, g, u, p)
                   = optimistic[p] - overcommit[p] - headIndex[p] - Weighs(a, f, w, p)
      <4>1. CASE p = f
        <5>1. overcommit'[p] = overcommit[p] + w - t /\ Weighs(b, g, u, p) = t /\ Weighs(a, f, w, p) = w
          BY <2>1, <2>2, <2>3, <4>1 DEF Weighs, Types, CounterTypes
        <5> QED
          BY <1>2, <1>c, <2>2, <5>1
      <4>2. CASE p # f
        <5>1. overcommit'[p] = overcommit[p] /\ Weighs(b, g, u, p) = 0 /\ Weighs(a, f, w, p) = 0
          BY <2>1, <2>2, <2>3, <4>2 DEF Weighs, Types, CounterTypes
        <5> QED
          BY <1>c, <2>2, <5>1
      <4> QED
        BY <4>1, <4>2
    <3>2. ASSUME NEW p \in Producers, NEW n \in Nat
          PROVE  headIndex'[p] + Shares(b, g, u, v, y, z, p, n) <= headIndex[p] + Shares(a, f, w, t, o, x, p, n)
      <4>1. Shares(a, f, w, t, o, x, p, n) = IF p = f THEN t ELSE 0
        BY <2>1 DEF Shares
      <4>2. Shares(b, g, u, v, y, z, p, n) = IF p = f THEN t ELSE 0
        BY <2>3
      <4> QED
        BY <1>2, <1>c, <2>2, <4>1, <4>2
    <3> QED
      BY <1>k, <2>3, <3>1, <3>2
  <2>6. Keeps("claim", f, t, t, o, x)
    BY DEF Weighs, Shares
  <2>7. t = 0 => Keeps("out", Nothing, 0, 0, 0, 0)
    BY DEF Weighs, Shares
  <2> HIDE DEF Keeps
  <2>4. CASE t > 0
    BY <2>1, <2>3, <2>4, <2>6
  <2>5. CASE ~(t > 0)
    <3>1. t = 0
      BY <1>2, <2>5
    <3> QED
      BY <2>1, <2>3, <2>5, <2>7, <3>1 DEF Leaves
  <2> QED
    BY <2>4, <2>5
<1>14. CASE Claim(c)
  <2>1. a = "claim" /\ Comes(c, "move", f, w, 0, 0, headIndex[f])
    BY <1>1, <1>14, Learns
  <2>2. /\ headIndex' = [headIndex EXCEPT ![f] = headIndex[f] + w] /\ UNCHANGED <<overcommit, optimistic>>
        /\ f \in Producers
    BY <1>0, <1>3, <1>14, <2>1 DEF Claim, KnowsAll
  <2>3. ASSUME NEW p \in Producers, NEW n
        PROVE  /\ Weighs("move", f, w, p) = 0 /\ Shares("move", f, w, 0, 0, headIndex[f], p, n) = 0
               /\ Weighs(a, f, w, p) = IF p = f THEN w ELSE 0
               /\ Shares(a, f, w, t, o, x, p, n) = IF p = f THEN w ELSE 0
               /\ headIndex'[p] = headIndex[p] + IF p = f THEN w ELSE 0
    <3>1. headIndex'[p] = headIndex[p] + IF p = f THEN w ELSE 0
      BY <1>2, <1>c, <2>2 DEF Types, CounterTypes
    <3> QED
      BY <2>1, <3>1 DEF Weighs, Shares
  <2>4. ASSUME NEW p \in Producers
        PROVE  optimistic'[p] - overcommit'[p] - headIndex'[p] - Weighs("move", f, w, p)
                 = optimistic[p] - overcommit[p] - headIndex[p] - Weighs(a, f, w, p)
    BY <1>2, <1>c, <2>2, <2>3
  <2>5. ASSUME NEW p \in Producers, NEW n \in Nat
        PROVE  headIndex'[p] + Shares("move", f, w, 0, 0, headIndex[f], p, n) <= headIndex[p] + Shares(a, f, w, t, o, x, p, n)
    BY <1>2, <1>c, <2>3
  <2> QED
    BY <1>k, <2>1, <2>4, <2>5
<1>15. CASE Move(c)
  <2>1. a = "move" /\ Comes(c, "moved", f, w, t, o, x)
    BY <1>1, <1>15, Learns
  <2> QED
    BY <1>15, <1>i, <1>n, <2>1 DEF Move
<1>16. CASE SetEmpty(c)
  <2>1. a = "moved" /\ (Leaves(c) \/ \E k \in Nat : k < w /\ Comes(c, "move", f, w - k, t, o, x + k))
    BY <1>1, <1>16, Learns
  <2> QED
    BY <1>16, <1>i, <1>l, <1>n, <2>1 DEF SetEmpty
<1>17. CASE ReadIndex(c) \/ ReadFront(c)
  <2>1. UNCHANGED <<counters, taking>>
    BY <1>17 DEF ReadIndex, ReadFront
  <2>2. \A p, n : Weight(p)' = Weight(p) /\ Share(p, n)' = Share(p, n)
    BY <2>1 DEF Weight, WeightOf, Share, ShareOf
  <2> QED
    BY <2>1, <2>2 DEF Accounted, Covered, counters
<1> QED
  BY <1>9, <1>10, <1>11, <1>12, <1>13, <1>14, <1>15, <1>16, <1>17 DEF DequeueInner, Dequeuing

\* The other steps do not touch what the sums are made of, or put the tail further on.
LEMMA RacesStep ==
  Types /\ Types' /\ KnowsItsCall /\ Accounted /\ Covered /\ [Next]_vars => Accounted' /\ Covered'
<1> SUFFICES ASSUME Types, Types', KnowsItsCall, Accounted, Covered, [Next]_vars PROVE Accounted' /\ Covered'
  OBVIOUS
<1>1. ASSUME UNCHANGED <<headIndex, optimistic, overcommit, taking>>, \A p \in Producers : tailIndex'[p] >= tailIndex[p]
      PROVE  Accounted' /\ Covered'
  <2>1. \A p, n : Weight(p)' = Weight(p) /\ Share(p, n)' = Share(p, n)
    BY <1>1 DEF Weight, WeightOf, Share, ShareOf
  <2>2. Accounted'
    BY <1>1, <2>1 DEF Accounted
  <2>3. ASSUME NEW p \in Producers, NEW n \in Nat, n >= tailIndex'[p] PROVE headIndex'[p] + Total(Share(p, n)') <= n
    <3>1. tailIndex[p] \in Nat /\ tailIndex'[p] \in Nat /\ tailIndex'[p] >= tailIndex[p]
      BY <1>1 DEF Types, CounterTypes
    <3>2. n >= tailIndex[p]
      BY <2>3, <3>1
    <3> QED
      BY <1>1, <2>1, <3>2 DEF Covered
  <2> QED
    BY <2>2, <2>3 DEF Covered
<1>2. ASSUME UNCHANGED <<counters, taking>> PROVE Accounted' /\ Covered'
  <2>1. \A p \in Producers : tailIndex'[p] >= tailIndex[p]
    BY <1>2 DEF counters, Types, CounterTypes
  <2> QED
    BY <1>1, <1>2, <2>1 DEF counters
<1>3. ASSUME NEW p \in Producers, Enqueue(p) \/ EnqueueInner(p) \/ AddCount(p) \/ Post(p) PROVE Accounted' /\ Covered'
  <2>1. UNCHANGED <<headIndex, optimistic, overcommit, taking>>
    BY <1>3 DEF Enqueue, Begin, EnqueueInner, Enqueuing, Reuse, AskPool, Grow, Requisition, Fail, Fill, Publish, AddCount, Post, counters
  <2>2. tailIndex' = tailIndex \/ tailIndex' = [tailIndex EXCEPT ![p] = @ + filling[p].count]
    BY <1>3 DEF Enqueue, Begin, EnqueueInner, Enqueuing, Reuse, AskPool, Grow, Requisition, Fail, Fill, Publish, AddCount, Post, counters
  <2>3. ASSUME NEW q \in Producers PROVE tailIndex'[q] >= tailIndex[q]
    <3>1. filling[p].count \in Nat /\ tailIndex[q] \in Nat /\ tailIndex \in [Producers -> Nat]
      BY DEF Types, FillingTypes, CounterTypes
    <3>2. tailIndex'[q] = tailIndex[q] \/ tailIndex'[q] = tailIndex[q] + filling[p].count
      BY <2>2, <3>1
    <3> QED
      BY <3>1, <3>2
  <2> QED
    BY <1>1, <2>1, <2>3
<1>4. ASSUME NEW c \in Consumers, DequeueInner(c) PROVE Accounted' /\ Covered'
  BY <1>4, DequeueRaces
<1>5. ASSUME NEW c \in Consumers, AskProducer(c) PROVE Accounted' /\ Covered'
  <2>0. PICK a, f, w, t, o, x : KnowsAll(c, a, f, w, t, o, x)
    BY KnowsSome
  <2>1. PICK p \in IF untried[c] = {} THEN Producers ELSE untried[c] : ReadTail(c, p, left[c])
    BY <1>5 DEF AskProducer
  <2>2. a = "out" /\ Comes(c, "tail read", p, left[c], tailIndex[p], 0, 0) /\ UNCHANGED counters
    BY ZenonT(60), <2>0, <2>1, Learns DEF KnowsAll, ReadTail
  <2>3. PICK b, n, m, y, z : b = "tail read" /\ Comes(c, b, p, n, m, y, z)
    BY <2>2
  <2>4. Comes(c, b, p, n, m, y, z)
    BY <2>3
  <2>5. \A d \in Consumers \ {c} : taking'[d] = taking[d]
    BY <2>4, ComesToKnow
  <2>6. ASSUME NEW q, NEW k PROVE /\ WeightOf(c, q) = 0 /\ ShareOf(c, q, k) = 0
                                  /\ WeightOf(c, q)' = 0 /\ ShareOf(c, q, k)' = 0
    <3>1. WeightOf(c, q) = Weighs(a, f, w, q) /\ ShareOf(c, q, k) = Shares(a, f, w, t, o, x, q, k)
      BY <2>0, SharesNow
    <3>2. WeightOf(c, q)' = Weighs(b, p, n, q) /\ ShareOf(c, q, k)' = Shares(b, p, n, m, y, z, q, k)
      BY <2>4, SharesNext
    <3> QED
      BY <2>2, <2>3, <3>1, <3>2 DEF Weighs, Shares
  <2>7. \A q \in Producers :
          optimistic'[q] - overcommit'[q] - headIndex'[q] - WeightOf(c, q)'
            = optimistic[q] - overcommit[q] - headIndex[q] - WeightOf(c, q)
    BY <2>2, <2>6 DEF counters
  <2>8. ASSUME NEW q \in Producers, NEW k \in Nat
        PROVE  headIndex'[q] + ShareOf(c, q, k)' <= headIndex[q] + ShareOf(c, q, k)
    <3>1. PICK h \in Nat : h = headIndex[q]
      BY DEF Types, CounterTypes
    <3>2. headIndex'[q] = h
      BY <2>2, <3>1 DEF counters
    <3> QED
      BY <2>6, <3>1, <3>2
  <2> QED
    BY <2>2, <2>5, <2>7, <2>8, ConsumerRaces DEF counters
<1>6. ASSUME NEW c \in Consumers,
             \/ TryWait(c) \/ NothingToTry(c) \/ GoToSleep(c) \/ WakeUp(c) \/ More(c)
             \/ TimeOut(c) \/ Withdraw(c) \/ SeesSignal(c) \/ NotPostedYet(c)
      PROVE  Accounted' /\ Covered'
  BY <1>2, <1>6 DEF TryWait, NothingToTry, GoToSleep, WakeUp, More, TimeOut, Withdraw, SeesSignal, NotPostedYet, queueVars
<1>7. CASE UNCHANGED vars
  BY <1>2, <1>7 DEF vars, queueVars
<1> QED
  BY <1>3, <1>4, <1>5, <1>6, <1>7 DEF Next
-------------------------------------------------------------------------------
\* What is in the queues is a number for each producer.
InQueueIsNumbers == InQueue \in [Producers -> Nat]

\* It is, for consumers never claim more than there is.
LEMMA InQueueType == Types /\ Covered => InQueueIsNumbers
<1> SUFFICES ASSUME Types, Covered PROVE InQueueIsNumbers
  OBVIOUS
<1>1. ASSUME NEW p \in Producers PROVE tailIndex[p] - headIndex[p] \in Nat
  <2>1. tailIndex[p] \in Nat /\ headIndex[p] \in Nat
    BY DEF Types, CounterTypes
  <2>2. PICK n \in Nat : n = tailIndex[p]
    BY <2>1
  <2>3. headIndex[p] + Total(Share(p, n)) <= n
    BY <2>1, <2>2 DEF Covered
  <2>4. Total(Share(p, n)) \in Nat
    <3>1. Share(p, n) \in [Consumers -> Nat]
      BY PartTypes DEF PartsAreNumbers
    <3> QED
      BY <3>1, TotalType, CallsAssumption DEF CallsAssumption
  <2> QED
    BY <2>1, <2>2, <2>3, <2>4
<1> QED
  BY <1>1 DEF InQueue, InQueueIsNumbers

\* If one part changes, the sum does so by as much; all are numbers.
LEMMA SumStep ==
  ASSUME NEW S, IsFiniteSet(S), NEW f, NEW g, f \in [S -> Nat], g \in [S -> Nat], NEW x \in S,
         \A y \in S \ {x} : g[y] = f[y]
  PROVE  /\ Total(g) = Total(f) + g[x] - f[x] /\ Total(f) \in Nat /\ Total(g) \in Nat
         /\ f[x] \in Nat /\ g[x] \in Nat
<1>1. Total(f) \in Nat /\ Total(g) \in Nat
  BY TotalType
<1>2. Total(g) - g[x] = Total(f) - f[x]
  BY TotalChange
<1> QED
  BY <1>1, <1>2

\* The step of a consumer in the semaphore, or of one that claims, in the sums.
LEMMA ConsumerSums ==
  ASSUME Types, Types', NEW c \in Consumers,
         \A d \in Consumers \ {c} : place'[d] = place[d] /\ left'[d] = left[d]
  PROVE  /\ Total(left') = Total(left) + left'[c] - left[c] /\ Total(left) \in Nat /\ Total(left') \in Nat
         /\ Total(Sleepers') = Total(Sleepers) + (IF place'[c] \in Sleeping THEN 1 ELSE 0)
                                               - (IF place[c] \in Sleeping THEN 1 ELSE 0)
         /\ Total(Sleepers) \in Nat /\ Total(Sleepers') \in Nat /\ left[c] \in Nat /\ left'[c] \in Nat
<1>1. IsFiniteSet(Consumers)
  BY CallsAssumption DEF CallsAssumption
<1>2. left \in [Consumers -> Nat] /\ left' \in [Consumers -> Nat]
  BY DEF Types, PlaceTypes
<1>3. Sleepers \in [Consumers -> Nat] /\ Sleepers' \in [Consumers -> Nat]
  BY DEF Sleepers
<1>4. \A d \in Consumers \ {c} : Sleepers'[d] = Sleepers[d]
  BY DEF Sleepers
<1>5. /\ Sleepers[c] = (IF place[c] \in Sleeping THEN 1 ELSE 0)
      /\ Sleepers'[c] = (IF place'[c] \in Sleeping THEN 1 ELSE 0)
  BY DEF Sleepers
<1>6. /\ Total(left') = Total(left) + left'[c] - left[c] /\ Total(left) \in Nat /\ Total(left') \in Nat
      /\ left[c] \in Nat /\ left'[c] \in Nat
  BY <1>1, <1>2, SumStep
<1>7. /\ Total(Sleepers') = Total(Sleepers) + Sleepers'[c] - Sleepers[c]
      /\ Total(Sleepers) \in Nat /\ Total(Sleepers') \in Nat
  BY <1>1, <1>3, <1>4, SumStep
<1> QED
  BY <1>5, <1>6, <1>7

\* The step of a producer in the sums.
LEMMA ProducerSums ==
  ASSUME Types, Types', NEW p \in Producers, \A q \in Producers \ {p} : filling'[q] = filling[q]
  PROVE  /\ Total(Unsignalled') = Total(Unsignalled) + (IF filling'[p].at = "published" THEN filling'[p].count ELSE 0)
                                                     - (IF filling[p].at = "published" THEN filling[p].count ELSE 0)
         /\ Total(Posts') = Total(Posts) + (IF filling'[p].at = "post" THEN filling'[p].count ELSE 0)
                                         - (IF filling[p].at = "post" THEN filling[p].count ELSE 0)
         /\ Total(Unsignalled) \in Nat /\ Total(Unsignalled') \in Nat /\ Total(Posts) \in Nat /\ Total(Posts') \in Nat
<1>1. IsFiniteSet(Producers)
  BY CallsAssumption DEF CallsAssumption
<1>2. /\ Unsignalled \in [Producers -> Nat] /\ Unsignalled' \in [Producers -> Nat]
      /\ Posts \in [Producers -> Nat] /\ Posts' \in [Producers -> Nat]
  <2>1. PartsAreNumbers /\ PartsAreNumbers'
    BY PartTypes, PTL
  <2> QED
    BY <2>1 DEF PartsAreNumbers
<1>3. \A q \in Producers \ {p} : Unsignalled'[q] = Unsignalled[q] /\ Posts'[q] = Posts[q]
  BY DEF Unsignalled, Posts
<1>4. /\ Unsignalled[p] = (IF filling[p].at = "published" THEN filling[p].count ELSE 0)
      /\ Unsignalled'[p] = (IF filling'[p].at = "published" THEN filling'[p].count ELSE 0)
      /\ Posts[p] = (IF filling[p].at = "post" THEN filling[p].count ELSE 0)
      /\ Posts'[p] = (IF filling'[p].at = "post" THEN filling'[p].count ELSE 0)
  BY DEF Unsignalled, Posts
<1>5. /\ Total(Unsignalled') = Total(Unsignalled) + Unsignalled'[p] - Unsignalled[p]
      /\ Total(Unsignalled) \in Nat /\ Total(Unsignalled') \in Nat
  BY <1>1, <1>2, <1>3, SumStep
<1>6. /\ Total(Posts') = Total(Posts) + Posts'[p] - Posts[p] /\ Total(Posts) \in Nat /\ Total(Posts') \in Nat
  BY <1>1, <1>2, <1>3, SumStep
<1> QED
  BY <1>4, <1>5, <1>6

\* What is enqueued or claimed, in the sums.
LEMMA QueueSums ==
  ASSUME Types, Types', Covered, Covered', NEW p \in Producers,
         \A q \in Producers \ {p} : tailIndex'[q] = tailIndex[q] /\ headIndex'[q] = headIndex[q]
  PROVE  /\ Total(InQueue') = Total(InQueue) + (tailIndex'[p] - headIndex'[p]) - (tailIndex[p] - headIndex[p])
         /\ Total(InQueue) \in Nat /\ Total(InQueue') \in Nat
<1>1. IsFiniteSet(Producers)
  BY CallsAssumption DEF CallsAssumption
<1>a. InQueueIsNumbers /\ InQueueIsNumbers'
  BY InQueueType, PTL
<1>2. InQueue \in [Producers -> Nat] /\ InQueue' \in [Producers -> Nat]
  BY <1>a DEF InQueueIsNumbers
<1>3. \A q \in Producers \ {p} : InQueue'[q] = InQueue[q]
  BY DEF InQueue
<1>4. InQueue[p] = tailIndex[p] - headIndex[p] /\ InQueue'[p] = tailIndex'[p] - headIndex'[p]
  BY DEF InQueue
<1>5. /\ Total(InQueue') = Total(InQueue) + InQueue'[p] - InQueue[p]
      /\ Total(InQueue) \in Nat /\ Total(InQueue') \in Nat
  BY <1>1, <1>2, <1>3, SumStep
<1> QED
  BY <1>4, <1>5
-------------------------------------------------------------------------------
\* How a step of a consumer in the semaphore changes the sums and the semaphore.
Changes(l, z, k, s) ==
  /\ Total(left') = Total(left) + l /\ Total(Sleepers') = Total(Sleepers) + z
  /\ count' = count + k /\ sema' = sema + s

\* It leaves the place of the consumer, what this one looks for, and the semaphore like that.
MovesTo(c, s, n, k, j) ==
  /\ place' = [place EXCEPT ![c] = s] /\ left' = [left EXCEPT ![c] = n]
  /\ count' = count + k /\ sema' = sema + j

\* The sums then are as follows.
LEMMA ChangesOfOne ==
  ASSUME Types, Types', NEW c \in Consumers, NEW s, NEW n, NEW k, NEW j, MovesTo(c, s, n, k, j)
  PROVE  /\ Total(left') = Total(left) + n - left[c] /\ Total(left) \in Nat /\ left[c] \in Nat
         /\ Total(Sleepers') = Total(Sleepers) + (IF s \in Sleeping THEN 1 ELSE 0)
                                               - (IF place[c] \in Sleeping THEN 1 ELSE 0)
         /\ Total(Sleepers) \in Nat /\ count' = count + k /\ sema' = sema + j
<1>1. place'[c] = s /\ left'[c] = n /\ \A d \in Consumers \ {c} : place'[d] = place[d] /\ left'[d] = left[d]
  BY DEF Types, PlaceTypes, MovesTo
<1> QED
  BY <1>1, ConsumerSums DEF MovesTo

\* How many elements a consumer may take is a number, and no more than the count.
LEMMA MayTakeType ==
  ASSUME Types, NEW n \in Nat
  PROVE  MayTake(n) \in Nat /\ MayTake(n) <= Largest(count, 0) /\ MayTake(n) <= n
<1>1. count \in Int
  BY DEF Types, SemaphoreTypes
<1> QED
  BY <1>1 DEF MayTake, Largest, Smaller

\* What a consumer asks for.
LEMMA CallType ==
  ASSUME Types, NEW c \in Consumers, toDequeue[c] # <<>>
  PROVE  Call(c).max \in Nat /\ Call(c).max > 0
<1>1. toDequeue[c] \in Seq([max : Nat \ {0}, mode : {"try", "timed", "wait"}])
  BY DEF Types, CallTypes
<1>2. Head(toDequeue[c]) \in [max : Nat \ {0}, mode : {"try", "timed", "wait"}]
  BY <1>1, HeadTailProperties
<1> QED
  BY <1>2 DEF Call

\* The steps in the semaphore, by what they change.
LEMMA SemaphoreSteps ==
  ASSUME Types, Types', KnowsItsCall, NEW c \in Consumers
  PROVE  /\ TryWait(c) => \E n \in Nat : n <= count /\ Changes(n, 0, -n, 0)
         /\ NothingToTry(c) => Changes(0, 0, 0, 0)
         /\ GoToSleep(c) => IF count > 0 THEN Changes(1, 0, -1, 0) ELSE Changes(0, 1, -1, 0)
         /\ WakeUp(c) => sema > 0 /\ Changes(1, -1, 0, -1)
         /\ More(c) => \E n \in Nat : n <= Largest(count, 0) /\ Changes(n, 0, -n, 0)
         /\ TimeOut(c) \/ SeesSignal(c) \/ NotPostedYet(c) => Changes(0, 0, 0, 0)
         /\ Withdraw(c) => count < 0 /\ Changes(0, -1, 1, 0)
<1>t. count \in Int /\ sema \in Nat /\ left[c] \in Nat
  BY DEF Types, SemaphoreTypes, PlaceTypes
<1>k. KnowsCall(c)
  BY DEF KnowsItsCall
<1>u. left' = left => left' = [left EXCEPT ![c] = left[c]]
  BY DEF Types, PlaceTypes
<1>v. place' = place => place' = [place EXCEPT ![c] = place[c]]
  BY DEF Types, PlaceTypes
<1>c. ASSUME NEW s, NEW n, NEW k, NEW j, MovesTo(c, s, n, k, j)
      PROVE  /\ Total(left') = Total(left) + n - left[c] /\ Total(left) \in Nat
             /\ Total(Sleepers') = Total(Sleepers) + (IF s \in Sleeping THEN 1 ELSE 0)
                                                   - (IF place[c] \in Sleeping THEN 1 ELSE 0)
             /\ Total(Sleepers) \in Nat /\ count' = count + k /\ sema' = sema + j
  BY <1>c, ChangesOfOne
<1>o. "out" \notin Sleeping /\ "more" \notin Sleeping
  BY DEF Sleeping
<1>m. PICK less \in Int : less = -1
  OBVIOUS
<1>a. ASSUME Asks(c) PROVE place[c] = "out" /\ left[c] = 0 /\ toDequeue[c] # <<>>
  BY <1>a DEF Asks
<1>1. ASSUME TryWait(c) PROVE \E n \in Nat : n <= count /\ Changes(n, 0, -n, 0)
  <2> DEFINE n == MayTake(Call(c).max)
  <2>1. place[c] = "out" /\ left[c] = 0 /\ toDequeue[c] # <<>> /\ count > 0
    BY <1>1, <1>a DEF TryWait
  <2>2. n \in Nat /\ n <= Largest(count, 0)
    BY <2>1, CallType, MayTakeType
  <2>3. n <= count
    BY <1>t, <2>1, <2>2 DEF Largest
  <2>4. /\ place' = [place EXCEPT ![c] = "out"] /\ left' = [left EXCEPT ![c] = n]
        /\ count' = count - n /\ sema' = sema
    BY <1>1 DEF TryWait, Grant
  <2> HIDE DEF n
  <2>5. MovesTo(c, "out", n, -n, 0)
    BY <1>t, <2>1, <2>2, <2>4 DEF MovesTo
  <2>6. Changes(n, 0, -n, 0)
    BY <1>c, <1>o, <1>t, <2>1, <2>2, <2>5 DEF Changes
  <2> QED
    BY <2>2, <2>3, <2>6
<1>2. ASSUME \/ NothingToTry(c) \/ TimeOut(c) \/ SeesSignal(c) \/ NotPostedYet(c) PROVE Changes(0, 0, 0, 0)
  <2>1. PICK s : place' = [place EXCEPT ![c] = s] /\ (s \in Sleeping <=> place[c] \in Sleeping)
    BY <1>2, <1>v DEF NothingToTry, TimeOut, SeesSignal, NotPostedYet, semaphore, Sleeping
  <2>2. left' = [left EXCEPT ![c] = left[c]]
    BY <1>2, <1>u DEF NothingToTry, TimeOut, SeesSignal, NotPostedYet
  <2>3. count' = count /\ sema' = sema
    BY <1>2 DEF NothingToTry, TimeOut, SeesSignal, NotPostedYet, semaphore
  <2>4. MovesTo(c, s, left[c], 0, 0)
    BY <1>t, <2>1, <2>2, <2>3 DEF MovesTo
  <2> QED
    BY <1>c, <1>t, <2>1, <2>4 DEF Changes
<1>g. ASSUME Granted1(c), toDequeue[c] # <<>>
      PROVE  \E s : place' = [place EXCEPT ![c] = s] /\ left' = [left EXCEPT ![c] = 1] /\ s \notin Sleeping
  BY <1>g, <1>o DEF Granted1, Grant
<1>3. ASSUME GoToSleep(c) PROVE IF count > 0 THEN Changes(1, 0, -1, 0) ELSE Changes(0, 1, -1, 0)
  <2>1. place[c] = "out" /\ left[c] = 0 /\ toDequeue[c] # <<>>
    BY <1>3, <1>a DEF GoToSleep
  <2>2. count' = count + (-1) /\ sema' = sema + 0
    BY <1>3, <1>t DEF GoToSleep
  <2>3. CASE count > 0
    <3>1. PICK s : place' = [place EXCEPT ![c] = s] /\ left' = [left EXCEPT ![c] = 1] /\ s \notin Sleeping
      BY <1>3, <1>g, <2>1, <2>3 DEF GoToSleep
    <3>3. MovesTo(c, s, 1, less, 0)
      BY <1>m, <2>2, <3>1 DEF MovesTo
    <3>2. Changes(1, 0, -1, 0)
      <4>1. /\ Total(left') = Total(left) + 1 - left[c] /\ Total(left) \in Nat
            /\ Total(Sleepers') = Total(Sleepers) + (IF s \in Sleeping THEN 1 ELSE 0)
                                                  - (IF place[c] \in Sleeping THEN 1 ELSE 0)
            /\ Total(Sleepers) \in Nat /\ count' = count + less /\ sema' = sema + 0
        BY <1>c, <3>3
      <4>2. Total(left') = Total(left) + 1
        BY <2>1, <4>1
      <4>3. Total(Sleepers') = Total(Sleepers) + 0
        BY <1>o, <2>1, <3>1, <4>1
      <4> QED
        BY <1>m, <4>1, <4>2, <4>3 DEF Changes
    <3> QED
      BY <2>3, <3>2
  <2>4. CASE ~(count > 0)
    <3>1. place' = [place EXCEPT ![c] = "sleep"] /\ left' = [left EXCEPT ![c] = left[c]] /\ "sleep" \in Sleeping
      BY <1>3, <1>u, <2>4 DEF GoToSleep, Sleeping
    <3>3. MovesTo(c, "sleep", left[c], less, 0)
      BY <1>m, <2>2, <3>1 DEF MovesTo
    <3>2. Changes(0, 1, -1, 0)
      <4>1. /\ Total(left') = Total(left) + left[c] - left[c] /\ Total(left) \in Nat
            /\ Total(Sleepers') = Total(Sleepers) + (IF "sleep" \in Sleeping THEN 1 ELSE 0)
                                                  - (IF place[c] \in Sleeping THEN 1 ELSE 0)
            /\ Total(Sleepers) \in Nat /\ count' = count + less /\ sema' = sema + 0
        BY <1>c, <3>3
      <4>2. Total(left') = Total(left) + 0
        BY <1>t, <4>1
      <4>3. Total(Sleepers') = Total(Sleepers) + 1
        BY <1>o, <2>1, <3>1, <4>1
      <4> QED
        BY <1>m, <4>1, <4>2, <4>3 DEF Changes
    <3> QED
      BY <2>4, <3>2
  <2> QED
    BY <2>3, <2>4
<1>4. ASSUME WakeUp(c) PROVE sema > 0 /\ Changes(1, -1, 0, -1)
  <2>1. sema > 0 /\ place[c] \in Sleeping
    BY <1>4 DEF WakeUp, Sleeping
  <2>2. left[c] = 0 /\ toDequeue[c] # <<>>
    BY <1>k, <1>o, <2>1 DEF KnowsCall
  <2>3. count' = count + 0 /\ sema' = sema + (-1)
    BY <1>4, <1>t DEF WakeUp
  <2>4. PICK s : place' = [place EXCEPT ![c] = s] /\ left' = [left EXCEPT ![c] = 1] /\ s \notin Sleeping
    BY <1>4, <1>g, <2>2 DEF WakeUp
  <2>6. MovesTo(c, s, 1, 0, less)
    BY <1>m, <2>3, <2>4 DEF MovesTo
  <2>5. Changes(1, -1, 0, -1)
    <3>1. /\ Total(left') = Total(left) + 1 - left[c] /\ Total(left) \in Nat
          /\ Total(Sleepers') = Total(Sleepers) + (IF s \in Sleeping THEN 1 ELSE 0)
                                                - (IF place[c] \in Sleeping THEN 1 ELSE 0)
          /\ Total(Sleepers) \in Nat /\ count' = count + 0 /\ sema' = sema + less
      BY <1>c, <2>6
    <3>2. Total(left') = Total(left) + 1
      BY <2>2, <3>1
    <3>3. Total(Sleepers') = Total(Sleepers) + (-1)
      BY <2>1, <2>4, <3>1
    <3> QED
      BY <1>m, <3>1, <3>2, <3>3 DEF Changes
  <2> QED
    BY <2>1, <2>5
<1>5. ASSUME More(c) PROVE \E n \in Nat : n <= Largest(count, 0) /\ Changes(n, 0, -n, 0)
  <2> DEFINE n == MayTake(Call(c).max - 1)
  <2>1. place[c] = "more" /\ left[c] = 1 /\ toDequeue[c] # <<>>
    BY <1>5, <1>k DEF More, KnowsCall
  <2>2. n \in Nat /\ n <= Largest(count, 0)
    <3>1. Call(c).max - 1 \in Nat
      BY <2>1, CallType
    <3> QED
      BY <3>1, MayTakeType
  <2>3. /\ place' = [place EXCEPT ![c] = "out"] /\ left' = [left EXCEPT ![c] = 1 + n]
        /\ count' = count - n /\ sema' = sema
    BY <1>5 DEF More, Grant
  <2> HIDE DEF n
  <2>4. MovesTo(c, "out", 1 + n, -n, 0)
    BY <1>t, <2>1, <2>2, <2>3 DEF MovesTo
  <2>5. Changes(n, 0, -n, 0)
    BY <1>c, <1>o, <1>t, <2>1, <2>2, <2>4 DEF Changes
  <2> QED
    BY <2>2, <2>5
<1>6. ASSUME Withdraw(c) PROVE count < 0 /\ Changes(0, -1, 1, 0)
  <2>1. place[c] \in Sleeping /\ count < 0
    BY <1>6 DEF Withdraw, Sleeping
  <2>2. place' = [place EXCEPT ![c] = "out"] /\ count' = count + 1 /\ sema' = sema /\ left' = left
    BY <1>6 DEF Withdraw
  <2>3. MovesTo(c, "out", left[c], 1, 0)
    BY <1>t, <1>u, <2>2 DEF MovesTo
  <2>4. Changes(0, -1, 1, 0)
    BY <1>c, <1>o, <1>t, <2>1, <2>3 DEF Changes
  <2> QED
    BY <2>1, <2>4
<1> QED
  BY <1>1, <1>2, <1>3, <1>4, <1>5, <1>6
-------------------------------------------------------------------------------
\* The sums are numbers.
SumsAreNumbers ==
  /\ Total(InQueue) \in Nat /\ Total(left) \in Nat /\ Total(Unsignalled) \in Nat
  /\ Total(Posts) \in Nat /\ Total(Sleepers) \in Nat

\* They are sums of numbers, over finite sets.
LEMMA SumTypes == Types /\ Covered => SumsAreNumbers
<1> SUFFICES ASSUME Types, Covered PROVE SumsAreNumbers
  OBVIOUS
<1>1. IsFiniteSet(Producers) /\ IsFiniteSet(Consumers)
  BY CallsAssumption DEF CallsAssumption
<1>2. InQueue \in [Producers -> Nat]
  BY InQueueType DEF InQueueIsNumbers
<1>3. Unsignalled \in [Producers -> Nat] /\ Posts \in [Producers -> Nat] /\ Sleepers \in [Consumers -> Nat]
  BY PartTypes DEF PartsAreNumbers
<1>4. left \in [Consumers -> Nat]
  BY DEF Types, PlaceTypes
<1> QED
  BY <1>1, <1>2, <1>3, <1>4, TotalType DEF SumsAreNumbers

\* The parts that a step leaves alone.
LEMMA SumsKept ==
  /\ UNCHANGED <<tailIndex, headIndex>> => Total(InQueue') = Total(InQueue)
  /\ UNCHANGED filling => Total(Unsignalled') = Total(Unsignalled) /\ Total(Posts') = Total(Posts)
  /\ UNCHANGED place => Total(Sleepers') = Total(Sleepers)
  /\ UNCHANGED left => Total(left') = Total(left)
<1>1. UNCHANGED <<tailIndex, headIndex>> => InQueue' = InQueue
  BY DEF InQueue
<1>2. UNCHANGED filling => Unsignalled' = Unsignalled /\ Posts' = Posts
  BY DEF Unsignalled, Posts
<1>3. UNCHANGED place => Sleepers' = Sleepers
  BY DEF Sleepers
<1> QED
  BY <1>1, <1>2, <1>3

\* A semaphore step leaves the queues and who fills them alone.
LEMMA SemaphoreKeeps ==
  ASSUME NEW c \in Consumers,
         \/ TryWait(c) \/ NothingToTry(c) \/ GoToSleep(c) \/ WakeUp(c) \/ More(c)
         \/ TimeOut(c) \/ SeesSignal(c) \/ NotPostedYet(c) \/ Withdraw(c)
  PROVE  /\ UNCHANGED <<tailIndex, headIndex, filling>>
         /\ Total(InQueue') = Total(InQueue) /\ Total(Unsignalled') = Total(Unsignalled) /\ Total(Posts') = Total(Posts)
<1>1. UNCHANGED <<tailIndex, headIndex, filling>>
  BY DEF TryWait, NothingToTry, GoToSleep, WakeUp, More, TimeOut, SeesSignal, NotPostedYet, Withdraw, queueVars, counters
<1> QED
  BY <1>1, SumsKept

\* The steps of consumers in the semaphore keep the balance.
LEMMA SemaphoreBalanced ==
  ASSUME Types, Types', KnowsItsCall, Covered, Balanced, NEW c \in Consumers,
         \/ TryWait(c) \/ NothingToTry(c) \/ GoToSleep(c) \/ WakeUp(c) \/ More(c)
         \/ TimeOut(c) \/ SeesSignal(c) \/ NotPostedYet(c) \/ Withdraw(c)
  PROVE  Balanced'
<1>1. Total(InQueue') = Total(InQueue) /\ Total(Unsignalled') = Total(Unsignalled) /\ Total(Posts') = Total(Posts)
  BY SemaphoreKeeps
<1>2. /\ Total(InQueue) \in Nat /\ Total(left) \in Nat /\ Total(Unsignalled) \in Nat
      /\ Total(Posts) \in Nat /\ Total(Sleepers) \in Nat
  BY SumTypes DEF SumsAreNumbers
<1>3. count \in Int /\ sema \in Nat
  BY DEF Types, SemaphoreTypes
<1>4. /\ Total(InQueue) = Total(left) + Total(Unsignalled) + count + Total(Sleepers)
      /\ Total(Sleepers) = sema + Total(Posts) + (IF 0 > -count THEN 0 ELSE -count)
  BY DEF Balanced, Largest
<1>f. ASSUME /\ Total(InQueue') = Total(left') + Total(Unsignalled') + count' + Total(Sleepers')
             /\ Total(Sleepers') = sema' + Total(Posts') + (IF 0 > -count' THEN 0 ELSE -count')
      PROVE  Balanced'
  BY <1>f DEF Balanced, Largest
<1>5. CASE TryWait(c)
  <2>1. PICK n \in Nat : n <= count /\ Changes(n, 0, -n, 0)
    BY <1>5, SemaphoreSteps
  <2>2. Total(left') = Total(left) + n /\ Total(Sleepers') = Total(Sleepers) + 0 /\ count' = count + (-n) /\ sema' = sema + 0
    BY <2>1 DEF Changes
  <2> QED
    BY <1>1, <1>2, <1>3, <1>4, <1>f, <2>1, <2>2
<1>6. CASE NothingToTry(c) \/ TimeOut(c) \/ SeesSignal(c) \/ NotPostedYet(c)
  <2>1. Changes(0, 0, 0, 0)
    BY <1>6, SemaphoreSteps
  <2>2. Total(left') = Total(left) + 0 /\ Total(Sleepers') = Total(Sleepers) + 0 /\ count' = count + 0 /\ sema' = sema + 0
    BY <2>1 DEF Changes
  <2> QED
    BY <1>1, <1>2, <1>3, <1>4, <1>f, <2>2
<1>7. CASE GoToSleep(c)
  <2>1. IF count > 0 THEN Changes(1, 0, -1, 0) ELSE Changes(0, 1, -1, 0)
    BY <1>7, SemaphoreSteps
  <2>2. CASE count > 0
    <3>1. Total(left') = Total(left) + 1 /\ Total(Sleepers') = Total(Sleepers) + 0 /\ count' = count + (-1) /\ sema' = sema + 0
      BY <2>1, <2>2 DEF Changes
    <3> QED
      BY <1>1, <1>2, <1>3, <1>4, <1>f, <2>2, <3>1
  <2>3. CASE ~(count > 0)
    <3>1. Total(left') = Total(left) + 0 /\ Total(Sleepers') = Total(Sleepers) + 1 /\ count' = count + (-1) /\ sema' = sema + 0
      BY <2>1, <2>3 DEF Changes
    <3> QED
      BY <1>1, <1>2, <1>3, <1>4, <1>f, <2>3, <3>1
  <2> QED
    BY <2>2, <2>3
<1>8. CASE WakeUp(c)
  <2>1. Changes(1, -1, 0, -1)
    BY <1>8, SemaphoreSteps
  <2>2. Total(left') = Total(left) + 1 /\ Total(Sleepers') = Total(Sleepers) + (-1) /\ count' = count + 0 /\ sema' = sema + (-1)
    BY <2>1 DEF Changes
  <2> QED
    BY <1>1, <1>2, <1>3, <1>4, <1>f, <2>2
<1>9. CASE More(c)
  <2>1. PICK n \in Nat : n <= Largest(count, 0) /\ Changes(n, 0, -n, 0)
    BY <1>9, SemaphoreSteps
  <2>2. Total(left') = Total(left) + n /\ Total(Sleepers') = Total(Sleepers) + 0 /\ count' = count + (-n) /\ sema' = sema + 0
    BY <2>1 DEF Changes
  <2>3. n <= (IF count > 0 THEN count ELSE 0)
    BY <2>1 DEF Largest
  <2> QED
    BY <1>1, <1>2, <1>3, <1>4, <1>f, <2>2, <2>3
<1>10. CASE Withdraw(c)
  <2>1. count < 0 /\ Changes(0, -1, 1, 0)
    BY <1>10, SemaphoreSteps
  <2>2. Total(left') = Total(left) + 0 /\ Total(Sleepers') = Total(Sleepers) + (-1) /\ count' = count + 1 /\ sema' = sema + 0
    BY <2>1 DEF Changes
  <2> QED
    BY <1>1, <1>2, <1>3, <1>4, <1>f, <2>1, <2>2
<1> QED
  BY <1>5, <1>6, <1>7, <1>8, <1>9, <1>10
-------------------------------------------------------------------------------
\* A dequeue either leaves the sums alone, or claims what its consumer wants of them.
LEMMA DequeueSteps ==
  ASSUME Types, KnowsItsCall, NEW c \in Consumers, DequeueInner(c)
  PROVE  /\ UNCHANGED <<tailIndex, filling, place, count, sema>>
         /\ \/ UNCHANGED <<headIndex, left>>
            \/ \E p \in Producers : \E w \in Nat :
                 /\ 1 <= w /\ w <= left[c] /\ taking[c].at = "claim" /\ taking[c].from = p /\ taking[c].want = w
                 /\ headIndex' = [headIndex EXCEPT ![p] = headIndex[p] + w]
                 /\ left' = [left EXCEPT ![c] = left[c] - w]
<1>1. UNCHANGED <<tailIndex, filling, place, count, sema>>
  BY DEF DequeueInner, Dequeuing, ReadOvercommit, Guess, AddOptimistic, ReadTailAgain, GiveBack,
         Claim, ReadIndex, ReadFront, Move, SetEmpty, counters, semaphore
<1>2. CASE Claim(c)
  <2>1. taking[c].at = "claim"
    BY <1>2 DEF Claim
  <2>2. taking[c].from \in Producers /\ 1 <= taking[c].want /\ taking[c].want <= left[c]
    BY <2>1 DEF KnowsItsCall, KnowsCall, Wanting
  <2>3. taking[c].want \in Nat
    BY TakingTypes
  <2>4. headIndex' = [headIndex EXCEPT ![taking[c].from] = headIndex[taking[c].from] + taking[c].want]
    BY <1>2 DEF Claim
  <2>5. left' = [left EXCEPT ![c] = left[c] - taking[c].want]
    BY <2>1 DEF DequeueInner
  <2> QED
    BY <1>1, <2>1, <2>2, <2>3, <2>4, <2>5
<1>3. CASE ~Claim(c)
  <2>1. UNCHANGED headIndex
    BY <1>3 DEF DequeueInner, Dequeuing, ReadOvercommit, Guess, AddOptimistic, ReadTailAgain, GiveBack,
                ReadIndex, ReadFront, Move, SetEmpty, counters
  <2>2. taking[c].at # "claim"
    BY <1>3 DEF DequeueInner, Dequeuing, ReadOvercommit, Guess, AddOptimistic, ReadTailAgain, GiveBack,
                ReadIndex, ReadFront, Move, Looked, SetEmpty
  <2>3. left' = [left EXCEPT ![c] = left[c]]
    BY <2>2 DEF DequeueInner
  <2>4. left' = left
    BY <2>3 DEF Types, PlaceTypes
  <2> QED
    BY <1>1, <2>1, <2>4
<1> QED
  BY <1>2, <1>3

\* It keeps the balance: what is claimed leaves the queue and is looked for no longer.
LEMMA DequeueBalanced ==
  ASSUME Types, Types', KnowsItsCall, Covered, Covered', Balanced, NEW c \in Consumers, DequeueInner(c)
  PROVE  Balanced'
<1>1. UNCHANGED <<tailIndex, filling, place, count, sema>>
  BY DequeueSteps
<1>2. Total(Unsignalled') = Total(Unsignalled) /\ Total(Posts') = Total(Posts) /\ Total(Sleepers') = Total(Sleepers)
  BY <1>1, SumsKept
<1>3. CASE UNCHANGED <<headIndex, left>>
  <2>1. Total(InQueue') = Total(InQueue) /\ Total(left') = Total(left)
    BY <1>1, <1>3, SumsKept
  <2> QED
    BY <1>1, <1>2, <2>1 DEF Balanced
<1>4. ASSUME NEW p \in Producers, NEW w \in Nat, 1 <= w, w <= left[c],
             headIndex' = [headIndex EXCEPT ![p] = headIndex[p] + w], left' = [left EXCEPT ![c] = left[c] - w]
      PROVE  Balanced'
  <2>1. left[c] \in Nat /\ headIndex[p] \in Nat /\ tailIndex[p] \in Nat /\ count \in Int
    BY DEF Types, PlaceTypes, CounterTypes, SemaphoreTypes
  <2>2. headIndex'[p] = headIndex[p] + w /\ \A q \in Producers \ {p} : headIndex'[q] = headIndex[q]
    BY <1>4 DEF Types, CounterTypes
  <2>3. left'[c] = left[c] - w /\ \A d \in Consumers \ {c} : left'[d] = left[d]
    BY <1>4 DEF Types, PlaceTypes
  <2>4. /\ Total(InQueue') = Total(InQueue) + (tailIndex'[p] - headIndex'[p]) - (tailIndex[p] - headIndex[p])
        /\ Total(InQueue) \in Nat /\ Total(InQueue') \in Nat
    BY <1>1, <2>2, QueueSums
  <2>5. Total(InQueue') = Total(InQueue) - w
    BY <1>1, <2>1, <2>2, <2>4
  <2>6. Total(left') = Total(left) + left'[c] - left[c] /\ Total(left) \in Nat
    BY <1>1, <2>3, ConsumerSums
  <2>7. Total(left') = Total(left) - w
    BY <2>1, <2>3, <2>6
  <2>8. Total(Unsignalled) \in Nat /\ Total(Sleepers) \in Nat
    BY SumTypes DEF SumsAreNumbers
  <2>9. Total(InQueue') = Total(left') + Total(Unsignalled') + count' + Total(Sleepers')
    BY <1>1, <1>2, <2>1, <2>4, <2>5, <2>6, <2>7, <2>8 DEF Balanced
  <2> QED
    BY <1>1, <1>2, <2>9 DEF Balanced
<1> QED
  BY <1>3, <1>4, DequeueSteps

\* The steps of an enqueue before its elements can be seen, and after.
LEMMA EnqueueSteps ==
  ASSUME Types, NEW p \in Producers, Enqueue(p) \/ EnqueueInner(p) \/ AddCount(p) \/ Post(p)
  PROVE  /\ UNCHANGED <<headIndex, place, left>> /\ \A q \in Producers \ {p} : filling'[q] = filling[q]
         /\ ~Publish(p) => UNCHANGED tailIndex
         /\ ~Publish(p) /\ ~AddCount(p) /\ ~Post(p)
              => /\ UNCHANGED <<count, sema>>
                 /\ filling[p].at \notin {"published", "post"} /\ filling'[p].at \notin {"published", "post"}
<1>1. UNCHANGED <<headIndex, place, left>> /\ \A q \in Producers \ {p} : filling'[q] = filling[q]
  <2>1. DOMAIN filling = Producers
    BY DEF Types, FillingTypes
  <2>2. UNCHANGED <<headIndex, place, left>>
    BY DEF Enqueue, Begin, EnqueueInner, Enqueuing, Reuse, AskPool, Grow, Requisition, Fail, Fill, Publish, AddCount, Post, counters, semaphore
  <2>3. \A q \in Producers \ {p} : filling'[q] = filling[q]
    BY <2>1 DEF Enqueue, Begin, EnqueueInner, Enqueuing, Reuse, AskPool, Grow, Requisition, Fail, Fill, Publish, AddCount, Post, Fills
  <2> QED
    BY <2>2, <2>3
<1>2. ~Publish(p) => UNCHANGED tailIndex
  BY DEF Enqueue, Begin, EnqueueInner, Enqueuing, Reuse, AskPool, Grow, Requisition, Fail, Fill, AddCount, Post, counters
<1>3. ASSUME ~Publish(p), ~AddCount(p), ~Post(p)
      PROVE  /\ UNCHANGED <<count, sema>>
             /\ filling[p].at \notin {"published", "post"} /\ filling'[p].at \notin {"published", "post"}
  <2>1. UNCHANGED <<count, sema>>
    BY <1>3 DEF Enqueue, EnqueueInner, semaphore
  <2>2. DOMAIN filling = Producers
    BY DEF Types, FillingTypes
  <2>3. filling[p].at \in {"out", "reserve", "allocate"}
    BY <1>3 DEF Enqueue, Begin, EnqueueInner, Enqueuing, Reuse, AskPool, Grow, Requisition, Fail, Fill
  <2>4. CASE Enqueue(p)
    <3>1. filling'[p].at \in {"reserve", "allocate"}
      BY <2>2, <2>4 DEF Enqueue, Begin
    <3> QED
      BY <2>1, <2>3, <3>1
  <2>5. CASE Reuse(p) \/ Requisition(p)
    <3>1. filling' = filling
      BY <2>5 DEF Reuse, Requisition
    <3> QED
      BY <2>1, <2>3, <3>1
  <2>6. CASE Fail(p)
    <3>1. filling'[p].at = "out"
      BY <2>2, <2>6 DEF Fail, NotFilling
    <3> QED
      BY <2>1, <2>3, <3>1
  <2>8. CASE AskPool(p)
    <3>1. filling[p] = [at |-> filling[p].at, count |-> filling[p].count, start |-> filling[p].start, slot |-> filling[p].slot, used |-> filling[p].used]
      BY DEF Types, FillingTypes
    <3>2. filling'[p].at = "allocate"
      BY <2>2, <2>8, <3>1 DEF AskPool, Fills
    <3> QED
      BY <2>1, <2>3, <3>2
  <2>9. CASE Grow(p)
    <3>1. filling[p] = [at |-> filling[p].at, count |-> filling[p].count, start |-> filling[p].start, slot |-> filling[p].slot, used |-> filling[p].used]
      BY DEF Types, FillingTypes
    <3>2. filling'[p].at = filling[p].at
      BY <2>2, <2>9, <3>1 DEF Grow
    <3> QED
      BY <2>1, <2>3, <3>2
  <2>7. CASE Fill(p)
    <3>1. filling[p] = [at |-> filling[p].at, count |-> filling[p].count, start |-> filling[p].start, slot |-> filling[p].slot, used |-> filling[p].used]
      BY DEF Types, FillingTypes
    <3>2. filling'[p].at = "publish"
      BY <2>2, <2>7, <3>1 DEF Fill, Fills
    <3> QED
      BY <2>1, <2>3, <3>2
  <2> QED
    BY <1>3, <2>4, <2>5, <2>6, <2>7, <2>8, <2>9 DEF EnqueueInner, Enqueuing
<1> QED
  BY <1>1, <1>2, <1>3

\* The steps of a producer keep the balance.
LEMMA EnqueueBalanced ==
  ASSUME Types, Types', Covered, Covered', Balanced, NEW p \in Producers,
         Enqueue(p) \/ EnqueueInner(p) \/ AddCount(p) \/ Post(p)
  PROVE  Balanced'
<1>1. UNCHANGED <<headIndex, place, left>> /\ \A q \in Producers \ {p} : filling'[q] = filling[q]
  BY EnqueueSteps
<1>2. Total(left') = Total(left) /\ Total(Sleepers') = Total(Sleepers)
  BY <1>1, SumsKept
<1>3. /\ Total(Unsignalled') = Total(Unsignalled) + (IF filling'[p].at = "published" THEN filling'[p].count ELSE 0)
                                                  - (IF filling[p].at = "published" THEN filling[p].count ELSE 0)
      /\ Total(Posts') = Total(Posts) + (IF filling'[p].at = "post" THEN filling'[p].count ELSE 0)
                                      - (IF filling[p].at = "post" THEN filling[p].count ELSE 0)
  BY <1>1, ProducerSums
<1>4. /\ Total(InQueue) \in Nat /\ Total(left) \in Nat /\ Total(Unsignalled) \in Nat
      /\ Total(Posts) \in Nat /\ Total(Sleepers) \in Nat
  BY SumTypes DEF SumsAreNumbers
<1>5. /\ count \in Int /\ sema \in Nat /\ filling[p].count \in Nat /\ DOMAIN filling = Producers
      /\ filling[p] = [at |-> filling[p].at, count |-> filling[p].count, start |-> filling[p].start, slot |-> filling[p].slot, used |-> filling[p].used]
  BY DEF Types, SemaphoreTypes, FillingTypes
<1>6. /\ Total(InQueue) = Total(left) + Total(Unsignalled) + count + Total(Sleepers)
      /\ Total(Sleepers) = sema + Total(Posts) + (IF 0 > -count THEN 0 ELSE -count)
  BY DEF Balanced, Largest
<1>f. ASSUME /\ Total(InQueue') = Total(left') + Total(Unsignalled') + count' + Total(Sleepers')
             /\ Total(Sleepers') = sema' + Total(Posts') + (IF 0 > -count' THEN 0 ELSE -count')
      PROVE  Balanced'
  BY <1>f DEF Balanced, Largest
<1>t. ~Publish(p) => Total(InQueue') = Total(InQueue)
  <2>1. ~Publish(p) => UNCHANGED tailIndex
    BY EnqueueSteps
  <2> QED
    BY <1>1, <2>1, SumsKept
<1>7. CASE ~Publish(p) /\ ~AddCount(p) /\ ~Post(p)
  <2>1. /\ count' = count /\ sema' = sema
        /\ filling[p].at \notin {"published", "post"} /\ filling'[p].at \notin {"published", "post"}
    BY <1>7, EnqueueSteps
  <2>2. Total(Unsignalled') = Total(Unsignalled) /\ Total(Posts') = Total(Posts) /\ Total(InQueue') = Total(InQueue)
    BY <1>3, <1>4, <1>7, <1>t, <2>1
  <2> QED
    BY <1>2, <1>6, <1>f, <2>1, <2>2
<1>8. CASE Publish(p) /\ EnqueueInner(p)
  <2>1. /\ filling[p].at = "publish" /\ tailIndex' = [tailIndex EXCEPT ![p] = tailIndex[p] + filling[p].count]
        /\ filling' = [filling EXCEPT ![p].at = "published"] /\ count' = count /\ sema' = sema
    BY <1>8 DEF Publish, Fills, EnqueueInner, semaphore
  <2>2. filling'[p].at = "published" /\ filling'[p].count = filling[p].count
    BY <1>5, <2>1
  <2>3. tailIndex'[p] = tailIndex[p] + filling[p].count /\ \A q \in Producers \ {p} : tailIndex'[q] = tailIndex[q]
    BY <2>1 DEF Types, CounterTypes
  <2>4. Total(InQueue') = Total(InQueue) + (tailIndex'[p] - headIndex'[p]) - (tailIndex[p] - headIndex[p])
    BY <1>1, <2>3, QueueSums
  <2>5. tailIndex[p] \in Nat /\ headIndex[p] \in Nat /\ headIndex'[p] = headIndex[p]
    BY <1>1 DEF Types, CounterTypes
  <2>6. Total(InQueue') = Total(InQueue) + filling[p].count
    BY <1>4, <1>5, <2>3, <2>4, <2>5
  <2>7. Total(Unsignalled') = Total(Unsignalled) + filling[p].count /\ Total(Posts') = Total(Posts)
    BY <1>3, <1>4, <1>5, <2>1, <2>2
  <2> QED
    BY <1>2, <1>4, <1>5, <1>6, <1>f, <2>1, <2>6, <2>7
<1>9. CASE AddCount(p) /\ ~Publish(p)
  <2> DEFINE release == Largest(0, Smaller(-count, filling[p].count))
  <2>1. /\ filling[p].at = "published" /\ count' = count + filling[p].count /\ sema' = sema
        /\ filling' = [filling EXCEPT ![p] =
             IF release > 0 THEN [NotFilling EXCEPT !.at = "post", !.count = release] ELSE NotFilling]
    BY <1>9 DEF AddCount
  <2>2. /\ release \in Nat
        /\ (IF 0 > -count THEN 0 ELSE -count)
             = release + (IF 0 > -(count + filling[p].count) THEN 0 ELSE -(count + filling[p].count))
    BY <1>5 DEF Largest, Smaller
  <2> HIDE DEF release
  <2>3. [NotFilling EXCEPT !.at = "post", !.count = release] = [at |-> "post", count |-> release, start |-> Nothing, slot |-> 0, used |-> 0]
    BY PostRecord
  <2>4. \/ filling'[p].at = "post" /\ filling'[p].count = release
        \/ filling'[p].at = "out" /\ release = 0
    <3>1. CASE release > 0
      <4>1. filling'[p] = [at |-> "post", count |-> release, start |-> Nothing, slot |-> 0, used |-> 0]
        BY <1>5, <2>1, <2>3, <3>1
      <4> QED
        BY <4>1
    <3>2. CASE ~(release > 0)
      <4>1. filling'[p] = NotFilling
        BY <1>5, <2>1, <3>2
      <4> QED
        BY <2>2, <3>2, <4>1 DEF NotFilling
    <3> QED
      BY <3>1, <3>2
  <2>5. Total(Unsignalled') = Total(Unsignalled) - filling[p].count /\ Total(Posts') = Total(Posts) + release
    BY <1>3, <1>4, <1>5, <2>1, <2>2, <2>4
  <2>6. Total(Sleepers') = sema' + Total(Posts') + (IF 0 > -count' THEN 0 ELSE -count')
    BY <1>2, <1>4, <1>5, <1>6, <2>1, <2>2, <2>5
  <2>7. Total(InQueue') = Total(left') + Total(Unsignalled') + count' + Total(Sleepers')
    BY <1>2, <1>4, <1>5, <1>6, <1>9, <1>t, <2>1, <2>5
  <2> QED
    BY <1>f, <2>6, <2>7
<1>10. CASE Post(p) /\ ~Publish(p)
  <2>1. /\ filling[p].at = "post" /\ sema' = sema + 1 /\ count' = count
        /\ filling' = IF filling[p].count > 1 THEN [filling EXCEPT ![p].count = @ - 1]
                                              ELSE [filling EXCEPT ![p] = NotFilling]
    BY <1>10 DEF Post
  <2>2. filling[p].count > 0
    BY <2>1 DEF Types, FillingTypes
  <2>3. \/ filling'[p].at = "post" /\ filling'[p].count = filling[p].count - 1
        \/ filling'[p].at = "out" /\ filling[p].count = 1
    <3>1. CASE filling[p].count > 1
      <4>1. filling' = [filling EXCEPT ![p].count = filling[p].count - 1]
        BY <2>1, <3>1
      <4> QED
        BY <1>5, <2>1, <4>1
    <3>2. CASE ~(filling[p].count > 1)
      <4>1. filling'[p] = NotFilling
        BY <1>5, <2>1, <3>2
      <4> QED
        BY <1>5, <2>2, <3>2, <4>1 DEF NotFilling
    <3> QED
      BY <3>1, <3>2
  <2>4. Total(Unsignalled') = Total(Unsignalled) /\ Total(Posts') = Total(Posts) - 1
    BY <1>3, <1>4, <1>5, <2>1, <2>2, <2>3
  <2> QED
    BY <1>2, <1>4, <1>5, <1>6, <1>10, <1>f, <1>t, <2>1, <2>4
<1>11. Publish(p) => EnqueueInner(p) /\ ~AddCount(p) /\ ~Post(p)
  BY DEF Publish, EnqueueInner, Enqueuing, Enqueue, Begin, AddCount, Post
<1> QED
  BY <1>7, <1>8, <1>9, <1>10, <1>11

\* Every step keeps it.
LEMMA BalancedStep ==
  Types /\ Types' /\ KnowsItsCall /\ Covered /\ Covered' /\ Balanced /\ [Next]_vars => Balanced'
<1> SUFFICES ASSUME Types, Types', KnowsItsCall, Covered, Covered', Balanced, [Next]_vars PROVE Balanced'
  OBVIOUS
<1>1. ASSUME NEW p \in Producers, Enqueue(p) \/ EnqueueInner(p) \/ AddCount(p) \/ Post(p) PROVE Balanced'
  BY <1>1, EnqueueBalanced
<1>2. ASSUME NEW c \in Consumers,
             \/ TryWait(c) \/ NothingToTry(c) \/ GoToSleep(c) \/ WakeUp(c) \/ More(c)
             \/ TimeOut(c) \/ SeesSignal(c) \/ NotPostedYet(c) \/ Withdraw(c)
      PROVE  Balanced'
  BY <1>2, SemaphoreBalanced
<1>3. ASSUME NEW c \in Consumers, DequeueInner(c) PROVE Balanced'
  BY <1>3, DequeueBalanced
<1>q. ASSUME UNCHANGED <<tailIndex, headIndex, filling, place, left, count, sema>> PROVE Balanced'
  <2>1. /\ Total(InQueue') = Total(InQueue) /\ Total(left') = Total(left) /\ Total(Unsignalled') = Total(Unsignalled)
        /\ Total(Posts') = Total(Posts) /\ Total(Sleepers') = Total(Sleepers)
    BY <1>q, SumsKept
  <2> QED
    BY <1>q, <2>1 DEF Balanced
<1>4. ASSUME NEW c \in Consumers, AskProducer(c) PROVE Balanced'
  BY <1>4, <1>q DEF AskProducer, ReadTail, counters, semaphore
<1>5. CASE UNCHANGED vars
  BY <1>5, <1>q DEF vars, queueVars, counters, semaphore
<1> QED
  BY <1>1, <1>2, <1>3, <1>4, <1>5 DEF Next
-------------------------------------------------------------------------------
\* All of this holds when nothing has been enqueued or asked for.
LEMMA InitHolds == Init => IInv
<1> SUFFICES ASSUME Init PROVE IInv
  OBVIOUS
<1>1. /\ tailIndex = [p \in Producers |-> 0] /\ headIndex = [p \in Producers |-> 0]
      /\ optimistic = [p \in Producers |-> 0] /\ overcommit = [p \in Producers |-> 0]
      /\ filling = [p \in Producers |-> NotFilling] /\ taking = [c \in Consumers |-> NotTaking]
      /\ toEnqueue = ToEnqueue /\ toDequeue = ToDequeue /\ count = 0 /\ sema = 0
      /\ place = [c \in Consumers |-> "out"] /\ left = [c \in Consumers |-> 0]
      /\ untried = [c \in Consumers |-> {}]
  BY DEF Init, InitQueue
<1>2. Types
  <2>1. CounterTypes
    BY <1>1 DEF CounterTypes
  <2>2. FillingTypes
    BY <1>1 DEF FillingTypes, NotFilling
  <2>3. ConsumerTypes
    BY <1>1 DEF ConsumerTypes, NotTaking
  <2>4. CallTypes
    BY <1>1, CallsAssumption DEF CallTypes, CallsAssumption
  <2>5. SemaphoreTypes /\ PlaceTypes
    BY <1>1 DEF SemaphoreTypes, PlaceTypes
  <2> QED
    BY <2>1, <2>2, <2>3, <2>4, <2>5 DEF Types
<1>3. KnowsItsCall
  BY <1>1 DEF KnowsItsCall, KnowsCall, NotTaking, Wanting, Sleeping
<1>n. \A c \in Consumers : taking[c].at = "out"
  BY <1>1 DEF NotTaking
<1>4. Accounted
  <2>1. ASSUME NEW p \in Producers PROVE Total(Weight(p)) = 0
    <3>1. Weight(p) \in [Consumers -> Nat]
      BY <1>2, PartTypes DEF PartsAreNumbers
    <3>2. \A c \in Consumers : Weight(p)[c] = 0
      BY <1>n DEF Weight, WeightOf
    <3> QED
      BY <3>1, <3>2, TotalZero
  <2> QED
    BY <1>1, <2>1 DEF Accounted
<1>5. Covered
  <2>1. ASSUME NEW p \in Producers, NEW n \in Nat PROVE Total(Share(p, n)) = 0
    <3>1. Share(p, n) \in [Consumers -> Nat]
      BY <1>2, PartTypes DEF PartsAreNumbers
    <3>2. \A c \in Consumers : Share(p, n)[c] = 0
      BY <1>n DEF Share, ShareOf
    <3> QED
      BY <3>1, <3>2, TotalZero
  <2> QED
    BY <1>1, <2>1 DEF Covered
<1>6. Balanced
  <2>1. InQueue \in [Producers -> Nat] /\ \A p \in Producers : InQueue[p] = 0
    BY <1>1 DEF InQueue
  <2>2. /\ Unsignalled \in [Producers -> Nat] /\ \A p \in Producers : Unsignalled[p] = 0
        /\ Posts \in [Producers -> Nat] /\ \A p \in Producers : Posts[p] = 0
    BY <1>1 DEF Unsignalled, Posts, NotFilling
  <2>3. left \in [Consumers -> Nat] /\ \A c \in Consumers : left[c] = 0
    BY <1>1
  <2>4. Sleepers \in [Consumers -> Nat] /\ \A c \in Consumers : Sleepers[c] = 0
    BY <1>1 DEF Sleepers, Sleeping
  <2>5. Total(InQueue) = 0 /\ Total(Unsignalled) = 0 /\ Total(Posts) = 0
    BY <2>1, <2>2, TotalZero
  <2>6. Total(left) = 0 /\ Total(Sleepers) = 0
    BY <2>3, <2>4, TotalZero
  <2> QED
    BY <1>1, <2>5, <2>6 DEF Balanced, Largest
<1> QED
  BY <1>2, <1>3, <1>4, <1>5, <1>6 DEF IInv, Races

\* And each step keeps it.
LEMMA StepKeeps == IInv /\ [Next]_vars => IInv'
<1>1. IInv /\ [Next]_vars => Types'
  BY TypesStep DEF IInv, Races
<1>2. IInv /\ [Next]_vars => KnowsItsCall'
  BY KnowsStep DEF IInv, Races
<1>3. IInv /\ [Next]_vars => Accounted' /\ Covered'
  BY <1>1, RacesStep DEF IInv, Races
<1>4. IInv /\ [Next]_vars => Balanced'
  BY <1>1, <1>3, BalancedStep DEF IInv, Races
<1> QED
  BY <1>1, <1>2, <1>3, <1>4 DEF IInv, Races

\* So it holds always.
LEMMA IInvHolds == Spec => []IInv
<1>1. Init => IInv
  BY InitHolds
<1>2. IInv /\ [Next]_vars => IInv'
  BY StepKeeps
<1> QED
  BY <1>1, <1>2, PTL DEF Spec

\* Who sleeps when all has been signalled and posted is counted below zero, and then the
\* consumers that are awake have been let have whatever is in the queues.
LEMMA NobodySleeps == IInv => NobodySleepsBesideElements
<1> SUFFICES ASSUME IInv, NEW c \in Consumers, place[c] = "sleep", sema = 0,
                    \A p \in Producers : filling[p].at \notin {"published", "post"}
             PROVE  Total([p \in Producers |-> tailIndex[p] - headIndex[p]]) = Promised
  BY DEF NobodySleepsBesideElements
<1>1. Types /\ Covered /\ Balanced
  BY DEF IInv, Races
<1>2. /\ Total(InQueue) \in Nat /\ Total(left) \in Nat /\ Total(Sleepers) \in Nat /\ count \in Int
  BY <1>1, SumTypes DEF SumsAreNumbers, Types, SemaphoreTypes
<1>3. Total(Unsignalled) = 0 /\ Total(Posts) = 0
  <2>1. Unsignalled \in [Producers -> Nat] /\ Posts \in [Producers -> Nat]
    BY <1>1, PartTypes DEF PartsAreNumbers
  <2>2. \A p \in Producers : Unsignalled[p] = 0 /\ Posts[p] = 0
    BY DEF Unsignalled, Posts
  <2> QED
    BY <2>1, <2>2, TotalZero
<1>4. Total(Sleepers) >= 1
  <2>1. Sleepers \in [Consumers -> Nat] /\ Sleepers[c] = 1
    BY DEF Sleepers, Sleeping
  <2>2. IsFiniteSet(Consumers)
    BY CallsAssumption DEF CallsAssumption
  <2>3. Sleepers[c] <= Total(Sleepers)
    BY <2>1, <2>2, TotalType
  <2> QED
    BY <1>2, <2>1, <2>3
<1>5. /\ Total(InQueue) = Total(left) + Total(Unsignalled) + count + Total(Sleepers)
      /\ Total(Sleepers) = sema + Total(Posts) + (IF 0 > -count THEN 0 ELSE -count)
  BY <1>1 DEF Balanced, Largest
<1>6. Total(InQueue) = Total(left)
  BY <1>2, <1>3, <1>4, <1>5
<1> QED
  BY <1>6 DEF InQueue, Promised

\* Nobody is left asleep beside an element: whatever the calls, how many consumers time out
\* while they are signalled, and however the steps of the semaphore and of the queue mix.
THEOREM NobodyIsLeftAsleep == Spec => []NobodySleepsBesideElements
<1>1. IInv => NobodySleepsBesideElements
  BY NobodySleeps
<1> QED
  BY <1>1, IInvHolds, PTL
-------------------------------------------------------------------------------
\* The consumers are let have more elements: no more than are in the queues for nobody yet.
LEMMA LetHave ==
  ASSUME Types, Types', Covered, Balanced, UNCHANGED <<tailIndex, headIndex>>, NEW n \in Nat,
         Total(left') = Total(left) + n, n <= Total(Unsignalled) + count + Total(Sleepers)
  PROVE  [Elements!Next]_Elements!vars
<1>1. /\ Total(InQueue) \in Nat /\ Total(left) \in Nat /\ Total(Unsignalled) \in Nat /\ Total(Sleepers) \in Nat
      /\ count \in Int
  BY SumTypes DEF SumsAreNumbers, Types, SemaphoreTypes
<1>2. Elements!Available = Total(InQueue)
  <2>1. \A f : Elements!Tickets(f) = Tickets(f)
    BY Zenon DEF Elements!Tickets, Tickets
  <2>2. \A f : Elements!Total(f) = Total(f)
    BY Zenon, <2>1 DEF Elements!Total, Total, Elements!Cardinality, Cardinality
  <2>3. Elements!Available = Elements!Total(InQueue)
    BY Zenon DEF Elements!Available, InQueue
  <2> QED
    BY <2>2, <2>3
<1>3. Total(InQueue) = Total(left) + Total(Unsignalled) + count + Total(Sleepers)
  BY DEF Balanced
<1>4. CASE n = 0
  <2>1. Promised' = Promised
    BY <1>1, <1>4 DEF Promised
  <2> QED
    BY <2>1 DEF Elements!vars
<1>5. CASE n > 0
  <2>1. n \in 1..Elements!Available - Promised
    BY <1>1, <1>2, <1>3, <1>5 DEF Promised
  <2>2. Promised' = Promised + n
    BY DEF Promised
  <2>3. Elements!Promise
    BY <2>1, <2>2 DEF Elements!Promise
  <2> QED
    BY <2>3 DEF Elements!Next
<1> QED
  BY <1>4, <1>5

\* Those a consumer claims are there, and it has been let have them.
LEMMA ClaimHands ==
  ASSUME Types, Types', KnowsItsCall, Covered, NEW c \in Consumers, DequeueInner(c)
  PROVE  [Elements!Next]_Elements!vars
<1>1. UNCHANGED tailIndex
  BY DequeueSteps
<1>2. CASE UNCHANGED <<headIndex, left>>
  BY <1>1, <1>2 DEF Elements!vars, Promised
<1>3. ASSUME NEW p \in Producers, NEW w \in Nat, 1 <= w, w <= left[c],
             taking[c].at = "claim", taking[c].from = p, taking[c].want = w,
             headIndex' = [headIndex EXCEPT ![p] = headIndex[p] + w], left' = [left EXCEPT ![c] = left[c] - w]
      PROVE  [Elements!Next]_Elements!vars
  <2>1. left \in [Consumers -> Nat] /\ left[c] \in Nat /\ headIndex[p] \in Nat /\ tailIndex[p] \in Nat
    BY DEF Types, PlaceTypes, CounterTypes
  <2>2. IsFiniteSet(Consumers)
    BY CallsAssumption DEF CallsAssumption
  <2>3. left[c] <= Total(left) /\ Total(left) \in Nat
    BY <2>1, <2>2, TotalType
  <2>4. left'[c] = left[c] - w /\ \A d \in Consumers \ {c} : place'[d] = place[d] /\ left'[d] = left[d]
    BY <1>3, DequeueSteps DEF Types, PlaceTypes
  <2>5. Total(left') = Total(left) + left'[c] - left[c]
    BY <2>4, ConsumerSums
  <2>6. Promised' = Promised - w /\ w \in 1..Promised
    BY <1>3, <2>1, <2>3, <2>4, <2>5 DEF Promised
  <2>7. w <= tailIndex[p] - headIndex[p]
    <3>1. PICK n \in Nat : n = tailIndex[p]
      BY <2>1
    <3>2. headIndex[p] + Total(Share(p, n)) <= n
      BY <2>1, <3>1 DEF Covered
    <3>3. Share(p, n) \in [Consumers -> Nat] /\ Share(p, n)[c] = w
      <4>1. Share(p, n) \in [Consumers -> Nat]
        BY PartTypes DEF PartsAreNumbers
      <4>2. ShareOf(c, p, n) = w
        BY <1>3 DEF ShareOf
      <4> QED
        BY <4>1, <4>2 DEF Share
    <3>4. Share(p, n)[c] <= Total(Share(p, n)) /\ Total(Share(p, n)) \in Nat
      BY <2>2, <3>3, TotalType
    <3> QED
      BY <2>1, <3>1, <3>2, <3>3, <3>4
  <2>8. Elements!Hand(p)
    BY <1>1, <1>3, <2>6, <2>7 DEF Elements!Hand
  <2> QED
    BY <2>8 DEF Elements!Next
<1> QED
  BY <1>2, <1>3, DequeueSteps

\* Each step is one of what a blocking queue promises, or none.
LEMMA StepImplements == IInv /\ IInv' /\ [Next]_vars => [Elements!Next]_Elements!vars
<1> SUFFICES ASSUME IInv, IInv', [Next]_vars PROVE [Elements!Next]_Elements!vars
  OBVIOUS
<1>t. Types /\ KnowsItsCall /\ Covered /\ Balanced /\ Types'
  BY DEF IInv, Races
<1>n. /\ Total(left) \in Nat /\ Total(Unsignalled) \in Nat /\ Total(Posts) \in Nat /\ Total(Sleepers) \in Nat
      /\ count \in Int /\ sema \in Nat
  BY <1>t, SumTypes DEF SumsAreNumbers, Types, SemaphoreTypes
<1>b. Total(Sleepers) = sema + Total(Posts) + (IF 0 > -count THEN 0 ELSE -count)
  BY <1>t DEF Balanced, Largest
<1>q. ASSUME UNCHANGED <<tailIndex, headIndex, left>> PROVE [Elements!Next]_Elements!vars
  BY <1>q DEF Elements!vars, Promised
<1>l. ASSUME NEW n \in Nat, UNCHANGED <<tailIndex, headIndex>>, Total(left') = Total(left) + n,
             n <= Total(Unsignalled) + count + Total(Sleepers)
      PROVE  [Elements!Next]_Elements!vars
  BY <1>l, <1>t, LetHave
<1>1. ASSUME NEW p \in Producers, Enqueue(p) \/ EnqueueInner(p) \/ AddCount(p) \/ Post(p)
      PROVE  [Elements!Next]_Elements!vars
  <2>1. UNCHANGED <<headIndex, left>> /\ (~Publish(p) => UNCHANGED tailIndex)
    BY <1>1, <1>t, EnqueueSteps
  <2>2. CASE ~Publish(p)
    BY <1>q, <2>1, <2>2
  <2>3. CASE Publish(p)
    <3>1. tailIndex' = [tailIndex EXCEPT ![p] = tailIndex[p] + filling[p].count]
      BY <2>3 DEF Publish
    <3>2. tailIndex \in [Producers -> Nat] /\ tailIndex[p] \in Nat /\ filling[p].count \in Nat
      BY <1>t DEF Types, CounterTypes, FillingTypes
    <3>3. CASE filling[p].count = 0
      <4>1. tailIndex' = tailIndex
        BY <3>1, <3>2, <3>3
      <4> QED
        BY <1>q, <2>1, <4>1
    <3>4. CASE filling[p].count > 0
      <4>1. tailIndex'[p] = tailIndex[p] + filling[p].count
        BY <3>1, <3>2
      <4>2. tailIndex'[p] > tailIndex[p]
        BY <3>2, <3>4, <4>1
      <4>3. tailIndex' = [tailIndex EXCEPT ![p] = tailIndex'[p]]
        BY <3>1, <4>1
      <4>4. Elements!Enqueue(p)
        BY <2>1, <4>2, <4>3 DEF Elements!Enqueue, Promised
      <4> QED
        BY <4>4 DEF Elements!Next
    <3> QED
      BY <3>2, <3>3, <3>4
  <2> QED
    BY <2>2, <2>3
<1>2. ASSUME NEW c \in Consumers, TryWait(c) PROVE [Elements!Next]_Elements!vars
  <2>1. PICK n \in Nat : n <= count /\ Changes(n, 0, -n, 0)
    BY <1>2, <1>t, SemaphoreSteps
  <2>2. UNCHANGED <<tailIndex, headIndex>> /\ Total(left') = Total(left) + n
    BY <1>2, <2>1, SemaphoreKeeps DEF Changes
  <2>3. n <= Total(Unsignalled) + count + Total(Sleepers)
    BY <1>n, <2>1
  <2> QED
    BY <1>l, <2>2, <2>3
<1>3. ASSUME NEW c \in Consumers, GoToSleep(c) PROVE [Elements!Next]_Elements!vars
  <2>1. IF count > 0 THEN Changes(1, 0, -1, 0) ELSE Changes(0, 1, -1, 0)
    BY <1>3, <1>t, SemaphoreSteps
  <2>2. UNCHANGED <<tailIndex, headIndex>>
    BY <1>3, SemaphoreKeeps
  <2>3. CASE count > 0
    <3>1. Total(left') = Total(left) + 1
      BY <2>1, <2>3 DEF Changes
    <3>2. 1 <= Total(Unsignalled) + count + Total(Sleepers)
      BY <1>n, <2>3
    <3> QED
      BY <1>l, <2>2, <3>1, <3>2
  <2>4. CASE ~(count > 0)
    <3>1. left' = left
      BY <1>3, <2>4 DEF GoToSleep
    <3> QED
      BY <1>q, <2>2, <3>1
  <2> QED
    BY <2>3, <2>4
<1>4. ASSUME NEW c \in Consumers, WakeUp(c) PROVE [Elements!Next]_Elements!vars
  <2>1. sema > 0 /\ Changes(1, -1, 0, -1)
    BY <1>4, <1>t, SemaphoreSteps
  <2>2. UNCHANGED <<tailIndex, headIndex>> /\ Total(left') = Total(left) + 1
    BY <1>4, <2>1, SemaphoreKeeps DEF Changes
  <2>3. 1 <= Total(Unsignalled) + count + Total(Sleepers)
    BY <1>b, <1>n, <2>1
  <2> QED
    BY <1>l, <2>2, <2>3
<1>5. ASSUME NEW c \in Consumers, More(c) PROVE [Elements!Next]_Elements!vars
  <2>1. PICK n \in Nat : n <= Largest(count, 0) /\ Changes(n, 0, -n, 0)
    BY <1>5, <1>t, SemaphoreSteps
  <2>2. UNCHANGED <<tailIndex, headIndex>> /\ Total(left') = Total(left) + n
    BY <1>5, <2>1, SemaphoreKeeps DEF Changes
  <2>3. n <= (IF count > 0 THEN count ELSE 0)
    BY <2>1 DEF Largest
  <2>4. n <= Total(Unsignalled) + count + Total(Sleepers)
    BY <1>b, <1>n, <2>3
  <2> QED
    BY <1>l, <2>2, <2>4
<1>6. ASSUME NEW c \in Consumers,
             NothingToTry(c) \/ TimeOut(c) \/ SeesSignal(c) \/ NotPostedYet(c) \/ Withdraw(c)
      PROVE  [Elements!Next]_Elements!vars
  <2>1. UNCHANGED <<tailIndex, headIndex>>
    BY <1>6, SemaphoreKeeps
  <2>2. left' = left
    BY <1>6 DEF NothingToTry, TimeOut, SeesSignal, NotPostedYet, Withdraw
  <2> QED
    BY <1>q, <2>1, <2>2
<1>7. ASSUME NEW c \in Consumers, DequeueInner(c) PROVE [Elements!Next]_Elements!vars
  BY <1>7, <1>t, ClaimHands
<1>8. ASSUME NEW c \in Consumers, AskProducer(c) PROVE [Elements!Next]_Elements!vars
  BY <1>8, <1>q DEF AskProducer, ReadTail, counters
<1>9. CASE UNCHANGED vars
  BY <1>9, <1>q DEF vars, queueVars, counters
<1> QED
  BY <1>1, <1>2, <1>3, <1>4, <1>5, <1>6, <1>7, <1>8, <1>9 DEF Next

\* A blocking queue does what a hand-over of elements promises: each producer's elements in
\* order and once, and enough of them for whoever the semaphore has let in.
THEOREM QueueImplementsHandOver == Spec => ImplementsHandOver
<1>1. Init => Elements!Init
  <2> SUFFICES ASSUME Init PROVE Elements!Init
    OBVIOUS
  <2>1. tailIndex = [p \in Producers |-> 0] /\ headIndex = [p \in Producers |-> 0] /\ left = [c \in Consumers |-> 0]
    BY DEF Init, InitQueue
  <2>2. left \in [Consumers -> Nat] /\ \A c \in Consumers : left[c] = 0
    BY <2>1
  <2>3. Promised = 0
    BY <2>2, TotalZero DEF Promised
  <2> QED
    BY <2>1, <2>3 DEF Elements!Init
<1>2. IInv /\ IInv' /\ [Next]_vars => [Elements!Next]_Elements!vars
  BY StepImplements
<1>3. Spec => []IInv
  BY IInvHolds
<1> QED
  BY <1>1, <1>2, <1>3, PTL DEF Spec, ImplementsHandOver, Elements!Spec

==================================================================================
