------------------------------ MODULE BlockingQueue ------------------------------
(***************************************************************************)
(* moodycamel::BlockingConcurrentQueue: a ConcurrentQueue, and a           *)
(* LightweightSemaphore whose count is how many elements may be taken or,  *)
(* when it is negative, how many consumers have gone to sleep. Consumers   *)
(* first take from the semaphore, then look for as many elements in the    *)
(* queues of the producers, again and again until they have found them.    *)
(***************************************************************************)
EXTENDS ConcurrentQueue, Totals

CONSTANTS
  ToEnqueue,    \* bound: the enqueue calls of a producer, in order: how many elements each
  ToDequeue,    \* bound: the dequeue calls of a consumer: [max, mode]
  MostAdded     \* bound: how far dequeueOptimisticCount of a producer is counted

ASSUME CallsAssumption ==
  /\ IsFiniteSet(Producers) /\ IsFiniteSet(Consumers)
  /\ ToEnqueue \in [Producers -> Seq(Nat)]
  /\ ToDequeue \in [Consumers -> Seq([max : Nat \ {0}, mode : {"try", "timed", "wait"}])]

VARIABLES
  toEnqueue, toDequeue,   \* the calls still to be made, those that are being made included
  count, sema,            \* m_count and m_sema of the semaphore
  place,                  \* where in the semaphore a consumer is
  left,                   \* how many elements it still has to find
  untried                 \* the producers it has not asked in this round

semaphore == <<count, sema, place>>
vars == <<queueVars, toEnqueue, toDequeue, semaphore, left, untried>>

Init ==
  /\ InitQueue
  /\ toEnqueue = ToEnqueue /\ toDequeue = ToDequeue
  /\ count = 0 /\ sema = 0 /\ place = [c \in Consumers |-> "out"]
  /\ left = [c \in Consumers |-> 0] /\ untried = [c \in Consumers |-> {}]

Largest(m, n) == IF m > n THEN m ELSE n
Call(c)       == Head(toDequeue[c])
MayTake(n)    == Smaller(Largest(count, 0), n)         \* what tryWaitMany(n) takes
--------------------------------------------------------------------------------
(* Faulty variants of steps below, each a slip the code could have had.          *)

\* A bulk enqueue wakes one sleeping consumer only.
AddCountOnce(p) ==
  /\ filling[p].at = "published"
  /\ count' = count + filling[p].count
  /\ filling' = [filling EXCEPT ![p] =
       IF count < 0 THEN [NotFilling EXCEPT !.at = "post", !.count = 1] ELSE NotFilling]
  /\ UNCHANGED <<counters, memory, taking, sees, toEnqueue, toDequeue, sema, place, left, untried>>
--------------------------------------------------------------------------------
(* enqueue, try_enqueue and the bulk ones. Only who has enqueued signals.          *)

Enqueue(p) ==
  /\ toEnqueue[p] # <<>> /\ Begin(p, Head(toEnqueue[p]))
  /\ toEnqueue' = [toEnqueue EXCEPT ![p] = Tail(@)]
  /\ UNCHANGED <<toDequeue, semaphore, left, untried>>

EnqueueInner(p) ==
  Enqueuing(p) /\ UNCHANGED <<toEnqueue, toDequeue, semaphore, left, untried>>

\* signal(): a sleeper is counted in m_count, and each that may go on is posted for.
AddCount(p) ==
  LET release == Largest(0, Smaller(-count, filling[p].count)) IN
  /\ filling[p].at = "published"
  /\ count' = count + filling[p].count
  /\ filling' = [filling EXCEPT ![p] =
       IF release > 0 THEN [NotFilling EXCEPT !.at = "post", !.count = release] ELSE NotFilling]
  /\ UNCHANGED <<counters, memory, taking, sees, toEnqueue, toDequeue, sema, place, left, untried>>

Post(p) ==
  /\ filling[p].at = "post"
  /\ sema' = sema + 1
  /\ filling' = IF filling[p].count > 1 THEN [filling EXCEPT ![p].count = @ - 1]
                                        ELSE [filling EXCEPT ![p] = NotFilling]
  /\ UNCHANGED <<counters, memory, taking, sees, toEnqueue, toDequeue, count, place, left, untried>>
--------------------------------------------------------------------------------
(* The semaphore's side of try_dequeue, wait_dequeue, their timed and bulk ones.   *)

Asks(c) ==
  /\ place[c] = "out" /\ toDequeue[c] # <<>> /\ left[c] = 0 /\ taking[c] = NotTaking

\* The semaphore lets the consumer have n elements, and its call goes on in the queue.
Grant(c, n) ==
  /\ left' = [left EXCEPT ![c] = n] /\ untried' = [untried EXCEPT ![c] = {}]
  /\ place' = [place EXCEPT ![c] = "out"]
  /\ toDequeue' = [toDequeue EXCEPT ![c] = Tail(@)]

\* tryWait and tryWaitMany, and the spinning before a consumer goes to sleep.
TryWait(c) ==
  /\ Asks(c) /\ count > 0
  /\ Grant(c, MayTake(Call(c).max)) /\ count' = count - MayTake(Call(c).max)
  /\ UNCHANGED <<queueVars, toEnqueue, sema>>

NothingToTry(c) ==
  /\ Asks(c) /\ count <= 0 /\ Call(c).mode = "try"
  /\ toDequeue' = [toDequeue EXCEPT ![c] = Tail(@)]
  /\ UNCHANGED <<queueVars, toEnqueue, semaphore, left, untried>>

\* One element, and what more there is for a bulk dequeue.
Granted1(c) ==
  IF Call(c).max > 1
  THEN /\ left' = [left EXCEPT ![c] = 1] /\ place' = [place EXCEPT ![c] = "more"]
       /\ UNCHANGED <<toDequeue, untried>>
  ELSE Grant(c, 1)

GoToSleep(c) ==
  /\ Asks(c) /\ Call(c).mode # "try"
  /\ count' = count - 1
  /\ IF count > 0 THEN Granted1(c)
                  ELSE /\ place' = [place EXCEPT ![c] = "sleep"]
                       /\ UNCHANGED <<left, untried, toDequeue>>
  /\ UNCHANGED <<queueVars, toEnqueue, sema>>

WakeUp(c) ==
  /\ place[c] \in {"sleep", "signalled"} /\ sema > 0
  /\ sema' = sema - 1 /\ Granted1(c)
  /\ UNCHANGED <<queueVars, toEnqueue, count>>

More(c) ==
  /\ place[c] = "more"
  /\ Grant(c, 1 + MayTake(Call(c).max - 1)) /\ count' = count - MayTake(Call(c).max - 1)
  /\ UNCHANGED <<queueVars, toEnqueue, sema>>

TimeOut(c) ==
  /\ place[c] = "sleep" /\ Call(c).mode = "timed"
  /\ place' = [place EXCEPT ![c] = "timed out"]
  /\ UNCHANGED <<queueVars, toEnqueue, toDequeue, count, sema, left, untried>>

\* Who still counts as a sleeper may withdraw; else there is, or will be, a post to take.
Withdraw(c) ==
  /\ place[c] = "timed out" /\ count < 0
  /\ count' = count + 1 /\ place' = [place EXCEPT ![c] = "out"]
  /\ toDequeue' = [toDequeue EXCEPT ![c] = Tail(@)]
  /\ UNCHANGED <<queueVars, toEnqueue, sema, left, untried>>

SeesSignal(c) ==
  /\ place[c] = "timed out" /\ count >= 0
  /\ place' = [place EXCEPT ![c] = "signalled"]
  /\ UNCHANGED <<queueVars, toEnqueue, toDequeue, count, sema, left, untried>>

NotPostedYet(c) ==
  /\ place[c] = "signalled" /\ sema = 0
  /\ place' = [place EXCEPT ![c] = "timed out"]
  /\ UNCHANGED <<queueVars, toEnqueue, toDequeue, count, sema, left, untried>>
--------------------------------------------------------------------------------
(* The queue's side: rounds through the producers.                                 *)

AskProducer(c) ==
  /\ place[c] = "out" /\ left[c] > 0
  /\ \E p \in IF untried[c] = {} THEN Producers ELSE untried[c] :
       /\ ReadTail(c, p, left[c])
       /\ untried' = [untried EXCEPT ![c] = (IF @ = {} THEN Producers ELSE @) \ {p}]
  /\ UNCHANGED <<toEnqueue, toDequeue, semaphore, left>>

DequeueInner(c) ==
  /\ Dequeuing(c)
  /\ taking[c].at = "add" => optimistic[taking[c].from] < MostAdded
  /\ left' = [left EXCEPT ![c] = IF taking[c].at = "claim" THEN @ - taking[c].want ELSE @]
  /\ UNCHANGED <<toEnqueue, toDequeue, semaphore, untried>>

Next ==
  \/ \E p \in Producers : Enqueue(p) \/ EnqueueInner(p) \/ AddCount(p) \/ Post(p)
  \/ \E c \in Consumers :
       \/ TryWait(c) \/ NothingToTry(c) \/ GoToSleep(c) \/ WakeUp(c) \/ More(c)
       \/ TimeOut(c) \/ Withdraw(c) \/ SeesSignal(c) \/ NotPostedYet(c)
       \/ AskProducer(c) \/ DequeueInner(c)

Spec == Init /\ [][Next]_vars
--------------------------------------------------------------------------------
(* Properties.                                                                     *)

Promised == Total(left)

Elements == INSTANCE HandOver
  WITH enqueued <- tailIndex, dequeued <- headIndex, promised <- Promised

\* Elements of a producer are dequeued in their order and each once, and no consumer looks
\* for more elements than there are: what the semaphore has let it have is in the queues
\* whatever other consumers, the ones that have timed out included, have done meanwhile.
ImplementsHandOver == Elements!Spec

\* Who has claimed indices and looked up the block of the first ones finds their elements in it.
\* The comment at concurrentqueue.h:1796 says that there is always room in the block index for a
\* block that is used again: a slot that is still needed is never written to.
ElementsStay ==
  \A c \in Consumers :
    Looked(c) =>
      /\ Found(c) # Nothing
      /\ \A i \in Part(c) :
           slots[Found(c)][i % BlockSize] = Element(taking[c].from, i)

\* That is so as long as no enqueue that had got blocks has been taken back: a block is used
\* again only when no element is left in it and nobody is about to move one out of it, and a
\* slot of the index only for a block ahead of all that are still needed, whatever index a
\* consumer looks in, and however often and how far into an enqueue the index has grown.
ElementsStayUnlessTakenBack == ~takenBack => ElementsStay

\* Nobody is left asleep beside an element that no consumer has been let have, once the
\* producers have finished signalling and all their posts are taken: however many elements
\* one call has enqueued, and whoever has timed out while they were signalled.
NobodySleepsBesideElements ==
  (/\ \E c \in Consumers : place[c] = "sleep"
   /\ sema = 0 /\ \A p \in Producers : filling[p].at \notin {"published", "post"})
  => Total([p \in Producers |-> tailIndex[p] - headIndex[p]]) = Promised
==================================================================================
