--------------------------------- MODULE Channel ---------------------------------
(***************************************************************************)
(* cpp::channel: a channel with room for N elements, as in the language    *)
(* Go, and select, which tries to send or to receive without blocking.     *)
(*                                                                         *)
(* A step is what a thread does while it owns m_mutex, or a notification,  *)
(* which the code issues after it has unlocked. A thread waits on a        *)
(* condition variable at "begin", "end" or "recv"; one that was notified   *)
(* stays there but is in waiting no more, and tests its guard when it has  *)
(* the mutex again. Other threads may have it first.                       *)
(*                                                                         *)
(* An assertion that fails changes nothing here: a build with NDEBUG goes  *)
(* on, and a run is not cut short where another build would end it.        *)
(***************************************************************************)
EXTENDS Naturals, Sequences, FiniteSets

CONSTANTS
  Threads,
  Programs   \* bound: what the threads do, and the N of the channel: records with fields
             \* room and calls, which has for each thread a sequence of Operations

\* try_send and try_recv are called until they succeed, as select::wait does, or
\* perhaps given up before, as select::try_once does.
Operations == {"send", "recv", "select send", "select recv", "offer", "poll"}

ASSUME ChannelAssumption ==
  \A p \in Programs : p.room \in Nat /\ p.calls \in [Threads -> Seq(Operations)]

VARIABLES
  room,     \* N
  calls,    \* what a thread still has to call, the current call first
  at,       \* where it is in that call
  waiting,  \* the threads that a condition variable has not been notified for
  queue,    \* m_queue, each element named after its sender and the call
  sendDone, trySendDone, recvReady, trySendReady, tryRecvReady

flags == <<sendDone, trySendDone, recvReady, trySendReady, tryRecvReady>>
vars  == <<room, calls, at, waiting, queue, flags>>

Init ==
  /\ \E p \in Programs : room = p.room /\ calls = p.calls
  /\ at = [th \in Threads |-> "start"] /\ waiting = {} /\ queue = <<>>
  /\ sendDone = TRUE /\ trySendDone = TRUE
  /\ recvReady = FALSE /\ trySendReady = FALSE /\ tryRecvReady = FALSE

Done(th)  == calls[th] = <<>>
In(th, o) == ~Done(th) /\ Head(calls[th]) \in o
Full      == Len(queue) > room
Element(th) == <<th, Len(calls[th])>>

\* th can enter a critical section at the place p.
Ready(th, p) == at[th] = p /\ th \notin waiting

Go(th, p)   == at' = [at EXCEPT ![th] = p] /\ UNCHANGED <<calls, waiting>>
Block(th, p) == at' = [at EXCEPT ![th] = p] /\ waiting' = waiting \cup {th} /\ UNCHANGED calls
Finish(th)  == /\ at' = [at EXCEPT ![th] = "start"]
               /\ calls' = [calls EXCEPT ![th] = Tail(@)] /\ UNCHANGED waiting

\* notify_one on the condition variable that threads wait on at p.
Notify(p) ==
  \/ \E th \in waiting : at[th] = p /\ waiting' = waiting \ {th}
  \/ (\A th \in waiting : at[th] # p) /\ UNCHANGED waiting
--------------------------------------------------------------------------------
(* Faulty variants of steps below, each a slip the code could have had.          *)

\* A send does not wait for the one before it to end.
MaySendAhead == trySendDone /\ ~Full

\* A nonblocking send that fills the queue lets other senders go on.
LeavesFullQueue == Len(queue) <= room

\* A nonblocking send to a full buffer does not need a receiver.
NeedsNoReceiver == sendDone /\ trySendDone /\ ~Full

\* Whoever waits, it is the sender of an element that is notified.
AlwaysEnd == "tell end"
--------------------------------------------------------------------------------
(* send.                                                                       *)

MaySend == sendDone /\ trySendDone /\ ~Full

Enqueue(th) ==
  /\ In(th, {"send"}) /\ (Ready(th, "start") \/ Ready(th, "begin"))
  /\ IF MaySend
     THEN /\ queue' = Append(queue, Element(th)) /\ sendDone' = FALSE
          /\ Go(th, "announce")
     ELSE Block(th, "begin") /\ UNCHANGED <<queue, sendDone>>
  /\ UNCHANGED <<room, trySendDone, recvReady, trySendReady, tryRecvReady>>

Announce(th) ==
  /\ In(th, {"send"}) /\ at[th] = "announce"
  /\ Notify("recv") /\ at' = [at EXCEPT ![th] = "end"]
  /\ UNCHANGED <<room, calls, queue, flags>>

\* send waits until its element has been received or fits into the buffer.
Confirm(th) ==
  /\ In(th, {"send"}) /\ Ready(th, "end")
  /\ IF Full
     THEN Block(th, "end") /\ UNCHANGED sendDone
     ELSE sendDone' = TRUE /\ Go(th, "last")
  /\ UNCHANGED <<room, queue, trySendDone, recvReady, trySendReady, tryRecvReady>>

NextSender(th) ==
  /\ In(th, {"send"}) /\ at[th] = "last"
  /\ Notify("begin")
  /\ at' = [at EXCEPT ![th] = "start"] /\ calls' = [calls EXCEPT ![th] = Tail(@)]
  /\ UNCHANGED <<room, queue, flags>>
--------------------------------------------------------------------------------
(* recv, and what it has in common with try_recv_ptr.                          *)

\* The sender that waits for its element, or else one that waits to begin.
WhomToTell == IF sendDone THEN "tell begin" ELSE "tell end"

TakeFront(th) ==
  /\ queue' = Tail(queue) /\ trySendDone' = TRUE
  /\ tryRecvReady' = FALSE /\ trySendReady' = FALSE /\ UNCHANGED sendDone
  /\ Go(th, WhomToTell)

Receive(th) ==
  /\ In(th, {"recv"}) /\ (Ready(th, "start") \/ Ready(th, "recv"))
  /\ IF queue = <<>>
     THEN /\ Block(th, "recv")
          /\ recvReady' = IF at[th] = "start" THEN TRUE ELSE recvReady
          /\ UNCHANGED <<queue, sendDone, trySendDone, trySendReady, tryRecvReady>>
     ELSE TakeFront(th) /\ recvReady' = FALSE
  /\ UNCHANGED room

TellSender(th) ==
  /\ \/ at[th] = "tell begin" /\ Notify("begin")
     \/ at[th] = "tell end" /\ Notify("end")
  /\ at' = [at EXCEPT ![th] = "start"] /\ calls' = [calls EXCEPT ![th] = Tail(@)]
  /\ UNCHANGED <<room, queue, flags>>
--------------------------------------------------------------------------------
(* select.                                                                     *)

\* If the element would block a sender, there must be a receiver that waits.
MayTrySend == sendDone /\ trySendDone /\ ~Full /\ (Len(queue) = room => recvReady)

\* Otherwise senders are held up until a receiver has come.
LeavesRoom == Len(queue) < room

TrySend(th) ==
  /\ In(th, {"select send", "offer"}) /\ Ready(th, "start")
  /\ trySendReady' = TRUE
  /\ IF MayTrySend
     THEN /\ trySendDone' = LeavesRoom /\ queue' = Append(queue, Element(th))
          /\ Go(th, "tried")
     ELSE UNCHANGED <<trySendDone, queue, at, calls, waiting>>
  /\ UNCHANGED <<room, sendDone, recvReady, tryRecvReady>>

AnnounceTried(th) ==
  /\ at[th] = "tried" /\ Notify("recv")
  /\ at' = [at EXCEPT ![th] = "start"] /\ calls' = [calls EXCEPT ![th] = Tail(@)]
  /\ UNCHANGED <<room, queue, flags>>

TryReceive(th) ==
  /\ In(th, {"select recv", "poll"}) /\ Ready(th, "start")
  /\ IF queue = <<>>
     THEN tryRecvReady' = TRUE
          /\ UNCHANGED <<at, calls, waiting, queue, sendDone, trySendDone, trySendReady>>
     ELSE TakeFront(th)
  /\ UNCHANGED <<room, recvReady>>

\* try_once has tried all its cases.
GiveUp(th) ==
  /\ In(th, {"offer", "poll"}) /\ Ready(th, "start") /\ Finish(th)
  /\ UNCHANGED <<room, queue, flags>>

Step(th) ==
  \/ Enqueue(th) \/ Announce(th) \/ Confirm(th) \/ NextSender(th) \/ Receive(th)
  \/ TellSender(th) \/ TrySend(th) \/ AnnounceTried(th) \/ TryReceive(th) \/ GiveUp(th)

Next == \E th \in Threads : Step(th)

Spec == Init /\ [][Next]_vars

\* Threads run on; one that tries again and again gets the mutex now and then.
FairSpec == Spec /\ \A th \in Threads : WF_vars(Step(th)) /\ SF_vars(TrySend(th) /\ MayTrySend)
                                        /\ SF_vars(TryReceive(th) /\ queue # <<>>)
--------------------------------------------------------------------------------
(* Properties.                                                                 *)

SendCalls    == {th \in Threads : In(th, {"send", "select send", "offer"})}
ReceiveCalls == {th \in Threads : In(th, {"recv", "select recv", "poll"})}
UnderWay     == {th \in SendCalls : at[th] \in {"announce", "end"}}

\* The queue is at most one longer than the buffer, m_is_send_done says whether a
\* blocking send is under way, and there is never more than one.
TypeOK ==
  /\ Len(queue) <= room + 1 /\ waiting \subseteq Threads
  /\ \A th \in waiting : at[th] \in {"begin", "end", "recv"}
  /\ Cardinality(UnderWay) <= 1 /\ (sendDone <=> UnderWay = {})

\* A full queue has a sender that answers for its last element: "either a _send() waiting for
\* m_send_end_cv, or try_send() has just enqueued an element" (channel.h:105), and then a
\* receiver waits for it. The two never occur simultaneously. The assertions at 110, 113,
\* 727 and 730 follow, and the choice of the thread to notify relies on them.
FullQueueHasItsSender ==
  /\ queue # <<>> => trySendDone \/ sendDone
  /\ Full => \/ \E th \in UnderWay : queue[Len(queue)] = Element(th)
             \/ ~trySendDone /\ \E th \in Threads : at[th] = "recv"

\* A send is over when its element is one of at most N in the buffer; only a
\* nonblocking send may leave one more, for a receiver that is there to take it.
SentFitsOrIsAwaited ==
  LET returned == {i \in DOMAIN queue : Len(calls[queue[i][1]]) < queue[i][2]}
      awaited  == \E th \in ReceiveCalls : at[th] = "recv"
  IN Cardinality(returned) <= room + (IF awaited THEN 1 ELSE 0)

\* No notification is lost: in the end nobody receives while there is an element, nobody waits
\* to send into a buffer with room, and receivers and senders are not left together, but
\* for an unbuffered channel: a select there does not see the receivers that wait, once one
\* that has received has cleared m_is_recv_ready for all of them (channel.h:118, 681).
CallsEndUnlessUnheard ==
  <>[](/\ ReceiveCalls # {} =>
            /\ queue = <<>>
            /\ SendCalls # {} => room = 0 /\ ~recvReady
       /\ SendCalls # {} => Len(queue) >= room
       /\ \A th \in SendCalls : In(th, {"send"}) => Full)
================================================================================
