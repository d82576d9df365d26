------------------------------ MODULE ChannelProofs ------------------------------
(***************************************************************************)
(* Theorems about the channel, for any threads, programs and room: types,  *)
(* that a send returns only when it may, and whose element fills a queue.  *)
(***************************************************************************)
EXTENDS Channel, FiniteSetTheorems, SequenceTheorems, TLAPS

(* The inductive invariant.                                                    *)

Places == {"start", "begin", "announce", "end", "last", "recv", "tell begin", "tell end", "tried"}
Elements == Threads \X Nat

\* Types.
Typed ==
  /\ room \in Nat /\ calls \in [Threads -> Seq(Operations)] /\ at \in [Threads -> Places]
  /\ waiting \subseteq Threads /\ queue \in Seq(Elements)
  /\ sendDone \in BOOLEAN /\ trySendDone \in BOOLEAN /\ recvReady \in BOOLEAN

\* A thread is in the middle of the call that its place belongs to.
Called(th) ==
  /\ at[th] \in {"begin", "announce", "end", "last"} => In(th, {"send"})
  /\ at[th] = "recv" => In(th, {"recv"})
  /\ at[th] # "start" => ~Done(th)
  /\ th \in waiting => at[th] \in {"begin", "end", "recv"}

\* A thread in send() that m_is_send_done stands for, and a receiver to be notified.
Sending(th) == at[th] \in {"announce", "end"}
Awaited     == \E th \in Threads : at[th] = "recv"

\* m_is_send_done is the lock of blocking sends.
OneSend ==
  /\ sendDone <=> \A th \in Threads : ~Sending(th)
  /\ \A th, u \in Threads : Sending(th) /\ Sending(u) => th = u
  /\ trySendDone \/ sendDone

\* Why a queue is full: the last element is of a send under way, or of a nonblocking
\* one that has found a receiver waiting.
WhyFull ==
  /\ Len(queue) <= room + 1
  /\ Full /\ trySendDone => ~sendDone
  /\ \A th \in Threads : Full /\ Sending(th) => queue[Len(queue)] = Element(th)
  /\ ~trySendDone => Awaited
  /\ recvReady => Awaited

IInv == Typed /\ OneSend /\ WhyFull /\ \A th \in Threads : Called(th)
--------------------------------------------------------------------------------
\* The channel starts with an empty queue, nobody inside and the flags in place.
LEMMA Initially == Init => IInv
<1> SUFFICES ASSUME Init PROVE IInv
  OBVIOUS
<1>1. Typed
  <2>1. PICK p \in Programs : room = p.room /\ calls = p.calls
    BY DEF Init
  <2>2. room \in Nat /\ calls \in [Threads -> Seq(Operations)]
    BY <2>1, ChannelAssumption
  <2>3. queue \in Seq(Elements)
    BY DEF Init
  <2> QED
    BY <2>2, <2>3 DEF Init, Typed, Places
<1>2. OneSend /\ WhyFull
  BY <1>1 DEF Init, OneSend, WhyFull, Typed, Sending, Full
<1>3. \A th \in Threads : Called(th)
  BY DEF Init, Called
<1> QED
  BY <1>1, <1>2, <1>3 DEF IInv

\* The front of a queue is taken away.
LEMMA Rest ==
  ASSUME NEW S, NEW s \in Seq(S), s # <<>>
  PROVE  Tail(s) \in Seq(S) /\ Len(Tail(s)) = Len(s) - 1 /\ Len(s) \in Nat
BY HeadTailProperties, LenProperties

\* A notification wakes, it puts nobody to sleep.
LEMMA Waiters ==
  ASSUME NEW q, Notify(q), waiting \subseteq Threads
  PROVE  waiting' \subseteq waiting
BY DEF Notify

\* A call that changes nothing but how far its thread is returns.
LEMMA CallReturns ==
  ASSUME IInv, NEW th \in Threads, ~Done(th), at[th] \notin {"announce", "end", "recv"},
         th \in waiting => at[th] \notin {"begin"},
         waiting' \subseteq waiting,
         at' = [at EXCEPT ![th] = "start"], calls' = [calls EXCEPT ![th] = Tail(@)],
         UNCHANGED <<room, queue, sendDone, trySendDone, recvReady>>
  PROVE  IInv'
<1> USE DEF IInv
<1>0. Typed /\ OneSend /\ WhyFull /\ \A u \in Threads : Called(u)
  OBVIOUS
<1>1. calls[th] # <<>> /\ calls[th] \in Seq(Operations)
  BY DEF Done, Typed
<1>2. Tail(calls[th]) \in Seq(Operations)
  BY <1>1, Rest
<1>3. Typed'
  BY <1>0, <1>2 DEF Typed, Places
<1>4. \A u \in Threads : (Sending(u)' <=> Sending(u)) /\ (at'[u] = "recv" <=> at[u] = "recv")
  BY <1>0 DEF Typed, Sending
<1>5. OneSend'
  BY <1>0, <1>4 DEF OneSend
<1>6. \A u \in Threads : Sending(u) => Element(u)' = Element(u)
  BY <1>0 DEF Sending, Element, Typed
<1>7. WhyFull'
  BY <1>0, <1>4, <1>6 DEF WhyFull, Awaited, Full
<1>8. ASSUME NEW u \in Threads PROVE Called(u)'
  <2>1. CASE u = th
    BY <1>0, <2>1 DEF Called, Typed
  <2>2. CASE u # th
    <3>1. at'[u] = at[u] /\ calls'[u] = calls[u]
      BY <1>0, <2>2 DEF Typed
    <3> QED
      BY <1>0, <3>1 DEF Called, In, Done
  <2> QED
    BY <2>1, <2>2
<1> QED
  BY <1>3, <1>5, <1>7, <1>8

\* The steps of send() keep the invariant.
LEMMA SendSteps ==
  ASSUME IInv, NEW th \in Threads, Enqueue(th) \/ Announce(th) \/ Confirm(th) \/ NextSender(th)
  PROVE  IInv'
<1> USE DEF IInv
<1>0. /\ Typed /\ OneSend /\ WhyFull /\ \A u \in Threads : Called(u)
      /\ Len(queue) \in Nat /\ room \in Nat
  BY DEF Typed
<1>1. CASE Enqueue(th) /\ MaySend
  <2> DEFINE e == Element(th)
  <2>1. /\ queue' = Append(queue, e) /\ sendDone' = FALSE /\ calls' = calls /\ room' = room
        /\ at' = [at EXCEPT ![th] = "announce"] /\ waiting' = waiting /\ trySendDone' = trySendDone
        /\ recvReady' = recvReady /\ sendDone /\ trySendDone /\ ~Full /\ In(th, {"send"})
        /\ th \notin waiting /\ at[th] \in {"start", "begin"}
    BY <1>1 DEF Enqueue, MaySend, Go, Ready
  <2>2. e \in Elements
    BY <1>0 DEF Typed, Element, Elements
  <2>3. /\ queue' \in Seq(Elements) /\ Len(queue') = Len(queue) + 1 /\ queue'[Len(queue')] = e
    BY <1>0, <2>1, <2>2, AppendProperties DEF Typed
  <2>4. Typed'
    BY <1>0, <2>1, <2>3 DEF Typed, Places
  <2>5. OneSend'
    BY <1>0, <2>1 DEF OneSend, Sending, Typed
  <2>6. WhyFull'
    <3>1. \A u \in Threads : at[u] = "recv" => at'[u] = "recv"
      BY <1>0, <2>1 DEF Typed
    <3>2. Awaited => Awaited'
      BY <3>1 DEF Awaited
    <3>3. \A u \in Threads : Sending(u)' => u = th
      BY <1>0, <2>1 DEF OneSend, Sending, Typed
    <3>4. e' = e
      BY <2>1 DEF Element
    <3> HIDE DEF e
    <3>5. Len(queue) <= room
      BY <1>0, <2>1 DEF Full
    <3>6. \A u \in Threads : (Full /\ Sending(u) => queue[Len(queue)] = Element(u))'
      BY <2>3, <3>3, <3>4 DEF e
    <3> QED
      BY <1>0, <2>1, <2>3, <3>2, <3>5, <3>6 DEF WhyFull
  <2>7. ASSUME NEW u \in Threads PROVE Called(u)'
    BY <1>0, <2>1 DEF Called, Typed, In, Done
  <2> QED
    BY <2>4, <2>5, <2>6, <2>7
<1>2. CASE Enqueue(th) /\ ~MaySend
  <2>1. /\ UNCHANGED <<queue, sendDone, calls, room, trySendDone, recvReady>>
        /\ at' = [at EXCEPT ![th] = "begin"] /\ waiting' = waiting \cup {th}
        /\ In(th, {"send"}) /\ at[th] \in {"start", "begin"}
    BY <1>2 DEF Enqueue, Block, Ready
  <2>2. Typed'
    BY <1>0, <2>1 DEF Typed, Places
  <2>3. \A u \in Threads : (Sending(u)' <=> Sending(u)) /\ (at'[u] = "recv" <=> at[u] = "recv")
    BY <1>0, <2>1 DEF Typed, Sending
  <2>4. OneSend'
    BY <1>0, <2>1, <2>3 DEF OneSend
  <2>5. WhyFull'
    BY <1>0, <2>1, <2>3 DEF WhyFull, Awaited, Full, Element
  <2>6. ASSUME NEW u \in Threads PROVE Called(u)'
    BY <1>0, <2>1 DEF Called, Typed, In, Done
  <2> QED
    BY <2>2, <2>4, <2>5, <2>6
<1>3. CASE Announce(th) \/ (Confirm(th) /\ Full)
  <2>1. /\ UNCHANGED <<queue, sendDone, calls, room, trySendDone, recvReady>>
        /\ at' = [at EXCEPT ![th] = "end"] /\ waiting' \subseteq waiting \cup {th}
        /\ In(th, {"send"}) /\ at[th] \in {"announce", "end"}
    BY <1>0, <1>3, Waiters DEF Announce, Confirm, Block, Ready, flags, Typed
  <2>2. Typed'
    BY <1>0, <2>1 DEF Typed, Places
  <2>3. \A u \in Threads : (Sending(u)' <=> Sending(u)) /\ (at'[u] = "recv" <=> at[u] = "recv")
    BY <1>0, <2>1 DEF Typed, Sending
  <2>4. OneSend'
    BY <1>0, <2>1, <2>3 DEF OneSend
  <2>5. WhyFull'
    BY <1>0, <2>1, <2>3 DEF WhyFull, Awaited, Full, Element
  <2>6. ASSUME NEW u \in Threads PROVE Called(u)'
    BY <1>0, <2>1 DEF Called, Typed, In, Done
  <2> QED
    BY <2>2, <2>4, <2>5, <2>6
<1>4. CASE Confirm(th) /\ ~Full
  <2>1. /\ UNCHANGED <<queue, calls, room, trySendDone, recvReady, waiting>> /\ sendDone' = TRUE
        /\ at' = [at EXCEPT ![th] = "last"] /\ at[th] = "end" /\ In(th, {"send"}) /\ th \notin waiting
    BY <1>4 DEF Confirm, Go, Ready
  <2>2. Typed'
    BY <1>0, <2>1 DEF Typed, Places
  <2>3. \A u \in Threads : ~Sending(u)' /\ (at'[u] = "recv" <=> at[u] = "recv")
    BY <1>0, <2>1 DEF Typed, Sending, OneSend
  <2>4. OneSend'
    BY <2>1, <2>3 DEF OneSend
  <2>5. WhyFull'
    BY <1>0, <1>4, <2>1, <2>3 DEF WhyFull, Awaited, Full
  <2>6. ASSUME NEW u \in Threads PROVE Called(u)'
    BY <1>0, <2>1 DEF Called, Typed, In, Done
  <2> QED
    BY <2>2, <2>4, <2>5, <2>6
<1>5. CASE NextSender(th)
  <2>1. at[th] = "last" /\ ~Done(th)
    BY <1>5 DEF NextSender, In
  <2> QED
    BY <1>0, <1>5, <2>1, Waiters, CallReturns DEF NextSender, flags, Typed
<1> QED
  BY <1>1, <1>2, <1>3, <1>4, <1>5

\* What recv and try_recv_ptr do to the queue.
LEMMA Taken ==
  ASSUME IInv, NEW th \in Threads, TakeFront(th), queue # <<>>, room' = room,
         at[th] \in {"start", "recv"}, th \notin waiting, ~Done(th),
         recvReady' = FALSE \/ (recvReady' = recvReady /\ at[th] = "start")
  PROVE  IInv'
<1> USE DEF IInv
<1>0. Typed /\ OneSend /\ WhyFull /\ \A u \in Threads : Called(u)
  OBVIOUS
<1>1. queue' \in Seq(Elements) /\ Len(queue') = Len(queue) - 1 /\ Len(queue) \in Nat /\ room \in Nat
  BY <1>0, Rest DEF Typed, TakeFront
<1>2. /\ trySendDone' = TRUE /\ sendDone' = sendDone /\ calls' = calls /\ waiting' = waiting
      /\ \E p \in {"tell begin", "tell end"} : at' = [at EXCEPT ![th] = p]
  BY DEF TakeFront, Go, WhomToTell
<1>3. Typed'
  BY <1>0, <1>1, <1>2 DEF Typed, Places
<1>4. \A u \in Threads : (Sending(u)' <=> Sending(u)) /\ (u # th => at'[u] = at[u])
  BY <1>0, <1>2 DEF Typed, Sending
<1>5. OneSend'
  BY <1>0, <1>2, <1>4 DEF OneSend
<1>6. WhyFull'
  <2>1. ~Full'
    BY <1>0, <1>1 DEF WhyFull, Full
  <2>2. recvReady' => Awaited'
    BY <1>0, <1>4 DEF WhyFull, Awaited
  <2>3. Len(queue') <= room' + 1
    BY <1>0, <1>1 DEF WhyFull
  <2>4. trySendDone'
    BY <1>2
  <2> QED
    BY <2>1, <2>2, <2>3, <2>4, Zenon DEF WhyFull
<1>7. ASSUME NEW u \in Threads PROVE Called(u)'
  BY <1>0, <1>2 DEF Called, Typed, In, Done
<1> QED
  BY <1>3, <1>5, <1>6, <1>7

\* The steps of recv() keep the invariant.
LEMMA ReceiveSteps ==
  ASSUME IInv, NEW th \in Threads, Receive(th) \/ TellSender(th)
  PROVE  IInv'
<1> USE DEF IInv
<1>0. Typed /\ OneSend /\ WhyFull /\ \A u \in Threads : Called(u)
  OBVIOUS
<1>1. CASE Receive(th) /\ queue # <<>>
  BY <1>1, Taken DEF Receive, Ready, In
<1>2. CASE Receive(th) /\ queue = <<>>
  <2>1. /\ UNCHANGED <<queue, sendDone, calls, room, trySendDone>>
        /\ at' = [at EXCEPT ![th] = "recv"] /\ waiting' = waiting \cup {th}
        /\ In(th, {"recv"}) /\ at[th] \in {"start", "recv"} /\ recvReady' \in {TRUE, recvReady}
    BY <1>2 DEF Receive, Block, Ready
  <2>2. Typed'
    BY <1>0, <2>1 DEF Typed, Places
  <2>3. \A u \in Threads : (Sending(u)' <=> Sending(u)) /\ (at[u] = "recv" => at'[u] = "recv")
    BY <1>0, <2>1 DEF Typed, Sending
  <2>4. OneSend'
    BY <1>0, <2>1, <2>3 DEF OneSend
  <2>5. Awaited'
    BY <1>0, <2>1 DEF Awaited, Typed
  <2>6. WhyFull'
    BY <1>0, <2>1, <2>3, <2>5 DEF WhyFull, Full, Element
  <2>7. ASSUME NEW u \in Threads PROVE Called(u)'
    BY <1>0, <2>1 DEF Called, Typed, In, Done
  <2> QED
    BY <2>2, <2>4, <2>6, <2>7
<1>3. CASE TellSender(th)
  <2>1. at[th] \in {"tell begin", "tell end"} /\ ~Done(th)
    BY <1>0, <1>3 DEF TellSender, Called
  <2>2. waiting' \subseteq waiting
    BY <1>0, <1>3, Waiters DEF TellSender, Typed
  <2> QED
    BY <1>3, <2>1, <2>2, CallReturns DEF TellSender, flags
<1> QED
  BY <1>1, <1>2, <1>3

\* The tries of select keep the invariant.
LEMMA SelectSteps ==
  ASSUME IInv, NEW th \in Threads,
         TrySend(th) \/ AnnounceTried(th) \/ TryReceive(th) \/ GiveUp(th)
  PROVE  IInv'
<1> USE DEF IInv
<1>0. /\ Typed /\ OneSend /\ WhyFull /\ \A u \in Threads : Called(u)
      /\ Len(queue) \in Nat /\ room \in Nat
  BY DEF Typed
<1>1. CASE TrySend(th) /\ MayTrySend
  <2> DEFINE e == Element(th)
  <2>1. /\ queue' = Append(queue, e) /\ sendDone' = sendDone /\ calls' = calls /\ room' = room
        /\ at' = [at EXCEPT ![th] = "tried"] /\ waiting' = waiting /\ trySendDone' = LeavesRoom
        /\ recvReady' = recvReady /\ sendDone /\ ~Full /\ ~Done(th)
        /\ Len(queue) = room => recvReady
        /\ th \notin waiting /\ at[th] = "start"
    BY <1>1 DEF TrySend, MayTrySend, Go, Ready, In
  <2>2. e \in Elements
    BY <1>0 DEF Typed, Element, Elements
  <2>3. queue' \in Seq(Elements) /\ Len(queue') = Len(queue) + 1
    BY <1>0, <2>1, <2>2, AppendProperties DEF Typed
  <2>4. Typed'
    <3>1. trySendDone' \in BOOLEAN
      <4>1. LeavesRoom \in BOOLEAN
        BY <1>0 DEF LeavesRoom
      <4>2. trySendDone' = LeavesRoom
        BY <2>1
      <4> QED
        BY <4>1, <4>2
    <3> QED
      BY <1>0, <2>1, <2>3, <3>1 DEF Typed, Places
  <2>5. \A u \in Threads : (Sending(u)' <=> Sending(u)) /\ (at'[u] = "recv" <=> at[u] = "recv")
    BY <1>0, <2>1 DEF Typed, Sending
  <2>6. OneSend'
    BY <1>0, <2>1, <2>5 DEF OneSend
  <2>7. WhyFull'
    <3>1. \A u \in Threads : ~Sending(u)'
      BY <1>0, <2>1, <2>5 DEF OneSend
    <3>2. Awaited <=> Awaited'
      BY <2>5 DEF Awaited
    <3>3. Len(queue) <= room
      BY <1>0, <2>1 DEF Full
    <3>4. /\ trySendDone' <=> Len(queue) < room
          /\ Full' <=> Len(queue) = room
      <4>1. trySendDone' <=> LeavesRoom
        BY <2>1, Zenon DEF LeavesRoom
      <4>2. Full' <=> Len(queue) + 1 > room
        BY <2>1, <2>3, Zenon DEF Full
      <4> QED
        BY <1>0, <3>3, <4>1, <4>2 DEF LeavesRoom
    <3> QED
      BY <1>0, <2>1, <2>3, <3>1, <3>2, <3>3, <3>4 DEF WhyFull
  <2>8. ASSUME NEW u \in Threads PROVE Called(u)'
    BY <1>0, <2>1 DEF Called, Typed, In, Done
  <2> QED
    BY <2>4, <2>6, <2>7, <2>8
<1>2. CASE (TrySend(th) /\ ~MayTrySend) \/ (TryReceive(th) /\ queue = <<>>)
  <2>1. UNCHANGED <<queue, sendDone, calls, room, trySendDone, recvReady, at, waiting>>
    BY <1>2 DEF TrySend, TryReceive
  <2> QED
    BY <1>0, <2>1 DEF Typed, OneSend, Sending, WhyFull, Awaited, Full, Element, Called, In, Done
<1>3. CASE TryReceive(th) /\ queue # <<>>
  BY <1>3, Taken DEF TryReceive, Ready, In
<1>4. CASE AnnounceTried(th)
  <2>1. at[th] = "tried" /\ ~Done(th)
    BY <1>0, <1>4 DEF AnnounceTried, Called
  <2>2. waiting' \subseteq waiting
    BY <1>0, <1>4, Waiters DEF AnnounceTried, Typed
  <2> QED
    BY <1>4, <2>1, <2>2, CallReturns DEF AnnounceTried, flags
<1>5. CASE GiveUp(th)
  BY <1>5, CallReturns DEF GiveUp, Finish, Ready, In, flags
<1> QED
  BY <1>1, <1>2, <1>3, <1>4, <1>5

\* The invariant always holds.
LEMMA Invariant == Spec => []IInv
<1>1. IInv /\ [Next]_vars => IInv'
  <2> SUFFICES ASSUME IInv, [Next]_vars PROVE IInv'
    OBVIOUS
  <2>1. CASE UNCHANGED vars
    BY <2>1 DEF vars, flags, IInv, Typed, OneSend, Sending, WhyFull, Awaited, Full, Element,
      Called, In, Done
  <2> QED
    BY <2>1, SendSteps, ReceiveSteps, SelectSteps DEF Next, Step
<1> QED
  BY <1>1, Initially, PTL DEF Spec
--------------------------------------------------------------------------------
(* The theorems.                                                               *)

\* The queue is at most one longer than the buffer, a thread waits for a notification only
\* where it tests a guard, and m_is_send_done is false exactly during one send (channel.h).
THEOREM TypeCorrect == Spec => []TypeOK
<1>1. IInv => TypeOK
  <2> SUFFICES ASSUME IInv PROVE TypeOK
    OBVIOUS
  <2>1. UnderWay = {th \in Threads : Sending(th)}
    BY DEF IInv, Called, UnderWay, SendCalls, Sending, In
  <2>2. Cardinality(UnderWay) <= 1
    <3>1. CASE UnderWay = {}
      BY <3>1, FS_EmptySet
    <3>2. ASSUME NEW th \in UnderWay PROVE Cardinality(UnderWay) <= 1
      <4>1. UnderWay = {th}
        BY <2>1 DEF IInv, OneSend
      <4> QED
        BY <4>1, FS_Singleton
    <3> QED
      BY <3>1, <3>2
  <2>3. sendDone <=> UnderWay = {}
    BY <2>1 DEF IInv, OneSend
  <2> QED
    BY <2>2, <2>3 DEF IInv, Typed, WhyFull, Called, TypeOK
<1> QED
  BY <1>1, Invariant, PTL

\* A send has returned only when its element is one of at most N in the buffer, or a
\* receiver is there to take it (channel.h, send and try_send).
THEOREM SendReturnsLate == Spec => []SentFitsOrIsAwaited
<1>1. IInv => SentFitsOrIsAwaited
  <2> SUFFICES ASSUME IInv PROVE SentFitsOrIsAwaited
    OBVIOUS
  <2> DEFINE returned == {i \in DOMAIN queue : Len(calls[queue[i][1]]) < queue[i][2]}
             awaited  == \E th \in ReceiveCalls : at[th] = "recv"
             n == Len(queue)
  <2>1. /\ n \in Nat /\ room \in Nat /\ n <= room + 1 /\ DOMAIN queue = 1..n
    BY DEF IInv, Typed, WhyFull
  <2>2. Awaited => awaited
    BY DEF IInv, Called, Awaited, ReceiveCalls, In
  <2>3. \A m \in Nat : returned \subseteq 1..m => Cardinality(returned) <= m
    <3> SUFFICES ASSUME NEW m \in Nat, returned \subseteq 1..m
                 PROVE  Cardinality(returned) <= m
      OBVIOUS
    <3> HIDE DEF returned
    <3>1. IsFiniteSet(1..m) /\ Cardinality(1..m) = m
      BY FS_Interval
    <3>2. Cardinality(returned) <= Cardinality(1..m)
      BY <3>1, FS_Subset
    <3> QED
      BY <3>1, <3>2
  <2>4. returned \subseteq 1..n
    BY <2>1
  <2>5. CASE n <= room
    <3>1. Cardinality(returned) <= n /\ Cardinality(returned) \in Nat
      <4> HIDE DEF returned
      <4>1. IsFiniteSet(1..n) /\ n \in Nat
        BY <2>1, FS_Interval
      <4>2. IsFiniteSet(returned)
        BY <2>4, <4>1, FS_Subset
      <4> QED
        BY <2>1, <2>3, <2>4, <4>2, FS_CardinalityType
    <3> QED
      BY <2>1, <2>5, <3>1 DEF SentFitsOrIsAwaited
  <2>6. CASE n = room + 1 /\ awaited
    <3>1. Cardinality(returned) <= n
      BY <2>1, <2>3, <2>4
    <3> QED
      BY <2>6, <3>1 DEF SentFitsOrIsAwaited
  <2>7. CASE n = room + 1 /\ ~awaited
    <3>1. Full /\ trySendDone /\ ~sendDone
      BY <2>1, <2>2, <2>7 DEF IInv, WhyFull, Full
    <3>2. PICK th \in Threads : Sending(th)
      BY <3>1 DEF IInv, OneSend
    <3>3. queue[n] = <<th, Len(calls[th])>>
      BY <3>1, <3>2 DEF IInv, WhyFull, Element
    <3>4. Len(calls[th]) \in Nat
      BY DEF IInv, Typed
    <3>5. n \notin returned
      BY <3>3, <3>4
    <3>6. returned \subseteq 1..room
      BY <2>1, <2>4, <2>7, <3>5
    <3>7. Cardinality(returned) <= room
      BY <2>1, <2>3, <3>6
    <3>8. IF awaited THEN FALSE ELSE TRUE
      BY <2>7
    <3>9. Cardinality(returned) \in Nat
      <4> HIDE DEF returned
      <4>1. IsFiniteSet(1..room)
        BY <2>1, FS_Interval
      <4> QED
        BY <3>6, <4>1, FS_Subset, FS_CardinalityType
    <3> HIDE DEF awaited, returned
    <3>10. Cardinality(returned) <= room + (IF awaited THEN 1 ELSE 0)
      BY <2>1, <2>7, <3>7, <3>9
    <3> QED
      BY <3>10 DEF SentFitsOrIsAwaited, awaited, returned
  <2> HIDE DEF returned, awaited
  <2>8. n <= room \/ n = room + 1
    <3>1. n \in Nat /\ room \in Nat /\ n <= room + 1
      BY <2>1
    <3> HIDE DEF n
    <3> QED
      BY <3>1
  <2> QED
    BY <2>5, <2>6, <2>7, <2>8, Zenon
<1> QED
  BY <1>1, Invariant, PTL

\* The last element of a full queue is of a send under way or of a nonblocking send that a
\* receiver waits for, and no two such sends go on at a time (channel.h:105-113).
THEOREM FullQueueExplained == Spec => []FullQueueHasItsSender
<1>1. IInv => FullQueueHasItsSender
  <2> SUFFICES ASSUME IInv PROVE FullQueueHasItsSender
    OBVIOUS
  <2>1. trySendDone \/ sendDone
    BY DEF IInv, OneSend
  <2>2. CASE Full /\ trySendDone
    <3>1. PICK th \in Threads : Sending(th)
      BY <2>2 DEF IInv, WhyFull, OneSend
    <3>2. queue[Len(queue)] = Element(th)
      BY <2>2, <3>1 DEF IInv, WhyFull
    <3>3. th \in UnderWay
      BY <3>1 DEF IInv, Called, Sending, UnderWay, SendCalls, In
    <3> QED
      BY <2>1, <3>2, <3>3 DEF FullQueueHasItsSender
  <2>3. CASE Full /\ ~trySendDone
    BY <2>1, <2>3 DEF IInv, WhyFull, Awaited, FullQueueHasItsSender
  <2>4. CASE ~Full
    BY <2>1, <2>4 DEF FullQueueHasItsSender
  <2> QED
    BY <2>2, <2>3, <2>4
<1> QED
  BY <1>1, Invariant, PTL
==================================================================================
