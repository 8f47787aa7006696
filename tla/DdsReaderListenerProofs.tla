----------------------- MODULE DdsReaderListenerProofs -----------------------
(***************************************************************************)
(* The subscriber of unitree_sdk2 for any length of its queue and any      *)
(* number of samples: its types, the order of its samples, and that every  *)
(* step of its threads is one of the channel its handler sees.             *)
(***************************************************************************)
EXTENDS DdsReaderListener, TLAPS

\* The inductive invariant: order, and what the destructor has made known.
ListenerInv == TypeOK /\ NewestInOrder /\ QuitKnown

LEMMA InitListenerInv == ListenerAssumption /\ Init => ListenerInv
<1> SUFFICES ASSUME ListenerAssumption, Init PROVE ListenerInv
  OBVIOUS
<1>1. mQueue = <<>> /\ Len(mQueue) = 0 /\ mQueue \in Seq(1 .. MaxSamples)
  BY DEF Init
<1>2. TypeOK
  <2>1. mQuit \in BOOLEAN
    BY DEF Init
  <2>2. QED
    BY <1>1, <2>1 DEF ListenerAssumption, Init, TypeOK
<1>3. NewestInOrder
  BY <1>1 DEF ListenerAssumption, Init, NewestInOrder
<1>4. QuitKnown
  BY DEF Init, QuitKnown
<1>5. QED
  BY <1>2, <1>3, <1>4 DEF ListenerInv

\* A sample put at the end keeps the queue the newest samples in order,
\* whether or not it pushes one out.
LEMMA PutKeeps ==
  ASSUME ListenerAssumption, ListenerInv, Put
  PROVE  ListenerInv'
<1> USE DEF ListenerAssumption
<1>1. /\ mQueue \in Seq(1 .. MaxSamples) /\ Len(mQueue) \in Nat /\ Len(mQueue) <= QueueLen
      /\ arrived \in 0 .. MaxSamples /\ arrived' = arrived + 1 /\ arrived' \in 1 .. MaxSamples
      /\ dataPtr \in 0 .. MaxSamples /\ handled \in 0 .. MaxSamples
      /\ UNCHANGED <<mQuit, dataPtr, dtor, handled>>
  BY DEF ListenerInv, TypeOK, Put
<1> DEFINE room == PushOut(mQueue)
<1>2. /\ room \in Seq(1 .. MaxSamples)
      /\ Len(room) < QueueLen
      /\ \A i \in 1 .. Len(room) : room[i] = arrived - Len(room) + i
  <2>1. CASE Len(mQueue) >= QueueLen
    <3>1. room = Tail(mQueue) /\ mQueue # <<>>
      BY <1>1, <2>1 DEF PushOut
    <3>2. Len(room) = Len(mQueue) - 1 /\ \A i \in 1 .. Len(room) : room[i] = mQueue[i + 1]
      BY <1>1, <3>1
    <3>3. \A i \in 1 .. Len(mQueue) : mQueue[i] = arrived - Len(mQueue) + i
      BY DEF ListenerInv, NewestInOrder
    <3>4. \A i \in 1 .. Len(room) : room[i] = arrived - Len(room) + i
      BY <1>1, <3>2, <3>3
    <3>5. QED
      BY <1>1, <3>1, <3>2, <3>4
  <2>2. CASE Len(mQueue) < QueueLen
    <3>1. room = mQueue
      BY <1>1, <2>2 DEF PushOut
    <3>2. \A i \in 1 .. Len(mQueue) : mQueue[i] = arrived - Len(mQueue) + i
      BY DEF ListenerInv, NewestInOrder
    <3>3. QED
      BY <1>1, <2>2, <3>1, <3>2
  <2>3. QED
    BY <1>1, <2>1, <2>2
<1>3. Len(room) = Len(mQueue) \/ (Len(mQueue) = QueueLen /\ Len(room) = QueueLen - 1)
  <2>1. CASE Len(mQueue) >= QueueLen
    <3>1. Len(mQueue) = QueueLen
      BY <1>1, <2>1
    <3>2. Len(Tail(mQueue)) = QueueLen - 1
      BY <1>1, <3>1
    <3>3. QED
      BY <2>1, <3>1, <3>2 DEF PushOut
  <2>2. CASE ~(Len(mQueue) >= QueueLen)
    BY <2>2 DEF PushOut
  <2>3. QED
    BY <2>1, <2>2
<1>4. mQueue' = Append(room, arrived + 1)
  BY DEF Put, Enqueue
<1> HIDE DEF room
<1>5. /\ mQueue' \in Seq(1 .. MaxSamples)
      /\ Len(mQueue') = Len(room) + 1
      /\ \A i \in 1 .. Len(mQueue') : mQueue'[i] = arrived' - Len(mQueue') + i
  <2>1. mQueue' \in Seq(1 .. MaxSamples) /\ Len(mQueue') = Len(room) + 1 /\ Len(room) \in Nat
    BY <1>1, <1>2, <1>4
  <2>2. ASSUME NEW i \in 1 .. Len(mQueue')
        PROVE  mQueue'[i] = arrived' - Len(mQueue') + i
    <3>1. CASE i = Len(room) + 1
      BY <1>1, <1>2, <1>4, <2>1, <3>1
    <3>2. CASE i \in 1 .. Len(room)
      BY <1>1, <1>2, <1>4, <2>1, <3>2
    <3>3. QED
      BY <2>1, <3>1, <3>2
  <2>3. QED
    BY <2>1, <2>2
<1>6. rlsnr' = Notify /\ (rlsnr' = rlsnr \/ (rlsnr = "wait" /\ rlsnr' = "woken"))
  BY DEF Put, Notify
<1>7. dtor = "alive"
  BY DEF Put
<1>8. TypeOK'
  BY <1>1, <1>2, <1>5, <1>6 DEF ListenerInv, TypeOK
<1>9. NewestInOrder'
  <2>1. /\ handled <= dataPtr /\ dataPtr <= arrived - Len(mQueue)
        /\ dataPtr < arrived - Len(mQueue) => Len(mQueue) = QueueLen
        /\ rlsnr # "call" => handled = dataPtr
    BY DEF ListenerInv, NewestInOrder
  <2>2. /\ dataPtr' <= arrived' - Len(mQueue')
        /\ dataPtr' < arrived' - Len(mQueue') => Len(mQueue') = QueueLen
    BY <1>1, <1>2, <1>3, <1>5, <2>1
  <2>3. rlsnr' # "call" => handled' = dataPtr'
    BY <1>1, <1>6, <2>1
  <2>4. QED
    BY <1>1, <1>5, <2>1, <2>2, <2>3 DEF NewestInOrder
<1>10. QuitKnown'
  BY <1>1, <1>6, <1>7 DEF ListenerInv, QuitKnown
<1>11. QED
  BY <1>8, <1>9, <1>10 DEF ListenerInv

\* The sample taken is the oldest waiting, and the rest stays in order.
LEMMA TakeKeeps ==
  ASSUME ListenerAssumption, ListenerInv, Take, rlsnr \in {"get", "woken"}
  PROVE  ListenerInv' /\ dataPtr' = arrived - Len(mQueue) + 1 /\ mQueue # <<>>
<1> USE DEF ListenerAssumption
<1>1. /\ mQueue \in Seq(1 .. MaxSamples) /\ mQueue # <<>> /\ Len(mQueue) \in Nat \ {0}
      /\ Len(mQueue) <= QueueLen
      /\ arrived \in 0 .. MaxSamples /\ dataPtr \in 0 .. MaxSamples /\ handled \in 0 .. MaxSamples
      /\ mQueue' = Tail(mQueue) /\ dataPtr' = Head(mQueue) /\ rlsnr' = "call"
      /\ UNCHANGED <<mQuit, dtor, arrived, handled>>
  BY DEF ListenerInv, TypeOK, Take, Front, historyVars
<1>2. /\ \A i \in 1 .. Len(mQueue) : mQueue[i] = arrived - Len(mQueue) + i
      /\ handled <= dataPtr /\ dataPtr <= arrived - Len(mQueue)
      /\ rlsnr # "call" => handled = dataPtr
  BY DEF ListenerInv, NewestInOrder
<1>3. /\ mQueue' \in Seq(1 .. MaxSamples) /\ Len(mQueue') = Len(mQueue) - 1
      /\ \A i \in 1 .. Len(mQueue') : mQueue'[i] = mQueue[i + 1]
  BY <1>1
<1>4. dataPtr' = arrived - Len(mQueue) + 1 /\ dataPtr' \in 1 .. MaxSamples
  BY <1>1, <1>2
<1>5. \A i \in 1 .. Len(mQueue') : mQueue'[i] = arrived' - Len(mQueue') + i
  BY <1>1, <1>2, <1>3
<1>6. TypeOK'
  BY <1>1, <1>3, <1>4 DEF ListenerInv, TypeOK
<1>7. NewestInOrder'
  <2>1. /\ handled' <= dataPtr' /\ dataPtr' <= arrived' - Len(mQueue')
        /\ ~(dataPtr' < arrived' - Len(mQueue')) /\ rlsnr' = "call"
    BY <1>1, <1>2, <1>3, <1>4
  <2>2. QED
    BY <1>5, <2>1 DEF NewestInOrder
<1>8. QuitKnown'
  BY <1>1 DEF ListenerInv, QuitKnown
<1>9. QED
  BY <1>1, <1>4, <1>6, <1>7, <1>8 DEF ListenerInv

\* A step that only moves the thread, not into or out of its handler.
LEMMA StayKeeps ==
  ASSUME ListenerInv, NEW pc \in {"test", "get", "wait", "woken", "ended"},
         StaysAt(pc), rlsnr \notin {"call", "ended"}
  PROVE  ListenerInv'
<1>1. rlsnr' = pc /\ UNCHANGED <<mQueue, mQuit, dataPtr, dtor, arrived, handled>>
  BY DEF StaysAt, historyVars
<1>2. TypeOK'
  BY <1>1 DEF ListenerInv, TypeOK
<1>3. NewestInOrder'
  <2>1. handled = dataPtr
    BY DEF ListenerInv, NewestInOrder
  <2>2. QED
    BY <1>1, <2>1 DEF ListenerInv, NewestInOrder
<1>4. QuitKnown'
  BY <1>1 DEF ListenerInv, QuitKnown
<1>5. QED
  BY <1>2, <1>3, <1>4 DEF ListenerInv

\* One step per action; those that touch the queue are the lemmas above.
LEMMA NextListenerInv == ListenerAssumption /\ ListenerInv /\ [Next]_listenerVars => ListenerInv'
<1> SUFFICES ASSUME ListenerAssumption, ListenerInv, [Next]_listenerVars PROVE ListenerInv'
  OBVIOUS
<1>1. CASE Put
  BY <1>1, PutKeeps
<1>2. CASE TestQuit
  BY <1>2, StayKeeps DEF TestQuit
<1>3. CASE Get
  <2>1. rlsnr = "get"
    BY <1>3 DEF Get
  <2>2. CASE Take
    BY <2>1, <2>2, TakeKeeps
  <2>3. CASE StaysAt("wait")
    BY <2>1, <2>3, StayKeeps
  <2>4. QED
    BY <1>3, <2>2, <2>3 DEF Get
<1>4. CASE GetAfterWait
  <2>1. rlsnr = "woken"
    BY <1>4 DEF GetAfterWait
  <2>2. CASE Take
    BY <2>1, <2>2, TakeKeeps
  <2>3. CASE StaysAt("test")
    BY <2>1, <2>3, StayKeeps
  <2>4. QED
    BY <1>4, <2>2, <2>3 DEF GetAfterWait
<1>5. CASE CallHandler
  BY <1>5 DEF CallHandler, ListenerInv, TypeOK, NewestInOrder, QuitKnown
<1>6. CASE WakeForNoReason
  BY <1>6, StayKeeps DEF WakeForNoReason
<1>7. CASE DropNative
  BY <1>7 DEF DropNative, ListenerInv, TypeOK, NewestInOrder, QuitKnown, threadVars, historyVars
<1>8. CASE SetQuit
  BY <1>8 DEF SetQuit, ListenerInv, TypeOK, NewestInOrder, QuitKnown, threadVars, historyVars
<1>9. CASE Interrupt
  BY <1>9 DEF Interrupt, Notify, ListenerInv, TypeOK, NewestInOrder, QuitKnown, historyVars
<1>10. CASE Join
  BY <1>10 DEF Join, Joined, ListenerInv, TypeOK, NewestInOrder, QuitKnown, threadVars, historyVars
<1>11. CASE UNCHANGED listenerVars
  BY <1>11 DEF listenerVars, threadVars, historyVars, ListenerInv, TypeOK, NewestInOrder, QuitKnown
<1>12. QED
  BY <1>1, <1>2, <1>3, <1>4, <1>5, <1>6, <1>7, <1>8, <1>9, <1>10, <1>11
  DEF Next, QueueThread, Destructor

\* The invariant of both threads, for every run of theirs.
THEOREM ListenerInvariant ==
  ASSUME ListenerAssumption
  PROVE  Spec => []ListenerInv
  BY InitListenerInv, NextListenerInv, PTL DEF Spec

\* The queue never grows past its length, whatever the threads do
\* (block_queue.hpp:32-43).
THEOREM ListenerTypeCorrect ==
  ASSUME ListenerAssumption
  PROVE  Spec => []TypeOK
  BY ListenerInvariant, PTL DEF ListenerInv

\* For a queue of any length no sample overtakes another, comes back, or is
\* dropped while there is room.
THEOREM SamplesInOrder ==
  ASSUME ListenerAssumption
  PROVE  Spec => []NewestInOrder
  BY ListenerInvariant, PTL DEF ListenerInv
-----------------------------------------------------------------------------
(* The subscriber implements the channel its handler sees. *)

\* The first sample taken is the oldest that the channel still owes.
LEMMA TakeIsFetch ==
  ASSUME ListenerAssumption, ListenerInv, Take, rlsnr \in {"get", "woken"}
  PROVE  Channel!Fetch
<1> USE DEF ListenerAssumption
<1>1. dataPtr' = arrived - Len(mQueue) + 1 /\ mQueue # <<>>
  BY TakeKeeps
<1>2. /\ mQueue \in Seq(1 .. MaxSamples) /\ Len(mQueue) \in Nat \ {0} /\ Len(mQueue) <= QueueLen
      /\ arrived \in 0 .. MaxSamples /\ dataPtr \in 0 .. MaxSamples
  BY <1>1 DEF ListenerInv, TypeOK
<1>3. /\ handled = dataPtr /\ dataPtr <= arrived - Len(mQueue)
      /\ dataPtr < arrived - Len(mQueue) => Len(mQueue) = QueueLen
  BY DEF ListenerInv, NewestInOrder
<1>4. dataPtr' = Channel!Oldest
  <2>1. CASE dataPtr < arrived - Len(mQueue)
    BY <1>1, <1>2, <1>3, <2>1 DEF Channel!Oldest
  <2>2. CASE dataPtr = arrived - Len(mQueue)
    BY <1>1, <1>2, <1>3, <2>2 DEF Channel!Oldest
  <2>3. QED
    BY <1>2, <1>3, <2>1, <2>2
<1>5. dtor # "gone"
  BY DEF ListenerInv, QuitKnown
<1>6. UNCHANGED <<arrived, handled, dtor, mQuit>>
  BY DEF Take, historyVars
<1>7. dataPtr = handled /\ dataPtr < arrived
  BY <1>2, <1>3
<1>8. QED
  BY <1>4, <1>5, <1>6, <1>7 DEF Channel!Fetch

\* A step that only moves the thread does not show.
LEMMA StayStutters ==
  ASSUME NEW pc, StaysAt(pc)
  PROVE  UNCHANGED Channel!channelVars
  BY DEF StaysAt, historyVars, Channel!channelVars

LEMMA StepImplements == ListenerAssumption /\ ListenerInv /\ [Next]_listenerVars => [Channel!Next]_(Channel!channelVars)
<1> SUFFICES ASSUME ListenerAssumption, ListenerInv, [Next]_listenerVars
             PROVE  Channel!Next \/ UNCHANGED Channel!channelVars
  OBVIOUS
<1>1. CASE Put
  <2>1. ~mQuit /\ dtor = "alive"
    BY <1>1 DEF Put, ListenerInv, QuitKnown
  <2>2. Channel!Write
    BY <1>1, <2>1 DEF Put, Channel!Write
  <2>3. QED
    BY <2>2 DEF Channel!Next
<1>2. CASE TestQuit
  BY <1>2, StayStutters DEF TestQuit
<1>3. CASE Get \/ GetAfterWait
  <2>1. CASE Take
    BY <1>3, <2>1, TakeIsFetch DEF Get, GetAfterWait, Channel!Next
  <2>2. CASE StaysAt("wait") \/ StaysAt("test")
    BY <2>2, StayStutters
  <2>3. QED
    BY <1>3, <2>1, <2>2 DEF Get, GetAfterWait
<1>4. CASE CallHandler
  <2>1. dtor # "gone"
    BY <1>4 DEF CallHandler, ListenerInv, QuitKnown
  <2>2. CASE dataPtr = handled
    BY <1>4, <2>2 DEF CallHandler, Channel!channelVars
  <2>3. CASE dataPtr # handled
    BY <1>4, <2>1, <2>3 DEF CallHandler, Channel!Handle, Channel!Next
  <2>4. QED
    BY <2>2, <2>3
<1>5. CASE WakeForNoReason
  BY <1>5, StayStutters DEF WakeForNoReason
<1>6. CASE DropNative
  BY <1>6 DEF DropNative, ListenerInv, QuitKnown, threadVars, historyVars, Channel!channelVars
<1>7. CASE SetQuit
  <2>1. ~mQuit /\ dtor = "dropped"
    BY <1>7 DEF SetQuit, ListenerInv, QuitKnown
  <2>2. Channel!Quit
    BY <1>7, <2>1 DEF SetQuit, threadVars, historyVars, Channel!Quit
  <2>3. QED
    BY <2>2 DEF Channel!Next
<1>8. CASE Interrupt
  BY <1>8 DEF Interrupt, historyVars, Channel!channelVars
<1>9. CASE Join
  <2>1. mQuit /\ dtor = "join" /\ handled = dataPtr
    BY <1>9 DEF Join, Joined, ListenerInv, QuitKnown, NewestInOrder
  <2>2. Channel!Close
    BY <1>9, <2>1 DEF Join, threadVars, historyVars, Channel!Close
  <2>3. QED
    BY <2>2 DEF Channel!Next
<1>10. CASE UNCHANGED listenerVars
  BY <1>10 DEF listenerVars, threadVars, historyVars, Channel!channelVars
<1>11. QED
  BY <1>1, <1>2, <1>3, <1>4, <1>5, <1>6, <1>7, <1>8, <1>9, <1>10
  DEF Next, QueueThread, Destructor

\* The queue, its lock and its three threads are the channel of
\* LatestChannel, for a queue of any length (safety; TLC checks the liveness).
THEOREM ListenerImplementsChannel ==
  ASSUME ListenerAssumption
  PROVE  Spec => Channel!Spec
<1>1. Init => Channel!Init
  BY DEF Init, Channel!Init
<1>2. QED
  BY <1>1, ListenerInvariant, StepImplements, PTL DEF Spec, Channel!Spec
-----------------------------------------------------------------------------
(* What liveness owes to the order of tests, waits and notifications *)

\* The thread sleeps only while there is nothing for it to handle.
SleepsOnlyWhenEmpty == rlsnr = "wait" => mQueue = <<>>

\* Whoever puts a sample before or during the wait has woken the thread, or it
\* has seen the sample (block_queue.hpp:106), for any length of the queue.
THEOREM NoWakeupIsLost == Spec => []SleepsOnlyWhenEmpty
<1>1. Init => SleepsOnlyWhenEmpty
  BY DEF Init, SleepsOnlyWhenEmpty
<1>2. SleepsOnlyWhenEmpty /\ [Next]_listenerVars => SleepsOnlyWhenEmpty'
  <2> SUFFICES ASSUME SleepsOnlyWhenEmpty, [Next]_listenerVars PROVE SleepsOnlyWhenEmpty'
    OBVIOUS
  <2>1. CASE Put \/ Interrupt
    BY <2>1 DEF Put, Interrupt, Notify, SleepsOnlyWhenEmpty
  <2>2. CASE QueueThread \/ WakeForNoReason
    BY <2>2 DEF QueueThread, TestQuit, Get, GetAfterWait, Take, CallHandler, WakeForNoReason,
       StaysAt, SleepsOnlyWhenEmpty
  <2>3. CASE DropNative \/ SetQuit \/ Join \/ UNCHANGED listenerVars
    BY <2>3 DEF DropNative, SetQuit, Join, listenerVars, threadVars, SleepsOnlyWhenEmpty
  <2>4. QED
    BY <2>1, <2>2, <2>3 DEF Next, Destructor
<1>3. QED
  BY <1>1, <1>2, PTL DEF Spec

\* mQuit is set, the thread is not between its test of mQuit and its wait, and
\* if it sleeps the interrupt is still to come.
SureToEnd ==
    /\ mQuit
    /\ ~(rlsnr = "get" /\ mQueue = <<>>)
    /\ dtor \in {"join", "gone"} => rlsnr # "wait"

\* The exception in QuitsUnlessAboutToWait is the only one: a thread that the
\* destructor finds anywhere else, with or without samples, never again comes
\* to sleep for good (dds_entity.hpp:236-237, 274).
THEOREM OneWindowOnly ==
  ASSUME ListenerAssumption
  PROVE  Spec => [][SureToEnd => SureToEnd']_listenerVars
<1>1. ListenerInv /\ SureToEnd /\ [Next]_listenerVars => SureToEnd'
  <2> SUFFICES ASSUME ListenerInv, SureToEnd, [Next]_listenerVars PROVE SureToEnd'
    OBVIOUS
  <2>1. CASE Put
    BY <2>1 DEF Put, ListenerInv, QuitKnown, SureToEnd
  <2>2. CASE Interrupt
    BY <2>2 DEF Interrupt, Notify, SureToEnd
  <2>3. CASE QueueThread \/ WakeForNoReason
    BY <2>3 DEF QueueThread, TestQuit, Get, GetAfterWait, Take, CallHandler, WakeForNoReason,
       StaysAt, historyVars, SureToEnd
  <2>4. CASE DropNative \/ SetQuit \/ Join \/ UNCHANGED listenerVars
    BY <2>4 DEF DropNative, SetQuit, Join, Joined, listenerVars, threadVars, SureToEnd
  <2>5. QED
    BY <2>1, <2>2, <2>3, <2>4 DEF Next, Destructor
<1>2. QED
  BY <1>1, ListenerInvariant, PTL DEF Spec
=============================================================================
