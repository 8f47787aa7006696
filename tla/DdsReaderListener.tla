-------------------------- MODULE DdsReaderListener --------------------------
(***************************************************************************)
(* The subscriber of unitree_sdk2 that calls the bridge's onLowState:      *)
(* dds_entity.hpp's DdsReaderListener over block_queue.hpp's BlockQueue.   *)
(*                                                                         *)
(* A thread of the DDS library puts every sample into a bounded queue, out *)
(* of which it pushes the oldest when full; the thread "rlsnr" takes them  *)
(* out and calls the handler; and the thread that destroys the subscriber  *)
(* asks rlsnr to quit, wakes it and joins it.  Each section under the      *)
(* queue's lock is one action.  Samples are numbered as they arrive.       *)
(*                                                                         *)
(* MutexCond is in the SDK's binary: as Get uses it, Wait without a time   *)
(* releases the lock until Notify, or wakes up for no reason as condition  *)
(* variables may.                                                          *)
(***************************************************************************)
EXTENDS Integers, Sequences

CONSTANTS
    QueueLen,    \* mMaxSize, the len of SetQueue: 1 for rt/lowstate
    MaxSamples   \* bound: the topic falls silent here

\* What the theorems ask of the constants.
ListenerAssumption ==
    /\ QueueLen \in Nat \ {0}
    /\ MaxSamples \in Nat

VARIABLES
    mQueue,   \* the samples waiting
    mQuit,
    rlsnr,    \* where the queue thread is
    dataPtr,  \* the last sample it took
    dtor,     \* how far the subscriber's destruction is
    arrived,  \* history: the last sample put
    handled   \* history: the last sample the handler was called with

threadVars == <<rlsnr, dataPtr>>
historyVars == <<arrived, handled>>
listenerVars == <<mQueue, mQuit, threadVars, dtor, historyVars>>

-----------------------------------------------------------------------------
(* BlockQueue *)

\* A full queue gives up its oldest sample, replace being true.
PushOut(queue) == IF Len(queue) >= QueueLen THEN Tail(queue) ELSE queue

EnqueueFirst(queue, sample) == <<sample>> \o PushOut(queue)

Enqueue(queue, sample) == Append(PushOut(queue), sample)

NotifyLater == rlsnr

\* Wakes the only thread that ever waits.
Notify == IF rlsnr = "wait" THEN "woken" ELSE rlsnr

\* DDS: on_data_available, for each valid sample.
Put ==
    /\ dtor = "alive"
    /\ arrived < MaxSamples
    /\ mQueue' = Enqueue(mQueue, arrived + 1)
    /\ rlsnr' = Notify
    /\ arrived' = arrived + 1
    /\ UNCHANGED <<mQuit, dataPtr, dtor, handled>>

Front == Head(mQueue)

\* GetTimeout on a queue that is not empty.
Take ==
    /\ mQueue # <<>>
    /\ dataPtr' = Front
    /\ mQueue' = Tail(mQueue)
    /\ rlsnr' = "call"
    /\ UNCHANGED <<mQuit, dtor, historyVars>>

-----------------------------------------------------------------------------
(* The thread rlsnr.  The handler is set before the thread is made. *)

StaysAt(pc) == rlsnr' = pc /\ UNCHANGED <<mQueue, mQuit, dataPtr, dtor, historyVars>>

\* while (!mQuit)
TestQuit ==
    /\ rlsnr = "test"
    /\ StaysAt(IF mQuit THEN "ended" ELSE "get")

\* Get locks, and waits when there is nothing.
Get ==
    /\ rlsnr = "get"
    /\ Take \/ (mQueue = <<>> /\ StaysAt("wait"))

WakeForNoReason ==
    /\ rlsnr = "wait"
    /\ StaysAt("woken")

\* Back from Wait with the lock: there is a sample, or Get returns false.
GetAfterWait ==
    /\ rlsnr = "woken"
    /\ Take \/ (mQueue = <<>> /\ StaysAt("test"))

\* OnDataAvailable: onLowState runs.
CallHandler ==
    /\ rlsnr = "call"
    /\ handled' = dataPtr
    /\ rlsnr' = "test"
    /\ UNCHANGED <<mQueue, mQuit, dataPtr, dtor, arrived>>

-----------------------------------------------------------------------------
(* ~DdsReader and ~DdsReaderListener, on the thread that destroys the node. *)

\* mNative = null: the DDS library calls the listener no more.
DropNative ==
    /\ dtor = "alive"
    /\ dtor' = "dropped"
    /\ UNCHANGED <<mQueue, mQuit, threadVars, historyVars>>

SetQuit ==
    /\ dtor = "dropped"
    /\ mQuit' = TRUE
    /\ dtor' = "interrupt"
    /\ UNCHANGED <<mQueue, threadVars, historyVars>>

Interrupt ==
    /\ dtor = "interrupt"
    /\ rlsnr' = Notify
    /\ dtor' = "join"
    /\ UNCHANGED <<mQueue, mQuit, dataPtr, historyVars>>

JoinAtOnce == dtor = "join"

\* Wait returns when the thread function has.
Joined == dtor = "join" /\ rlsnr = "ended"

Join ==
    /\ Joined
    /\ dtor' = "gone"
    /\ UNCHANGED <<mQueue, mQuit, threadVars, historyVars>>

-----------------------------------------------------------------------------
\* SetListener: the callback, the queue, the thread, and then the listener.
Init ==
    /\ mQueue = <<>>
    /\ mQuit = FALSE
    /\ rlsnr = "test"
    /\ dataPtr = 0
    /\ dtor = "alive"
    /\ arrived = 0
    /\ handled = 0

QueueThread == TestQuit \/ Get \/ GetAfterWait \/ CallHandler

Destructor == SetQuit \/ Interrupt \/ Join

Next == Put \/ QueueThread \/ WakeForNoReason \/ DropNative \/ Destructor

Spec == Init /\ [][Next]_listenerVars

-----------------------------------------------------------------------------
TypeOK ==
    /\ mQueue \in Seq(1 .. MaxSamples)
    /\ Len(mQueue) <= QueueLen
    /\ mQuit \in BOOLEAN
    /\ rlsnr \in {"test", "get", "wait", "woken", "call", "ended"}
    /\ dataPtr \in 0 .. MaxSamples
    /\ dtor \in {"alive", "dropped", "interrupt", "join", "gone"}
    /\ arrived \in 0 .. MaxSamples
    /\ handled \in 0 .. MaxSamples

\* What waits is exactly the newest samples, oldest first, all newer than the
\* one taken, which is no older than the one handled; and none is missing in
\* between unless the queue is full: nothing overtakes, nothing comes back and
\* nothing is dropped needlessly, in whatever order the two threads meet.
NewestInOrder ==
    /\ \A i \in 1 .. Len(mQueue) : mQueue[i] = arrived - Len(mQueue) + i
    /\ handled <= dataPtr
    /\ dataPtr <= arrived - Len(mQueue)
    /\ dataPtr < arrived - Len(mQueue) => Len(mQueue) = QueueLen
    /\ rlsnr # "call" => handled = dataPtr

\* Destruction ends the thread wherever mQuit finds it, with one exception:
\* between its test of mQuit (dds_entity.hpp:274) and its wait for a sample.
\* The test is outside the lock under which Get waits without a time, so that
\* there the one notification is lost and the destructor may wait for ever.
QuitsUnlessAboutToWait ==
    (dtor = "interrupt" /\ ~(rlsnr = "get" /\ mQueue = <<>>)) ~> (rlsnr = "ended")

\* The destructor has told the thread before it joins it, and only then.
QuitKnown ==
    /\ mQuit <=> dtor \in {"interrupt", "join", "gone"}
    /\ dtor = "gone" => rlsnr = "ended"

\* The subscriber is the channel its handler sees.
Channel == INSTANCE LatestChannel WITH
    Depth <- QueueLen,
    written <- arrived,
    fetched <- dataPtr,
    state <- IF dtor = "gone" THEN "closed" ELSE IF mQuit THEN "closing" ELSE "open"

ImplementsChannel == Channel!FairSpec
=============================================================================
