--------------------------- MODULE Go2LowStatePath ---------------------------
(***************************************************************************)
(* The way of a LowState from the robot to joint_states: the topic         *)
(* rt/lowstate, the SDK's DdsReaderListener with its queue and thread, and *)
(* the bridge.  Here the DDS thread of Go2DdsBridge is no longer an        *)
(* environment that may call onLowState at will: onLowState is the handler *)
(* that the thread rlsnr calls.  Sample n carries LowStateTopic[n].        *)
(*                                                                         *)
(* The executor has stopped spinning when the node is destroyed; the       *)
(* listener is still alive then, and may yet call onLowState.              *)
(***************************************************************************)
EXTENDS Go2DdsBridge

CONSTANTS
    LowStateTopic,  \* what the robot sends, in order
    QueueLen        \* 1 in the code

ASSUME PathAssumption ==
    /\ LowStateTopic \in Seq(LowStates)
    /\ QueueLen \in Nat \ {0}

\* What onTimer publishes of sample n; 0 is before the first.
MeasurementOf(n) ==
    IF n = 0 THEN Measurement(ZeroPose, ZeroForce)
    ELSE Measurement(LowStateTopic[n].q, LowStateTopic[n].force)

\* So that what is published tells which sample it was.
ASSUME DistinctAssumption ==
    \A n, k \in 0 .. Len(LowStateTopic) : MeasurementOf(n) = MeasurementOf(k) => n = k

\* The variables of DdsReaderListener.
VARIABLES mQueue, mQuit, rlsnr, dataPtr, dtor, arrived, handled

Listener == INSTANCE DdsReaderListener WITH MaxSamples <- Len(LowStateTopic)

listenerVars == <<mQueue, mQuit, rlsnr, dataPtr, dtor, arrived, handled>>
pathVars == <<vars, listenerVars>>

-----------------------------------------------------------------------------
PInit == Init /\ Listener!Init

\* onLowState is the handler; no other step of the SDK touches the bridge.
Handler ==
    /\ Listener!CallHandler
    /\ OnLowState(LowStateTopic[dataPtr])

SdkThread ==
    /\ Listener!TestQuit \/ Listener!Get \/ Listener!GetAfterWait
    /\ UNCHANGED vars

SdkEnvironment ==
    /\ \/ Listener!Put
       \/ Listener!WakeForNoReason
       \/ dtor = "alive" /\ ~InTimer /\ Listener!DropNative
       \/ Listener!Destructor
    /\ UNCHANGED vars

\* The executor spins until the node is destroyed.
Executor ==
    /\ dtor = "alive"
    /\ \/ \E msg \in JointCommands : OnJointCommand(msg)
       \/ OnTimerLocked
       \/ OnTimerWrite
    /\ UNCHANGED listenerVars

Clock == Tick /\ UNCHANGED listenerVars

PNext == Handler \/ SdkThread \/ SdkEnvironment \/ Executor \/ Clock

PSpec == PInit /\ [][PNext]_pathVars

Timer == dtor = "alive" /\ (OnTimerLocked \/ OnTimerWrite) /\ UNCHANGED listenerVars

SdkDestructor == Listener!Destructor /\ UNCHANGED vars

\* rlsnr and the thread that destroys the node are scheduled, and the wall
\* timer of a spinning executor fires.  Nothing makes a LowState arrive, the
\* node be destroyed, or a condition variable wake up for no reason.
PFairSpec ==
    /\ PSpec
    /\ WF_pathVars(Handler \/ SdkThread)
    /\ WF_pathVars(SdkDestructor)
    /\ WF_pathVars(Timer)

-----------------------------------------------------------------------------
\* The promises of the subscriber, kept while onLowState is its handler and
\* the executor and the destructor of the node run beside it: they are stated
\* in DdsReaderListener.

\* The order of the samples across the queue, the lock and the handler.
NewestInOrder == Listener!NewestInOrder

\* Its destruction ends the thread, wherever but in one place.
QuitsUnlessAboutToWait == Listener!QuitsUnlessAboutToWait

\* The handler sees the channel of LatestChannel.
ImplementsChannel == Listener!ImplementsChannel

SamplesPublished == {n \in 0 .. arrived : published = MeasurementOf(n)}

\* joint_states never goes back in time: what one timer publishes was sent by
\* the robot no earlier than what the timer before it published, across the
\* queue, the handler and the unlock in the middle of the timer.
MeasurementsInOrder ==
    [][\A n \in SamplesPublished :
          \E k \in SamplesPublished' : k >= n]_pathVars

\* When the robot falls silent, its last state is what joint_states and
\* foot_contacts say from then on: the queue of one and the copy under the
\* mutex may skip a state, but never the last one.
LastStatePublished ==
    \A n \in 1 .. Len(LowStateTopic) :
        <>[](arrived = n /\ dtor = "alive") => <>[](published = MeasurementOf(n))
=============================================================================
