---------------------------- MODULE LatestChannel ----------------------------
(***************************************************************************)
(* What a subscriber of unitree_sdk2 gives its handler, with no queue, no  *)
(* lock and no thread: the samples of the topic in order, each at most     *)
(* once, one at a time; a slow handler skips the oldest, but never one of  *)
(* the Depth newest; and while the channel stays open the newest sample is *)
(* handled in the end.                                                     *)
(***************************************************************************)
EXTENDS Integers

CONSTANTS
    Depth,       \* how many samples wait for the handler: one or more
    MaxSamples   \* bound: the writer stops here

VARIABLES
    written,  \* the last sample of the topic: they are numbered from 1
    fetched,  \* the last sample given to the handler
    handled,  \* the last sample the handler is done with
    state     \* "open", "closing" or "closed"

channelVars == <<written, fetched, handled, state>>

Init ==
    /\ written = 0
    /\ fetched = 0
    /\ handled = 0
    /\ state = "open"

Write ==
    /\ state = "open"
    /\ written < MaxSamples
    /\ written' = written + 1
    /\ UNCHANGED <<fetched, handled, state>>

\* The oldest sample that is new and among the Depth newest.
Oldest == IF fetched + Depth < written THEN written - Depth + 1 ELSE fetched + 1

Fetch ==
    /\ state # "closed"
    /\ fetched = handled
    /\ fetched < written
    /\ fetched' = Oldest
    /\ UNCHANGED <<written, handled, state>>

Handle ==
    /\ state # "closed"
    /\ fetched # handled
    /\ handled' = fetched
    /\ UNCHANGED <<written, fetched, state>>

Quit ==
    /\ state = "open"
    /\ state' = "closing"
    /\ UNCHANGED <<written, fetched, handled>>

\* Nothing is handled once the channel is closed.
Close ==
    /\ state = "closing"
    /\ fetched = handled
    /\ state' = "closed"
    /\ UNCHANGED <<written, fetched, handled>>

Next == Write \/ Fetch \/ Handle \/ Quit \/ Close

Spec == Init /\ [][Next]_channelVars

\* A channel that is being closed may drop what it has not fetched.
FetchWhileOpen == state = "open" /\ Fetch

FairSpec == Spec /\ WF_channelVars(FetchWhileOpen) /\ WF_channelVars(Handle)
=============================================================================
