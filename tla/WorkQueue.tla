----------------------------- MODULE WorkQueue ------------------------------
(***************************************************************************)
(* The rate-limited work queue of the controller with all of its keys: the *)
(* FIFO queue with its dirty and processing sets, and in front of it the   *)
(* delaying queue, whose waiting loop takes entries from a channel into a  *)
(* heap and from there, when their delay is over, into the queue.          *)
(*                                                                         *)
(* Time is left out: whether an entry is due is a choice.  The heap keeps  *)
(* one entry per key, so it is a set.                                      *)
(***************************************************************************)
EXTENDS Naturals, Sequences

CONSTANTS
    Keys,           \* namespace/name of the BrokerClusters
    ChannelSize     \* capacity of waitingForAddCh

ASSUME ChannelAssumption == ChannelSize \in Nat \ {0}

VARIABLES
    queue, dirty, processing,
    channel,        \* waitingForAddCh
    heap,           \* waitingForQueue
    shuttingDown,
    looping         \* the waiting loop runs

delayVars == <<channel, heap, looping>>
queueVars == <<queue, dirty, processing, delayVars, shuttingDown>>

WorkQueueTypeOK ==
    /\ queue \in Seq(Keys)
    /\ dirty \in SUBSET Keys
    /\ processing \in SUBSET Keys
    /\ channel \in Seq(Keys) /\ Len(channel) <= ChannelSize
    /\ heap \in SUBSET Keys
    /\ shuttingDown \in BOOLEAN
    /\ looping \in BOOLEAN

WorkQueueInit ==
    /\ queue = << >>
    /\ dirty = {}
    /\ processing = {}
    /\ channel = << >>
    /\ heap = {}
    /\ shuttingDown = FALSE
    /\ looping = TRUE

-----------------------------------------------------------------------------
(* Mutant: Add does not look at the processing set.                        *)
AddAnyway(key) ==
    IF shuttingDown \/ key \in dirty
    THEN UNCHANGED <<queue, dirty>>
    ELSE /\ dirty' = dirty \cup {key}
         /\ queue' = Append(queue, key)

Add(key) ==
    IF shuttingDown \/ key \in dirty
    THEN UNCHANGED <<queue, dirty>>
    ELSE /\ dirty' = dirty \cup {key}
         /\ queue' = IF key \in processing THEN queue ELSE Append(queue, key)

(* Mutant: the caller is not blocked by a full channel.                    *)
AddUnbounded(key) ==
    /\ IF shuttingDown THEN UNCHANGED channel
                       ELSE channel' = Append(channel, key)
    /\ UNCHANGED <<queue, dirty, processing, heap, looping, shuttingDown>>

(* AddRateLimited and AddAfter.  The delay is never zero.  A full channel  *)
(* blocks the caller, an event handler, until ShutDown.                    *)
AddRateLimited(key) ==
    /\ \/ shuttingDown /\ UNCHANGED channel
       \/ /\ ~shuttingDown
          /\ Len(channel) < ChannelSize
          /\ channel' = Append(channel, key)
    /\ UNCHANGED <<queue, dirty, processing, heap, looping, shuttingDown>>

(* The waiting loop receives an entry and inserts it into the heap, or     *)
(* adds it at once if its time has come.                                   *)
Receive ==
    /\ looping
    /\ channel # << >>
    /\ channel' = Tail(channel)
    /\ \/ /\ heap' = heap \cup {Head(channel)}
          /\ UNCHANGED <<queue, dirty>>
       \/ /\ Add(Head(channel))
          /\ UNCHANGED heap
    /\ UNCHANGED <<processing, looping, shuttingDown>>

(* The delay of an entry of the heap is over.                              *)
AddReady(key) ==
    /\ looping
    /\ key \in heap
    /\ heap' = heap \ {key}
    /\ Add(key)
    /\ UNCHANGED <<processing, channel, looping, shuttingDown>>

LoopEnds ==
    /\ looping
    /\ shuttingDown
    /\ looping' = FALSE
    /\ UNCHANGED <<queue, dirty, processing, channel, heap, shuttingDown>>

(* Mutant: the key stays dirty while a worker has it.                      *)
GetKeepsDirty(key) ==
    /\ queue # << >>
    /\ key = Head(queue)
    /\ queue' = Tail(queue)
    /\ processing' = processing \cup {key}
    /\ UNCHANGED <<dirty, delayVars, shuttingDown>>

(* Get blocks while the queue is empty.                                    *)
Get(key) ==
    /\ queue # << >>
    /\ key = Head(queue)
    /\ queue' = Tail(queue)
    /\ processing' = processing \cup {key}
    /\ dirty' = dirty \ {key}
    /\ UNCHANGED <<delayVars, shuttingDown>>

(* Mutant: a key that became dirty meanwhile is not put back.              *)
DoneOnly(key) ==
    /\ processing' = processing \ {key}
    /\ UNCHANGED <<queue, dirty, delayVars, shuttingDown>>

Done(key) ==
    /\ processing' = processing \ {key}
    /\ queue' = IF key \in dirty THEN Append(queue, key) ELSE queue
    /\ UNCHANGED <<dirty, delayVars, shuttingDown>>

ShutDown ==
    /\ shuttingDown' = TRUE
    /\ UNCHANGED <<queue, dirty, processing, delayVars>>

-----------------------------------------------------------------------------
Elements(seq) == {seq[i] : i \in DOMAIN seq}

(* queue.go:48: "Every element of queue should be in the dirty set and not *)
(* in the processing set."  And the other way round: a key that is dirty   *)
(* and not processing is in the queue, once, so that a worker gets it.     *)
QueueInv ==
    /\ Elements(queue) = dirty \ processing
    /\ \A i, j \in DOMAIN queue : queue[i] = queue[j] => i = j
=============================================================================
