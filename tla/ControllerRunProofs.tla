------------------------ MODULE ControllerRunProofs -------------------------
(***************************************************************************)
(* Theorems about ControllerRun, for any keys, workers and channel size:   *)
(* type correctness, the invariant of the work queue, that no two workers  *)
(* sync the same cluster, and that the queue implements KeyQueue.          *)
(***************************************************************************)
EXTENDS ControllerRun, TLAPS

Distinct(seq) == \A i, j \in DOMAIN seq : seq[i] = seq[j] => i = j

-----------------------------------------------------------------------------
(* Facts about the sequences of the queue.                                 *)

(* Append adds one element at the end.                                     *)
LEMMA AppendFacts ==
    ASSUME NEW seq \in Seq(Keys), NEW key \in Keys
    PROVE  /\ Append(seq, key) \in Seq(Keys)
           /\ Len(Append(seq, key)) = Len(seq) + 1
           /\ Elements(Append(seq, key)) = Elements(seq) \cup {key}
           /\ Distinct(seq) /\ key \notin Elements(seq)
                 => Distinct(Append(seq, key))
<1>1. /\ Append(seq, key) \in Seq(Keys)
      /\ Len(Append(seq, key)) = Len(seq) + 1
      /\ DOMAIN seq = 1 .. Len(seq) /\ Len(seq) \in Nat
      /\ DOMAIN Append(seq, key) = 1 .. Len(seq) + 1
  OBVIOUS
<1>2. /\ \A i \in 1 .. Len(seq) : Append(seq, key)[i] = seq[i]
      /\ Append(seq, key)[Len(seq) + 1] = key
  OBVIOUS
<1>3. Elements(Append(seq, key)) = Elements(seq) \cup {key}
  BY <1>1, <1>2 DEF Elements
<1>4. ASSUME Distinct(seq), key \notin Elements(seq)
      PROVE  Distinct(Append(seq, key))
  BY <1>1, <1>2, <1>4 DEF Distinct, Elements
<1> QED
  BY <1>1, <1>3, <1>4

(* Tail drops the first element, and of a sequence without repetition it   *)
(* drops it altogether.                                                    *)
LEMMA TailFacts ==
    ASSUME NEW seq \in Seq(Keys), seq # << >>
    PROVE  /\ Tail(seq) \in Seq(Keys)
           /\ Len(Tail(seq)) = Len(seq) - 1
           /\ Head(seq) \in Keys
           /\ Head(seq) \in Elements(seq)
           /\ Distinct(seq) => /\ Elements(Tail(seq)) = Elements(seq) \ {Head(seq)}
                               /\ Distinct(Tail(seq))
<1>1. /\ Tail(seq) \in Seq(Keys) /\ Len(Tail(seq)) = Len(seq) - 1
      /\ Head(seq) = seq[1] /\ Len(seq) \in Nat \ {0}
      /\ DOMAIN seq = 1 .. Len(seq) /\ DOMAIN Tail(seq) = 1 .. Len(seq) - 1
      /\ seq[1] \in Keys
  OBVIOUS
<1>2. \A i \in 1 .. Len(seq) - 1 : Tail(seq)[i] = seq[i + 1]
  OBVIOUS
<1>3. Head(seq) \in Elements(seq)
  BY <1>1 DEF Elements
<1>4. ASSUME Distinct(seq)
      PROVE  Elements(Tail(seq)) = Elements(seq) \ {Head(seq)}
  <2>1. ASSUME NEW i \in 1 .. Len(seq) - 1
        PROVE  seq[i + 1] \in Elements(seq) \ {Head(seq)}
    BY <1>1, <1>4, <2>1 DEF Distinct, Elements
  <2>2. ASSUME NEW i \in 1 .. Len(seq), seq[i] # Head(seq)
        PROVE  seq[i] \in Elements(Tail(seq))
    <3>1. i - 1 \in 1 .. Len(seq) - 1
      BY <1>1, <2>2
    <3>2. Tail(seq)[i - 1] = seq[i]
      BY <1>1, <1>2, <3>1
    <3> QED
      BY <1>1, <3>1, <3>2 DEF Elements
  <2> QED
    BY <1>1, <1>2, <2>1, <2>2 DEF Elements
<1>5. ASSUME Distinct(seq)
      PROVE  Distinct(Tail(seq))
  BY <1>1, <1>2, <1>5 DEF Distinct
<1> QED
  BY <1>1, <1>3, <1>4, <1>5

-----------------------------------------------------------------------------
(* QueueInv and OneWorkerPerKey need each other: a key comes back into the *)
(* queue only when the one worker that had it is done with it.             *)
QueueAndWorkers == TypeOK /\ QueueInv /\ OneWorkerPerKey

(* No worker has a key before Run starts them.                             *)
NotStarted == run = "syncing" => \A w \in Workers : worker[w] = Off

(* Adding a key keeps the queue right.                                     *)
LEMMA AddKeeps ==
    ASSUME QueueAndWorkers, NEW key \in Keys, Add(key), UNCHANGED processing
    PROVE  QueueInv' /\ queue' \in Seq(Keys) /\ dirty' \in SUBSET Keys
<1>1. /\ queue \in Seq(Keys) /\ dirty \in SUBSET Keys
      /\ Elements(queue) = dirty \ processing /\ Distinct(queue)
  BY DEF QueueAndWorkers, TypeOK, WorkQueueTypeOK, QueueInv, Distinct
<1>2. CASE shuttingDown \/ key \in dirty
  BY <1>1, <1>2 DEF Add, QueueInv, Distinct
<1>3. CASE ~(shuttingDown \/ key \in dirty) /\ key \in processing
  <2>1. queue' = queue /\ dirty' = dirty \cup {key}
    BY <1>3 DEF Add
  <2> QED
    BY <1>1, <1>3, <2>1 DEF QueueInv, Distinct
<1>4. CASE ~(shuttingDown \/ key \in dirty) /\ key \notin processing
  <2>1. queue' = Append(queue, key) /\ dirty' = dirty \cup {key}
    BY <1>4 DEF Add
  <2>2. /\ queue' \in Seq(Keys) /\ Distinct(queue')
        /\ Elements(queue') = Elements(queue) \cup {key}
    BY <1>1, <1>4, <2>1, AppendFacts
  <2> QED
    BY <1>1, <1>4, <2>1, <2>2 DEF QueueInv, Distinct
<1> QED
  BY <1>2, <1>3, <1>4

(* The event handlers and the waiting loop.                                *)
LEMMA DelayStep ==
    ASSUME QueueAndWorkers,
           WaitingLoop \/ \E key \in Keys : Enqueue(key) \/ DelayOver(key)
    PROVE  QueueAndWorkers'
<1>1. OneWorkerPerKey'
  BY DEF WaitingLoop, Receive, LoopEnds, Enqueue, AddRateLimited, DelayOver,
         AddReady, runVars, QueueAndWorkers, OneWorkerPerKey
<1>2. ASSUME NEW key \in Keys, Enqueue(key)
      PROVE  QueueAndWorkers'
  <2>1. channel' \in Seq(Keys) /\ Len(channel') <= ChannelSize
    BY <1>2, AppendFacts, ChannelAssumption
       DEF Enqueue, AddRateLimited, QueueAndWorkers, TypeOK, WorkQueueTypeOK
  <2> QED
    BY <1>1, <1>2, <2>1 DEF Enqueue, AddRateLimited, runVars, QueueAndWorkers,
                            TypeOK, WorkQueueTypeOK, QueueInv
<1>3. ASSUME NEW key \in Keys, DelayOver(key)
      PROVE  QueueAndWorkers'
  <2>1. QueueInv' /\ queue' \in Seq(Keys) /\ dirty' \in SUBSET Keys
    BY <1>3, AddKeeps DEF DelayOver, AddReady
  <2> QED
    BY <1>1, <1>3, <2>1 DEF DelayOver, AddReady, runVars, QueueAndWorkers,
                            TypeOK, WorkQueueTypeOK
<1>4. CASE WaitingLoop
  <2>1. CASE Receive
    <3>1. /\ channel' \in Seq(Keys) /\ Len(channel') <= ChannelSize
          /\ Head(channel) \in Keys
      BY <2>1, TailFacts, ChannelAssumption
         DEF Receive, QueueAndWorkers, TypeOK, WorkQueueTypeOK
    <3>2. /\ QueueInv' /\ queue' \in Seq(Keys)
          /\ dirty' \in SUBSET Keys /\ heap' \in SUBSET Keys
      BY <2>1, <3>1, AddKeeps
         DEF Receive, QueueAndWorkers, TypeOK, WorkQueueTypeOK, QueueInv
    <3> QED
      BY <1>1, <1>4, <2>1, <3>1, <3>2
         DEF WaitingLoop, Receive, runVars, QueueAndWorkers, TypeOK,
             WorkQueueTypeOK
  <2>2. CASE LoopEnds
    BY <1>1, <1>4, <2>2 DEF WaitingLoop, LoopEnds, runVars, QueueAndWorkers,
                            TypeOK, WorkQueueTypeOK, QueueInv
  <2> QED
    BY <1>4, <2>1, <2>2 DEF WaitingLoop
<1> QED
  BY <1>2, <1>3, <1>4

(* A worker takes a key or gives it back.                                  *)
LEMMA WorkerStep ==
    ASSUME QueueAndWorkers, NEW w \in Workers, Worker(w)
    PROVE  QueueAndWorkers'
<1>1. /\ queue \in Seq(Keys) /\ dirty \in SUBSET Keys
      /\ processing \in SUBSET Keys
      /\ worker \in [Workers -> Keys \cup {Off, Started, Blocked, Ended}]
      /\ Elements(queue) = dirty \ processing /\ Distinct(queue)
      /\ processing = {worker[v] : v \in Workers} \cap Keys
  BY DEF QueueAndWorkers, TypeOK, WorkQueueTypeOK, QueueInv, Distinct,
         OneWorkerPerKey
<1>2. CASE UntilStarts(w) \/ WorkerEnds(w)
  <2>1. PICK place \in {Blocked, Ended} :
           worker' = [worker EXCEPT ![w] = place]
    BY <1>2 DEF UntilStarts, WorkerEnds
  <2>2. worker[w] \notin Keys /\ place \notin Keys
    BY <1>2, WorkersAssumption DEF UntilStarts, WorkerEnds
  <2>3. UNCHANGED queueVars /\ UNCHANGED <<synced, cancelled, run>>
    BY <1>2 DEF UntilStarts, WorkerEnds
  <2>4. OneWorkerPerKey'
    BY <1>1, <2>1, <2>2, <2>3
       DEF QueueAndWorkers, OneWorkerPerKey, queueVars
  <2> QED
    BY <1>1, <2>1, <2>3, <2>4
       DEF QueueAndWorkers, TypeOK, WorkQueueTypeOK, QueueInv, queueVars,
           delayVars
<1>3. CASE TakeItem(w)
  <2>1. PICK key \in Keys : /\ Get(key)
                            /\ worker' = [worker EXCEPT ![w] = key]
    BY <1>3 DEF TakeItem
  <2>2. /\ queue' \in Seq(Keys) /\ Distinct(queue')
        /\ Elements(queue') = Elements(queue) \ {key}
        /\ key \in dirty /\ key \notin processing
    BY <1>1, <2>1, TailFacts DEF Get
  <2>3. QueueInv' /\ processing' \in SUBSET Keys /\ dirty' \in SUBSET Keys
    BY <1>1, <2>1, <2>2 DEF Get, QueueInv, Distinct
  <2>4. worker[w] = Blocked /\ Blocked \notin Keys
    BY <1>3, WorkersAssumption DEF TakeItem
  <2>5. OneWorkerPerKey'
    <3>1. \A v \in Workers : worker[v] # key
      BY <1>1, <2>2
    <3>2. /\ worker'[w] = key
          /\ \A v \in Workers \ {w} : worker'[v] = worker[v]
      BY <1>1, <2>1
    <3>3. {worker'[v] : v \in Workers} \cap Keys = processing \cup {key}
      BY <1>1, <2>4, <3>2
    <3> QED
      BY <2>1, <3>1, <3>2, <3>3 DEF Get, QueueAndWorkers, OneWorkerPerKey
  <2> QED
    BY <1>1, <1>3, <2>1, <2>2, <2>3, <2>5
       DEF TakeItem, Get, delayVars, QueueAndWorkers, TypeOK, WorkQueueTypeOK
<1>4. CASE FinishItem(w)
  <2> DEFINE key == worker[w]
  <2>1. /\ key \in Keys /\ Done(key)
        /\ worker' = [worker EXCEPT ![w] = Blocked]
    BY <1>4 DEF FinishItem
  <2>2. key \in processing /\ key \notin Elements(queue)
    BY <1>1, <2>1
  <2>3. /\ queue' \in Seq(Keys) /\ Distinct(queue')
        /\ Elements(queue') = IF key \in dirty THEN Elements(queue) \cup {key}
                                               ELSE Elements(queue)
    BY <1>1, <2>1, <2>2, AppendFacts DEF Done
  <2>4. QueueInv' /\ processing' \in SUBSET Keys
    BY <1>1, <2>1, <2>2, <2>3 DEF Done, QueueInv, Distinct
  <2>5. OneWorkerPerKey'
    <3>1. \A v \in Workers \ {w} : worker[v] # key
      BY <2>1 DEF QueueAndWorkers, OneWorkerPerKey
    <3>2. /\ worker'[w] = Blocked /\ Blocked \notin Keys
          /\ \A v \in Workers \ {w} : worker'[v] = worker[v]
      BY <1>1, <2>1, WorkersAssumption
    <3>3. {worker'[v] : v \in Workers} \cap Keys = processing \ {key}
      BY <1>1, <3>1, <3>2
    <3> QED
      BY <2>1, <3>2, <3>3 DEF Done, QueueAndWorkers, OneWorkerPerKey
  <2> QED
    BY <1>1, <1>4, <2>1, <2>3, <2>4, <2>5
       DEF FinishItem, Done, delayVars, QueueAndWorkers, TypeOK, WorkQueueTypeOK
<1> QED
  BY <1>2, <1>3, <1>4 DEF Worker

(* NotStarted is an invariant of its own.                                  *)
LEMMA NotStartedNext == TypeOK /\ NotStarted /\ [Next]_vars => NotStarted'
<1> SUFFICES ASSUME TypeOK, NotStarted, [Next]_vars PROVE NotStarted'
  OBVIOUS
<1>1. CASE WaitingLoop \/ \E key \in Keys : Enqueue(key) \/ DelayOver(key)
  BY <1>1 DEF WaitingLoop, Enqueue, DelayOver, runVars, NotStarted
<1>2. CASE CachesSync \/ Cancel \/ StartWorkers \/ RunReturns
  BY <1>2 DEF CachesSync, Cancel, StartWorkers, RunReturns, NotStarted
<1>3. ASSUME NEW w \in Workers, Worker(w) PROVE NotStarted'
  <2>1. worker[w] # Off
    BY <1>3, WorkersAssumption
       DEF Worker, UntilStarts, TakeItem, FinishItem, WorkerEnds
  <2> QED
    BY <1>3, <2>1 DEF Worker, UntilStarts, TakeItem, FinishItem, WorkerEnds,
                      NotStarted
<1>4. CASE UNCHANGED vars
  BY <1>4 DEF vars, runVars, NotStarted
<1> QED
  BY <1>1, <1>2, <1>3, <1>4 DEF Next

(* Every step preserves QueueAndWorkers.                                   *)
LEMMA QueueAndWorkersNext ==
    QueueAndWorkers /\ NotStarted /\ [Next]_vars => QueueAndWorkers'
<1> SUFFICES ASSUME QueueAndWorkers, NotStarted, [Next]_vars
             PROVE  QueueAndWorkers'
  OBVIOUS
<1>1. CASE WaitingLoop \/ \E key \in Keys : Enqueue(key) \/ DelayOver(key)
  BY <1>1, DelayStep
<1>2. CASE CachesSync \/ Cancel
  <2>1. UNCHANGED <<queueVars, worker, run>>
    BY <1>2 DEF CachesSync, Cancel
  <2>2. synced' \in BOOLEAN /\ cancelled' \in BOOLEAN
    BY <1>2 DEF CachesSync, Cancel, QueueAndWorkers, TypeOK
  <2> QED
    BY <2>1, <2>2 DEF queueVars, delayVars, QueueAndWorkers, TypeOK,
                      WorkQueueTypeOK, QueueInv, OneWorkerPerKey
<1>3. CASE StartWorkers
  <2>1. processing = {}
    BY <1>3, WorkersAssumption
       DEF StartWorkers, NotStarted, QueueAndWorkers, OneWorkerPerKey
  <2>2. worker' = [w \in Workers |-> Started] /\ Started \notin Keys
    BY <1>3, WorkersAssumption DEF StartWorkers
  <2>3. UNCHANGED <<queueVars, synced, cancelled>> /\ run' = "running"
    BY <1>3 DEF StartWorkers
  <2>4. OneWorkerPerKey'
    BY <2>1, <2>2, <2>3 DEF queueVars, OneWorkerPerKey
  <2> QED
    BY <2>2, <2>3, <2>4 DEF queueVars, delayVars, QueueAndWorkers, TypeOK,
                            WorkQueueTypeOK, QueueInv
<1>4. CASE RunReturns
  BY <1>4 DEF RunReturns, ShutDown, delayVars, QueueAndWorkers, TypeOK,
              WorkQueueTypeOK, QueueInv, OneWorkerPerKey
<1>5. ASSUME NEW w \in Workers, Worker(w) PROVE QueueAndWorkers'
  BY <1>5, WorkerStep
<1>6. CASE UNCHANGED vars
  BY <1>6 DEF vars, queueVars, delayVars, runVars, QueueAndWorkers, TypeOK,
              WorkQueueTypeOK, QueueInv, OneWorkerPerKey
<1> QED
  BY <1>1, <1>2, <1>3, <1>4, <1>5, <1>6 DEF Next

(* The initial state satisfies both.                                       *)
LEMMA QueueAndWorkersInit == Init => QueueAndWorkers /\ NotStarted
<1> SUFFICES ASSUME Init PROVE QueueAndWorkers /\ NotStarted
  OBVIOUS
<1>1. TypeOK
  <2>1. << >> \in Seq(Keys) /\ Len(<< >>) <= ChannelSize
    BY ChannelAssumption
  <2>2. worker \in [Workers -> Keys \cup {Off, Started, Blocked, Ended}]
    BY DEF Init
  <2>3. WorkQueueTypeOK
    BY <2>1 DEF Init, WorkQueueInit, WorkQueueTypeOK
  <2> QED
    BY <2>2, <2>3 DEF Init, TypeOK
<1>2. QueueInv
  BY DEF Init, WorkQueueInit, QueueInv, Elements
<1>3. OneWorkerPerKey /\ NotStarted
  BY WorkersAssumption DEF Init, WorkQueueInit, OneWorkerPerKey, NotStarted
<1> QED
  BY <1>1, <1>2, <1>3 DEF QueueAndWorkers

(* QueueAndWorkers holds in every reachable state.                         *)
LEMMA QueueAndWorkersInvariance == Spec => []QueueAndWorkers
<1>1. QueueAndWorkers => TypeOK
  BY DEF QueueAndWorkers
<1> QED
  BY <1>1, QueueAndWorkersInit, QueueAndWorkersNext, NotStartedNext, PTL
     DEF Spec

-----------------------------------------------------------------------------
(* Channel, heap, queue and workers always have their types: the channel   *)
(* never holds more than its capacity, with any number of event handlers.  *)
THEOREM TypeCorrect == Spec => []TypeOK
<1>1. QueueAndWorkers => TypeOK
  BY DEF QueueAndWorkers
<1> QED
  BY <1>1, QueueAndWorkersInvariance, PTL

(* The work queue always satisfies the invariant its comments state        *)
(* (queue.go:48), and its converse: a key that is dirty and that nobody    *)
(* processes is in the queue, once.                                        *)
THEOREM QueueInvariant == Spec => []QueueInv
<1>1. QueueAndWorkers => QueueInv
  BY DEF QueueAndWorkers
<1> QED
  BY <1>1, QueueAndWorkersInvariance, PTL

(* syncHandler never runs twice at a time for one cluster, with any number *)
(* of workers, clusters and events: this is what allows it to write into   *)
(* the cached object, and BrokerController to keep one frame per key.      *)
THEOREM OneWorker == Spec => []OneWorkerPerKey
<1>1. QueueAndWorkers => OneWorkerPerKey
  BY DEF QueueAndWorkers
<1> QED
  BY <1>1, QueueAndWorkersInvariance, PTL

-----------------------------------------------------------------------------
(* The queue as one key sees it.                                           *)

(* What Waiting says after Append and Tail.                                *)
LEMMA ChannelFacts ==
    ASSUME channel \in Seq(Keys), NEW key \in Keys
    PROVE  /\ Elements(Append(channel, key)) = Elements(channel) \cup {key}
           /\ channel # << >> =>
                 Elements(channel) = Elements(Tail(channel)) \cup {Head(channel)}
<1>1. Elements(Append(channel, key)) = Elements(channel) \cup {key}
  BY AppendFacts
<1>2. ASSUME channel # << >>
      PROVE  Elements(channel) = Elements(Tail(channel)) \cup {Head(channel)}
  <2>1. /\ Len(channel) \in Nat \ {0} /\ Head(channel) = channel[1]
        /\ DOMAIN channel = 1 .. Len(channel)
        /\ DOMAIN Tail(channel) = 1 .. Len(channel) - 1
        /\ \A i \in 1 .. Len(channel) - 1 : Tail(channel)[i] = channel[i + 1]
    BY <1>2
  <2>2. ASSUME NEW i \in 1 .. Len(channel)
        PROVE  channel[i] \in Elements(Tail(channel)) \cup {Head(channel)}
    <3>1. CASE i = 1
      BY <2>1, <3>1
    <3>2. CASE i # 1
      <4>1. i - 1 \in 1 .. Len(channel) - 1 /\ Tail(channel)[i - 1] = channel[i]
        BY <2>1, <3>2
      <4> QED
        BY <2>1, <4>1 DEF Elements
    <3> QED
      BY <3>1, <3>2
  <2>3. ASSUME NEW i \in 1 .. Len(channel) - 1
        PROVE  Tail(channel)[i] \in Elements(channel)
    BY <2>1 DEF Elements
  <2> QED
    BY <2>1, <2>2, <2>3 DEF Elements
<1> QED
  BY <1>1, <1>2

(* The shutdown, and steps after it, which no key notices.                 *)
LEMMA KeyShutDown ==
    ASSUME NEW key \in Keys, shuttingDown'
    PROVE  [KeyView(key)!KeyNext]_(KeyView(key)!queueVars)
BY DEF KeyView!KeyNext, KeyView!QueueReset

(* A step that changes nothing for the key.                                *)
LEMMA KeyUnchanged ==
    ASSUME NEW key \in Keys, shuttingDown' = shuttingDown,
           Waiting(key)' <=> Waiting(key),
           key \in dirty' <=> key \in dirty,
           key \in processing' <=> key \in processing
    PROVE  [KeyView(key)!KeyNext]_(KeyView(key)!queueVars)
BY DEF KeyView!queueVars

(* Add(key) at the end of the delay.                                       *)
LEMMA KeyAdded ==
    ASSUME NEW key \in Keys, ~shuttingDown, ~shuttingDown', Waiting(key),
           key \in dirty', key \in processing' <=> key \in processing
    PROVE  [KeyView(key)!KeyNext]_(KeyView(key)!queueVars)
BY DEF KeyView!KeyNext, KeyView!DelayOver

(* What Add(k) does to the dirty set, as the key sees it.                  *)
LEMMA AddDirties ==
    ASSUME NEW k, Add(k), ~shuttingDown
    PROVE  dirty' = dirty \cup {k}
BY DEF Add

(* Every step is, for every key, one of KeyQueue or none.                  *)
LEMMA KeyStep ==
    ASSUME QueueAndWorkers, [Next]_vars, NEW key \in Keys
    PROVE  [KeyView(key)!KeyNext]_(KeyView(key)!queueVars)
<1>1. /\ queue \in Seq(Keys) /\ channel \in Seq(Keys)
      /\ Elements(queue) = dirty \ processing
  BY DEF QueueAndWorkers, TypeOK, WorkQueueTypeOK, QueueInv
<1> SUFFICES ASSUME ~shuttingDown'
             PROVE  [KeyView(key)!KeyNext]_(KeyView(key)!queueVars)
  BY KeyShutDown
<1>2. ASSUME NEW k \in Keys, Enqueue(k)
      PROVE  [KeyView(key)!KeyNext]_(KeyView(key)!queueVars)
  <2>1. /\ ~shuttingDown /\ channel' = Append(channel, k)
        /\ UNCHANGED <<dirty, processing, heap, shuttingDown>>
    BY <1>2 DEF Enqueue, AddRateLimited
  <2>2. Elements(channel') = Elements(channel) \cup {k}
    BY <1>1, <2>1, ChannelFacts
  <2>3. Waiting(key)' <=> Waiting(key) \/ key = k
    BY <2>1, <2>2 DEF Waiting
  <2>4. CASE key = k
    BY <2>1, <2>3, <2>4 DEF KeyView!KeyNext, KeyView!AddRateLimited
  <2>5. CASE key # k
    BY <2>1, <2>3, <2>5, KeyUnchanged
  <2> QED
    BY <2>4, <2>5
<1>3. ASSUME NEW k \in Keys, DelayOver(k)
      PROVE  [KeyView(key)!KeyNext]_(KeyView(key)!queueVars)
  <2>1. /\ ~shuttingDown /\ k \in heap /\ heap' = heap \ {k} /\ Add(k)
        /\ UNCHANGED <<processing, channel, shuttingDown>>
    BY <1>3 DEF DelayOver, AddReady
  <2>2. dirty' = dirty \cup {k}
    BY <2>1, AddDirties
  <2>3. CASE key = k
    BY <2>1, <2>2, <2>3, KeyAdded DEF Waiting
  <2>4. CASE key # k
    <3>1. Waiting(key)' <=> Waiting(key)
      BY <2>1, <2>4 DEF Waiting
    <3> QED
      BY <2>1, <2>2, <2>4, <3>1, KeyUnchanged
  <2> QED
    BY <2>3, <2>4
<1>4. CASE Receive
  <2> DEFINE k == Head(channel)
  <2>1. /\ ~shuttingDown /\ channel # << >> /\ channel' = Tail(channel)
        /\ UNCHANGED <<processing, shuttingDown>>
    BY <1>4 DEF Receive
  <2>2. Elements(channel) = Elements(channel') \cup {k}
    BY <1>1, <2>1, ChannelFacts
  <2>3. CASE heap' = heap \cup {k} /\ UNCHANGED <<queue, dirty>>
    <3>1. Waiting(key)' <=> Waiting(key)
      BY <2>2, <2>3 DEF Waiting
    <3> QED
      BY <2>1, <2>3, <3>1, KeyUnchanged
  <2>4. CASE Add(k) /\ UNCHANGED heap
    <3>1. dirty' = dirty \cup {k}
      BY <2>1, <2>4, AddDirties
    <3>2. CASE key = k
      BY <2>1, <2>2, <3>1, <3>2, KeyAdded DEF Waiting
    <3>3. CASE key # k
      <4>1. Waiting(key)' <=> Waiting(key)
        BY <2>2, <2>4, <3>3 DEF Waiting
      <4> QED
        BY <2>1, <3>1, <3>3, <4>1, KeyUnchanged
    <3> QED
      BY <3>2, <3>3
  <2> QED
    BY <1>4, <2>3, <2>4 DEF Receive
<1>5. CASE \/ LoopEnds \/ CachesSync \/ Cancel \/ StartWorkers
           \/ \E w \in Workers : UntilStarts(w) \/ WorkerEnds(w)
           \/ UNCHANGED vars
  <2>1. UNCHANGED <<dirty, processing, channel, heap, shuttingDown>>
    BY <1>5 DEF LoopEnds, CachesSync, Cancel, StartWorkers, UntilStarts,
                WorkerEnds, vars, queueVars, delayVars
  <2> QED
    BY <2>1, KeyUnchanged DEF Waiting
<1>6. ASSUME NEW w \in Workers, TakeItem(w)
      PROVE  [KeyView(key)!KeyNext]_(KeyView(key)!queueVars)
  <2>1. PICK k \in Keys : Get(k)
    BY <1>6 DEF TakeItem
  <2>2. /\ k \in dirty \ processing /\ dirty' = dirty \ {k}
        /\ processing' = processing \cup {k}
        /\ UNCHANGED <<channel, heap, shuttingDown>>
    BY <1>1, <2>1, TailFacts DEF Get, delayVars
  <2>3. Waiting(key)' <=> Waiting(key)
    BY <2>2 DEF Waiting
  <2>4. CASE key = k
    BY <2>2, <2>3, <2>4 DEF KeyView!KeyNext, KeyView!Get
  <2>5. CASE key # k
    BY <2>2, <2>3, <2>5, KeyUnchanged
  <2> QED
    BY <2>4, <2>5
<1>7. ASSUME NEW w \in Workers, FinishItem(w)
      PROVE  [KeyView(key)!KeyNext]_(KeyView(key)!queueVars)
  <2> DEFINE k == worker[w]
  <2>1. /\ k \in processing /\ processing' = processing \ {k}
        /\ UNCHANGED <<dirty, channel, heap, shuttingDown>>
    BY <1>7 DEF FinishItem, Done, delayVars, QueueAndWorkers, OneWorkerPerKey
  <2>2. Waiting(key)' <=> Waiting(key)
    BY <2>1 DEF Waiting
  <2>3. CASE key = k
    BY <2>1, <2>2, <2>3 DEF KeyView!KeyNext, KeyView!Done
  <2>4. CASE key # k
    BY <2>1, <2>2, <2>4, KeyUnchanged
  <2> QED
    BY <2>3, <2>4
<1>8. ~RunReturns
  BY DEF RunReturns, ShutDown
<1> QED
  BY <1>2, <1>3, <1>4, <1>5, <1>6, <1>7, <1>8 DEF Next, WaitingLoop, Worker

(* The whole queue, with any number of keys, workers and handlers and with *)
(* its bounded channel, is for each key the KeyQueue that BrokerController *)
(* and Conditions are built on: no key's events are lost through another.  *)
THEOREM ImplementsKeyQueue == Spec => EachKeyIsAKeyQueue
<1>1. Init => \A key \in Keys : KeyView(key)!QueueInit
  BY DEF Init, WorkQueueInit, KeyView!QueueInit, Waiting, Elements
<1>2. QueueAndWorkers /\ [Next]_vars =>
         [\A key \in Keys : [KeyView(key)!KeyNext]_(KeyView(key)!queueVars)]_vars
  BY KeyStep
<1> QED
  BY <1>1, <1>2, QueueAndWorkersInvariance, PTL DEF Spec, EachKeyIsAKeyQueue
=============================================================================
