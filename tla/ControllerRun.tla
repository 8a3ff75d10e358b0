--------------------------- MODULE ControllerRun ----------------------------
(***************************************************************************)
(* The life of the controller: event handlers put keys on the work queue,  *)
(* Run waits for the caches, starts its workers, waits for the context to  *)
(* be cancelled and shuts the queue down; each worker loops over           *)
(* processNextWorkItem.  What syncHandler does with a key is the subject   *)
(* of BrokerController, which sees the queue of one key (KeyQueue).        *)
(***************************************************************************)
EXTENDS WorkQueue

CONSTANTS
    Workers,        \* goroutines started by Run (threadiness)
    Off,            \* a worker before Run starts it
    Started,        \* at the head of wait.Until
    Blocked,        \* inside Get
    Ended           \* wait.Until has returned

ASSUME WorkersAssumption ==
    /\ {Off, Started, Blocked, Ended} \cap Keys = {}
    /\ Off # Started /\ Off # Blocked /\ Off # Ended
    /\ Started # Blocked /\ Started # Ended /\ Blocked # Ended

VARIABLES
    worker,         \* where each worker is; a key while it syncs that key
    synced,         \* the informers have delivered their lists
    cancelled,      \* the context is done
    run             \* where Run is

runVars == <<worker, synced, cancelled, run>>
vars == <<queueVars, runVars>>

TypeOK ==
    /\ WorkQueueTypeOK
    /\ worker \in [Workers -> Keys \cup {Off, Started, Blocked, Ended}]
    /\ synced \in BOOLEAN
    /\ cancelled \in BOOLEAN
    /\ run \in {"syncing", "running", "returned"}

Init ==
    /\ WorkQueueInit
    /\ worker = [w \in Workers |-> Off]
    /\ synced = FALSE
    /\ cancelled = FALSE
    /\ run = "syncing"

-----------------------------------------------------------------------------
(* An event handler of an informer enqueues a cluster.                     *)
Enqueue(key) ==
    /\ AddRateLimited(key)
    /\ UNCHANGED runVars

WaitingLoop ==
    /\ \/ Receive
       \/ LoopEnds
    /\ UNCHANGED runVars

DelayOver(key) ==
    /\ AddReady(key)
    /\ UNCHANGED runVars

CachesSync ==
    /\ ~synced
    /\ synced' = TRUE
    /\ UNCHANGED <<queueVars, worker, cancelled, run>>

(* SIGINT or SIGTERM calls the context's cancel function.                  *)
Cancel ==
    /\ ~cancelled
    /\ cancelled' = TRUE
    /\ UNCHANGED <<queueVars, worker, synced, run>>

(* WaitForCacheSync succeeds, and the workers are started.                 *)
StartWorkers ==
    /\ run = "syncing"
    /\ synced
    /\ run' = "running"
    /\ worker' = [w \in Workers |-> Started]
    /\ UNCHANGED <<queueVars, synced, cancelled>>

(* Mutant: Run forgets to shut the queue down.                             *)
RunJustReturns ==
    /\ run # "returned"
    /\ cancelled
    /\ run' = "returned"
    /\ UNCHANGED <<queueVars, worker, synced, cancelled>>

(* The context is done: Run returns, from WaitForCacheSync or from its     *)
(* end, and its deferred ShutDown runs.  The workers are not waited for.   *)
RunReturns ==
    /\ run # "returned"
    /\ cancelled
    /\ run' = "returned"
    /\ ShutDown
    /\ UNCHANGED <<worker, synced, cancelled>>

-----------------------------------------------------------------------------
(* One worker: wait.Until over runWorker over processNextWorkItem.         *)

UntilStarts(w) ==
    /\ worker[w] = Started
    /\ worker' = [worker EXCEPT ![w] = IF cancelled THEN Ended ELSE Blocked]
    /\ UNCHANGED <<queueVars, synced, cancelled, run>>

TakeItem(w) ==
    /\ worker[w] = Blocked
    /\ \E key \in Keys :
          /\ Get(key)
          /\ worker' = [worker EXCEPT ![w] = key]
    /\ UNCHANGED <<synced, cancelled, run>>

(* syncHandler has returned; Done is deferred, with or without an error.   *)
FinishItem(w) ==
    /\ worker[w] \in Keys
    /\ Done(worker[w])
    /\ worker' = [worker EXCEPT ![w] = Blocked]
    /\ UNCHANGED <<synced, cancelled, run>>

(* Get reports the shutdown once the queue is empty.                       *)
WorkerEnds(w) ==
    /\ worker[w] = Blocked
    /\ queue = << >>
    /\ shuttingDown
    /\ worker' = [worker EXCEPT ![w] = Ended]
    /\ UNCHANGED <<queueVars, synced, cancelled, run>>

Worker(w) == UntilStarts(w) \/ TakeItem(w) \/ FinishItem(w) \/ WorkerEnds(w)

Next ==
    \/ \E key \in Keys : Enqueue(key) \/ DelayOver(key)
    \/ WaitingLoop
    \/ CachesSync \/ Cancel \/ StartWorkers \/ RunReturns
    \/ \E w \in Workers : Worker(w)

Spec == Init /\ [][Next]_vars

(* Goroutines that can move do, and syncHandler returns.  Nobody has to    *)
(* send an event or a signal.                                              *)
Fairness ==
    /\ WF_vars(WaitingLoop)
    /\ \A key \in Keys : WF_vars(DelayOver(key))
    /\ WF_vars(CachesSync)
    /\ WF_vars(StartWorkers)
    /\ WF_vars(RunReturns)
    /\ \A w \in Workers : WF_vars(Worker(w))

FairSpec == Spec /\ Fairness

-----------------------------------------------------------------------------
(* Properties.                                                             *)

(* A key is in the hands of one worker at most, and of one exactly when it *)
(* is in the processing set: syncHandler never runs twice at a time for a  *)
(* cluster.                                                                *)
OneWorkerPerKey ==
    /\ \A v, w \in Workers : worker[v] \in Keys /\ worker[v] = worker[w] => v = w
    /\ processing = {worker[w] : w \in Workers} \cap Keys

Waiting(key) == key \in Elements(channel) \cup heap

(* For each key the queue is the KeyQueue that BrokerController uses; it   *)
(* promises nothing any more once it is shut down.                         *)
KeyView(key) ==
    INSTANCE KeyQueue WITH
        waiting <- ~shuttingDown /\ Waiting(key),
        dirty <- ~shuttingDown /\ key \in dirty,
        processing <- ~shuttingDown /\ key \in processing

EachKeyIsAKeyQueue ==
    /\ \A key \in Keys : KeyView(key)!QueueInit
    /\ [][\A key \in Keys :
              [KeyView(key)!KeyNext]_(KeyView(key)!queueVars)]_vars

(* Until the controller is cancelled, an event reaches the queue, and a    *)
(* key in the queue, or set aside while a worker has it, is handed to a    *)
(* worker after that; other keys and their events do not starve it.        *)
EventsServed ==
    \A key \in Keys :
        /\ Waiting(key) ~> (key \in dirty \/ cancelled)
        /\ key \in dirty ~> (key \notin dirty \/ cancelled)

(* A cancelled controller comes to rest: Run returns, and every worker     *)
(* that was started drains the queue and ends.  Run does not wait for the  *)
(* workers, although the comment at controller.go:221 says so; in the      *)
(* operator the process usually ends before they do.                       *)
Terminates ==
    cancelled ~> /\ run = "returned"
                 /\ \A w \in Workers : worker[w] \in {Off, Ended}
=============================================================================
