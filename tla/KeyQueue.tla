------------------------------ MODULE KeyQueue ------------------------------
(***************************************************************************)
(* The controller's rate-limited work queue as ONE key sees it: the        *)
(* namespace/name of one BrokerCluster.  A key is waiting (an              *)
(* AddRateLimited whose delay still runs), dirty (in the queue, or to be   *)
(* put back when the worker is done with it) and processing (a worker is   *)
(* inside syncHandler with it); the three are independent.                 *)
(*                                                                         *)
(* The queue proper holds the key exactly when it is dirty and not         *)
(* processing, so the order of the queue needs no variable here.           *)
(***************************************************************************)

VARIABLES
    waiting,        \* the delaying queue holds the key
    dirty,          \* Type.dirty has the key
    processing      \* Type.processing has the key

queueVars == <<waiting, dirty, processing>>

QueueTypeOK ==
    /\ waiting \in BOOLEAN
    /\ dirty \in BOOLEAN
    /\ processing \in BOOLEAN

QueueInit ==
    /\ waiting = FALSE
    /\ dirty = FALSE
    /\ processing = FALSE

-----------------------------------------------------------------------------
(* AddRateLimited(key): the item rate limiter's delay is at least its base *)
(* delay of 5ms, so the key always goes through the delaying queue.  A key *)
(* that waits already keeps one entry.                                     *)
AddRateLimited ==
    /\ waiting' = TRUE
    /\ UNCHANGED <<dirty, processing>>

(* The waiting loop finds the delay over and calls Add.  An entry still in *)
(* the loop's input channel may be added while another entry of the same   *)
(* key stays in the heap, hence waiting' is free.  Add on a dirty key is   *)
(* the early return of Add.                                                *)
DelayOver ==
    /\ waiting
    /\ waiting' \in BOOLEAN
    /\ dirty' = TRUE
    /\ UNCHANGED processing

(* Get hands the key to a worker.                                          *)
Get ==
    /\ dirty
    /\ ~processing
    /\ dirty' = FALSE
    /\ processing' = TRUE
    /\ UNCHANGED waiting

(* Mutant: Done forgets that the key was added again meanwhile.            *)
DoneForgets ==
    /\ processing
    /\ processing' = FALSE
    /\ dirty' = FALSE
    /\ UNCHANGED waiting

(* Done: the key leaves processing; when it is dirty it is in the queue    *)
(* again from that moment.                                                 *)
Done ==
    /\ processing
    /\ processing' = FALSE
    /\ UNCHANGED <<waiting, dirty>>

(* Everything the process kept in memory is gone.                          *)
QueueReset ==
    /\ waiting' = FALSE
    /\ dirty' = FALSE
    /\ processing' = FALSE

(* Some event will make a worker sync the key after now.                   *)
Pending == waiting \/ dirty

(* The promise of the queue to one key; ControllerRun shows that the whole *)
(* queue keeps it for every key.                                           *)
KeyNext == AddRateLimited \/ DelayOver \/ Get \/ Done \/ QueueReset
=============================================================================
