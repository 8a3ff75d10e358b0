----------------------------- MODULE Conditions -----------------------------
(***************************************************************************)
(* The status of one BrokerCluster down to its list of conditions with     *)
(* their transition times, and to the slices that hold it: the one of the  *)
(* object in the lister's cache, the copy a sync works on, and what the    *)
(* API server stores.  BrokerController has the same steps with the Ready  *)
(* status alone.                                                           *)
(*                                                                         *)
(* A slice is an address in heap; two variables with the same address      *)
(* share it.  Times and resourceVersions are only ever compared for        *)
(* equality, so a later second and the next version are values not in use. *)
(* A time is the second it falls in: that is what metav1.Time keeps on its *)
(* way to the API server.  The fraction that a time in memory has besides  *)
(* decides nothing: UpdateClusterCondition compares two times only after   *)
(* it has copied one from the other, or for conditions that differ anyway. *)
(***************************************************************************)
EXTENDS KeyQueue, Integers, Sequences

CONSTANTS
    RetrySteps,     \* retry.DefaultRetry.Steps
    Budget          \* bound on what brokers, users and the network do

ASSUME ConditionsAssumption == RetrySteps \in Nat \ {0} /\ Budget \in Nat

(* Enough for what can be in use at a time, and one more.                  *)
Times == 1 .. 7
Versions == 1 .. 5
Addresses == 1 .. 4

Condition ==
    [type : {"Ready", "Other"}, status : {"", "True", "False"},
     time : Times \cup {0}]

VARIABLES
    allReady,       \* the StatefulSets in the cache make the cluster ready
    server,         \* resourceVersion and Conditions at the API server
    cached,         \* the object in the lister's cache; its Conditions' slice
    heap,           \* the slices
    second,         \* of the last time put into a status
    pc, cluster,    \* syncHandler, and the object it got from the lister
    status,         \* slice of the status it computes
    upd,            \* resourceVersion of the copy it sends
    tries, conflict,
    budget

syncVars == <<pc, cluster, status, upd, tries, conflict>>
vars == <<allReady, server, cached, heap, second, syncVars, queueVars, budget>>

Object == [rv : Versions, conditions : Addresses]

TypeOK ==
    /\ allReady \in BOOLEAN
    /\ server.rv \in Versions /\ server.conditions \in Seq(Condition)
    /\ cached \in Object
    /\ heap \in [Addresses -> Seq(Condition)]
    /\ \A a \in Addresses : Len(heap[a]) <= 2
    /\ second \in Times
    /\ pc \in {"idle", "get", "sync", "put", "refetch", "return"}
    /\ cluster \in Object
    /\ status \in Addresses
    /\ upd \in Versions
    /\ tries \in 0 .. RetrySteps - 1
    /\ conflict \in BOOLEAN
    /\ budget \in 0 .. Budget
    /\ QueueTypeOK

Ready(value, time) == [type |-> "Ready", status |-> value, time |-> time]
Other == [type |-> "Other", status |-> "True", time |-> 1]

(* The operator has just listed a cluster that is new, or that an earlier  *)
(* operator reported on, perhaps with a condition of another client.       *)
Init ==
    /\ allReady \in BOOLEAN
    /\ \E conditions \in {<< >>, <<Ready("False", 1)>>,
                          <<Other, Ready("True", 1)>>} :
          /\ server = [rv |-> 1, conditions |-> conditions]
          /\ heap = [a \in Addresses |-> IF a = 1 THEN conditions ELSE << >>]
    /\ cached = [rv |-> 1, conditions |-> 1]
    /\ second = 1
    /\ pc = "idle" /\ cluster = cached /\ status = 1 /\ upd = 1
    /\ tries = 0 /\ conflict = FALSE
    /\ waiting = TRUE /\ dirty = FALSE /\ processing = FALSE
    /\ budget = Budget

-----------------------------------------------------------------------------
(* Fresh values.                                                           *)

(* The time "now": in the second of the last one, or in a later one.       *)
Now ==
    LET inUse == {server.conditions[i].time : i \in DOMAIN server.conditions}
                 \cup UNION {{heap[a][i].time : i \in DOMAIN heap[a]} :
                                a \in Addresses}
    IN  {second, CHOOSE time \in Times : time \notin inUse \cup {second}}

NextVersion ==
    CHOOSE rv \in Versions : rv \notin {server.rv, cached.rv, cluster.rv, upd}

(* Slices nobody refers to are empty.                                      *)
Collected(h, roots) == [a \in Addresses |-> IF a \in roots THEN h[a] ELSE << >>]

-----------------------------------------------------------------------------
(* The condition helpers, on a slice.                                      *)

(* The position of the first condition of a type, 0 if there is none.      *)
GetClusterCondition(conditions, type) ==
    IF \E i \in DOMAIN conditions : conditions[i].type = type
    THEN CHOOSE i \in DOMAIN conditions :
            /\ conditions[i].type = type
            /\ \A j \in 1 .. i - 1 : conditions[j].type # type
    ELSE 0

(* Mutant: an unchanged condition is stamped too.                          *)
StampedAlways(new, old) == new

(* Mutant: the time of the first report is kept for ever.                  *)
StampedOnce(new, old) == [new EXCEPT !.time = old.time]

(* The condition as it is stored: with its old time if its status is old.  *)
Stamped(new, old) ==
    IF new.status = old.status THEN [new EXCEPT !.time = old.time] ELSE new

(* Mutant: Status.DeepCopy is left out, the status shares the slice.       *)
SharedSlice(conditions) == conditions

(* DeepCopy of a status makes a slice of its own.                          *)
DeepCopy(conditions) ==
    CHOOSE a \in Addresses : a \notin {conditions, cached.conditions}

-----------------------------------------------------------------------------
(* The environment: brokers, users, the informer, the queue.               *)

Spend == budget > 0 /\ budget' = budget - 1

BrokersChange ==
    /\ Spend
    /\ allReady' = ~allReady
    /\ AddRateLimited
    /\ UNCHANGED <<server, cached, heap, second, syncVars>>

UserEdits ==
    /\ Spend
    /\ server' = [server EXCEPT !.rv = NextVersion]
    /\ UNCHANGED <<allReady, cached, heap, second, syncVars, queueVars>>

(* The watch delivers the server's object, which is a new one.             *)
Inform ==
    /\ cached.rv # server.rv
    /\ LET a == CHOOSE a \in Addresses :
                   a \notin {cached.conditions, cluster.conditions, status}
       IN  /\ cached' = [rv |-> server.rv, conditions |-> a]
           /\ heap' = Collected([heap EXCEPT ![a] = server.conditions],
                                {a, cluster.conditions, status})
    /\ AddRateLimited
    /\ UNCHANGED <<allReady, server, second, syncVars, budget>>

Resync ==
    /\ AddRateLimited
    /\ UNCHANGED <<allReady, server, cached, heap, second, syncVars, budget>>

QueueDelayOver ==
    /\ DelayOver
    /\ UNCHANGED <<allReady, server, cached, heap, second, syncVars, budget>>

-----------------------------------------------------------------------------
(* The worker.                                                             *)

GetItem ==
    /\ Get
    /\ pc' = "get"
    /\ UNCHANGED <<allReady, server, cached, heap, second, cluster, status,
                   upd, tries, conflict, budget>>

(* The lister returns a pointer to its own object.                         *)
Lister ==
    /\ pc = "get"
    /\ pc' = "sync"
    /\ cluster' = cached
    /\ status' = cached.conditions
    /\ heap' = Collected(heap, {cached.conditions})
    /\ UNCHANGED <<allReady, server, cached, second, upd, tries, conflict,
                   queueVars, budget>>

(* The new Status and time go through the pointer to the condition into    *)
(* the slice of the cache; then the old time, if the copy says that the    *)
(* status is the old one; a condition that is missing goes into the copy.  *)
(* A "now" that gives way to the old time leaves no trace.                 *)
updateClusterStatus ==
    /\ pc = "sync"
    /\ \E now \in Now :
       LET a == cluster.conditions
           s == DeepCopy(a)
           copied == [heap EXCEPT ![s] = heap[a]]
           i == GetClusterCondition(copied[a], "Ready")
           new == Ready(IF allReady THEN "True" ELSE "False", now)
           written == IF i = 0 THEN copied ELSE [copied EXCEPT ![a][i] = new]
           old == written[s][i]
           stored == Stamped(new, old)
       IN  /\ heap' = Collected(
                         IF i = 0 THEN [copied EXCEPT ![s] = Append(@, new)]
                         ELSE [written EXCEPT ![a][i] = stored, ![s][i] = stored],
                         {cached.conditions, a, s})
           /\ pc' = IF i = 0 \/ stored # old THEN "put" ELSE "return"
           /\ status' = s
           /\ second' = IF i = 0 \/ stored # old THEN now ELSE second
    /\ upd' = cluster.rv
    /\ UNCHANGED <<allReady, server, cached, cluster, tries, conflict, queueVars,
                   budget>>

(* The API server takes the update of the version it has.  One that        *)
(* changes nothing, which a retry can be, makes no version.                *)
Accepted ==
    /\ pc = "put" /\ upd = server.rv
    /\ server' = IF heap[status] = server.conditions THEN server
                 ELSE [rv |-> NextVersion, conditions |-> heap[status]]
    /\ UNCHANGED <<allReady, cached, heap, second, cluster, status, upd, tries,
                   queueVars>>

Update ==
    /\ Accepted
    /\ pc' = "return"
    /\ UNCHANGED <<conflict, budget>>

(* The update is stored and its answer lost.                               *)
UpdateAnswerLost ==
    /\ Accepted
    /\ Spend
    /\ pc' = "refetch"
    /\ conflict' = FALSE

UpdateConflict ==
    /\ pc = "put" /\ upd # server.rv
    /\ pc' = "refetch"
    /\ conflict' = TRUE
    /\ UNCHANGED <<allReady, server, cached, heap, second, cluster, status,
                   upd, tries, queueVars, budget>>

Retry(last) ==
    /\ pc = "refetch"
    /\ IF conflict /\ tries < last
       THEN pc' = "put" /\ upd' = cached.rv /\ tries' = tries + 1
       ELSE pc' = "return" /\ UNCHANGED <<upd, tries>>
    /\ UNCHANGED <<allReady, server, cached, heap, second, cluster, status,
                   conflict, queueVars, budget>>

(* Mutant: one attempt more than Steps.                                    *)
RefetchOnceMore == Retry(RetrySteps)

(* The next attempt sends the same status with the lister's object.        *)
Refetch == Retry(RetrySteps - 1)

(* The frame of syncHandler is gone; what it pointed to is collected.  The *)
(* lister's slice gets the address 1 again, as nothing refers to it now    *)
(* but the lister: that keeps the states few, and is no step of the code.  *)
FinishItem ==
    /\ pc = "return"
    /\ Done
    /\ pc' = "idle" /\ tries' = 0 /\ conflict' = FALSE
    /\ cached' = [cached EXCEPT !.conditions = 1]
    /\ cluster' = cached' /\ status' = 1 /\ upd' = cached.rv
    /\ heap' = Collected([heap EXCEPT ![1] = heap[cached.conditions]], {1})
    /\ UNCHANGED <<allReady, server, second, budget>>

Worker ==
    \/ GetItem \/ Lister \/ updateClusterStatus
    \/ Update \/ UpdateAnswerLost \/ UpdateConflict \/ Refetch \/ FinishItem

Next ==
    \/ BrokersChange \/ UserEdits \/ Inform \/ Resync \/ QueueDelayOver
    \/ Worker

Spec == Init /\ [][Next]_vars

(* As in BrokerController; nothing here needs the resync.                  *)
FairSpec ==
    Spec /\ WF_vars(Inform) /\ WF_vars(QueueDelayOver) /\ WF_vars(Worker)

-----------------------------------------------------------------------------
(* Properties.                                                             *)

ReadyOf(conditions) ==
    LET i == GetClusterCondition(conditions, "Ready")
    IN  IF i = 0 THEN {} ELSE {conditions[i]}

(* updateClusterStatus writes into the lister's object what it only means  *)
(* to send.  Between syncs this is never seen as the server's word: an     *)
(* object of the server's current version has the server's conditions.     *)
(* The cached version that was written into is out of date by then, if no  *)
(* PUT fails otherwise than by conflict.                                   *)
CacheTellsTheTruth ==
    pc = "idle" /\ cached.rv = server.rv =>
        heap[cached.conditions] = server.conditions

(* Every status the operator stores comes back as an event of its own      *)
(* informer and makes it sync again.  This dies down: the stored object    *)
(* stops changing, because an unchanged status keeps its time and is not   *)
(* sent (UpdateClusterCondition).                                          *)
UpdatesStop == <>[][server' = server]_vars

(* controller.go:403: the status reflects "the current state of the        *)
(* world".  It does in the end, through conflicts with the user's edits,   *)
(* lost answers, and readiness that changes under a sync, and without any  *)
(* resync.                                                                 *)
StatusConverges ==
    <>[](\E c \in ReadyOf(server.conditions) :
            c.status = IF allReady THEN "True" ELSE "False")

(* util.go:41: "Sets LastTransitionTime to now if the status has changed". *)
(* A status that flips at the API server is stored with the second of the  *)
(* sync that computed it, even after conflicts and retries, and the first  *)
(* attempt of an update never moves the time without a flip.               *)
TimesFollowFlips ==
    [][\A old \in ReadyOf(server.conditions), new \in ReadyOf(server'.conditions) :
          /\ old.status # new.status => new.time = second
          /\ old.status = new.status /\ old.time # new.time => tries > 0]_vars

(* The same line, taken at its word: the stored time moves only with the   *)
(* stored status.  A retry breaks it: its status was made from an object   *)
(* that did not have the last transition yet, and after the conflict its   *)
(* own "now" replaces the time of that one.                                *)
TimeMovesWithStatus ==
    [][\A old \in ReadyOf(server.conditions), new \in ReadyOf(server'.conditions) :
          old.status = new.status => old.time = new.time]_vars
=============================================================================
