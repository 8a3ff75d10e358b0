-------------------------- MODULE ConditionsProofs --------------------------
(***************************************************************************)
(* Theorems about Conditions, for every number of attempts and of          *)
(* disturbances: type correctness, that the lister's object tells the      *)
(* truth between syncs although a sync writes into it, and that transition *)
(* times follow the flips of the status.                                   *)
(***************************************************************************)
EXTENDS Conditions, TLAPS

(* The lists of conditions there are: none; the Ready condition; and the   *)
(* Ready condition behind one of another client.                           *)
ReadyCondition ==
    [type : {"Ready"}, status : {"True", "False"}, time : Times]

List ==
    {<< >>} \cup {<<c>> : c \in ReadyCondition}
            \cup {<<Other, c>> : c \in ReadyCondition}

ReadyAt(conditions) == conditions[Len(conditions)]

(* The variables, with lists of this shape.                                *)
ShapeOK ==
    /\ server \in [rv : Versions, conditions : List]
    /\ heap \in [Addresses -> List]
    /\ cached \in Object /\ cluster \in Object
    /\ status \in Addresses
    /\ upd \in Versions
    /\ second \in Times

(* The rest of TypeOK.                                                     *)
ControlOK ==
    /\ allReady \in BOOLEAN
    /\ pc \in {"idle", "get", "sync", "put", "refetch", "return"}
    /\ tries \in 0 .. RetrySteps - 1
    /\ conflict \in BOOLEAN
    /\ budget \in 0 .. Budget
    /\ QueueTypeOK
    /\ ~processing => pc = "idle"
    /\ pc \in {"idle", "get", "sync"} => tries = 0

(* Slices without a reference are empty, so that fewer times are in use    *)
(* than there are; a shared slice is that of one version of the object.    *)
HeapOK ==
    /\ \A a \in Addresses :
          a \notin {cached.conditions, cluster.conditions, status} =>
             heap[a] = << >>
    /\ cached.conditions = cluster.conditions => cached.rv = cluster.rv

(* The lister's object was written into by the sync that is about to send  *)
(* the same version, and the server will take it.                          *)
Sending == pc = "put" /\ upd = server.rv /\ tries = 0

(* Otherwise an object of the server's version has its conditions.         *)
TruthOK ==
    /\ cached.rv = server.rv /\ ~Sending =>
          heap[cached.conditions] = server.conditions
    /\ pc = "sync" /\ cluster.rv = server.rv =>
          heap[cluster.conditions] = server.conditions

(* A status that is still to be sent has the time of this sync, and a      *)
(* first attempt that the server will take has another status.             *)
FlipOK ==
    /\ pc = "put" \/ (pc = "refetch" /\ conflict) =>
          heap[status] # << >> /\ ReadyAt(heap[status]).time = second
    /\ Sending /\ server.conditions # << >> =>
          ReadyAt(heap[status]).status # ReadyAt(server.conditions).status

CondInv == ShapeOK /\ ControlOK /\ HeapOK /\ TruthOK /\ FlipOK

-----------------------------------------------------------------------------
(* Facts about lists.                                                      *)

(* A list is empty, or ends in the Ready condition; only the condition of  *)
(* another client may come before it.                                      *)
LEMMA ListParts ==
    ASSUME NEW l \in List
    PROVE  /\ Len(l) \in 0 .. 2
           /\ DOMAIN l = 1 .. Len(l)
           /\ l = << >> <=> Len(l) = 0
           /\ l # << >> => /\ ReadyAt(l) \in ReadyCondition
                           /\ Len(l) \in DOMAIN l
           /\ \A i \in DOMAIN l : i = Len(l) \/ l[i] = Other
<1>1. CASE l = << >>
  BY <1>1
<1>2. ASSUME NEW c \in ReadyCondition, l = <<c>>
      PROVE  /\ Len(l) = 1 /\ DOMAIN l = 1 .. 1 /\ l[1] = c /\ l # << >>
  BY <1>2
<1>3. ASSUME NEW c \in ReadyCondition, l = <<Other, c>>
      PROVE  /\ Len(l) = 2 /\ DOMAIN l = 1 .. 2 /\ l[1] = Other /\ l[2] = c
             /\ l # << >>
  BY <1>3
<1>4. CASE \E c \in ReadyCondition : l = <<c>>
  BY <1>2, <1>4 DEF ReadyAt
<1>5. CASE \E c \in ReadyCondition : l = <<Other, c>>
  BY <1>3, <1>5 DEF ReadyAt
<1> QED
  BY <1>1, <1>4, <1>5 DEF List

(* GetClusterCondition finds the Ready condition at the end.               *)
LEMMA ListPosition ==
    ASSUME NEW l \in List
    PROVE  GetClusterCondition(l, "Ready") = Len(l)
<1>1. CASE l = << >>
  BY <1>1 DEF GetClusterCondition
<1>2. CASE l # << >>
  <2>1. /\ Len(l) \in DOMAIN l /\ l[Len(l)].type = "Ready"
        /\ \A i \in DOMAIN l : i = Len(l) \/ l[i].type # "Ready"
    BY <1>2, ListParts DEF ReadyAt, ReadyCondition, Other
  <2>2. \A j \in 1 .. Len(l) - 1 : l[j].type # "Ready"
    BY <1>2, <2>1, ListParts
  <2>3. Len(l) = CHOOSE i \in DOMAIN l :
                    /\ l[i].type = "Ready"
                    /\ \A j \in 1 .. i - 1 : l[j].type # "Ready"
    BY <2>1, <2>2
  <2> QED
    BY <2>1, <2>3 DEF GetClusterCondition
<1> QED
  BY <1>1, <1>2

(* Replacing the Ready condition.                                          *)
LEMMA ListReplace ==
    ASSUME NEW l \in List, l # << >>, NEW c \in ReadyCondition
    PROVE  /\ [l EXCEPT ![Len(l)] = c] \in List
           /\ [l EXCEPT ![Len(l)] = c] # << >>
           /\ ReadyAt([l EXCEPT ![Len(l)] = c]) = c
           /\ Len([l EXCEPT ![Len(l)] = c]) = Len(l)
           /\ [l EXCEPT ![Len(l)] = c][Len(l)] = c
           /\ c = ReadyAt(l) => [l EXCEPT ![Len(l)] = c] = l
<1>1. ASSUME NEW d \in ReadyCondition, l = <<d>>
      PROVE  [l EXCEPT ![Len(l)] = c] = <<c>>
  BY <1>1
<1>2. ASSUME NEW d \in ReadyCondition, l = <<Other, d>>
      PROVE  [l EXCEPT ![Len(l)] = c] = <<Other, c>>
  BY <1>2
<1>3. CASE \E d \in ReadyCondition : l = <<d>>
  BY <1>1, <1>3 DEF ReadyAt, List
<1>4. CASE \E d \in ReadyCondition : l = <<Other, d>>
  BY <1>2, <1>4 DEF ReadyAt, List
<1> QED
  BY <1>3, <1>4 DEF List

(* Of two writes to one place the second counts.                           *)
LEMMA ListOverwrite ==
    ASSUME NEW l, NEW i, NEW c, NEW d
    PROVE  [[l EXCEPT ![i] = c] EXCEPT ![i] = d] = [l EXCEPT ![i] = d]
OBVIOUS

(* A list with its first condition.                                        *)
LEMMA ListFirst ==
    ASSUME NEW c \in ReadyCondition
    PROVE  /\ Append(<< >>, c) \in List
           /\ Append(<< >>, c) # << >>
           /\ ReadyAt(Append(<< >>, c)) = c
<1>1. Append(<< >>, c) = <<c>>
  OBVIOUS
<1> QED
  BY <1>1 DEF ReadyAt, List

(* Lists are what TypeOK says.                                             *)
LEMMA ListType ==
    ASSUME NEW l \in List
    PROVE  l \in Seq(Condition) /\ Len(l) <= 2
<1>1. Other \in Condition
  BY DEF Other, Condition, Times
<1>2. ReadyCondition \subseteq Condition
  BY DEF ReadyCondition, Condition
<1>3. ASSUME NEW c \in ReadyCondition
      PROVE  /\ <<c>> \in Seq(Condition) /\ Len(<<c>>) <= 2
             /\ <<Other, c>> \in Seq(Condition) /\ Len(<<Other, c>>) <= 2
  BY <1>1, <1>2
<1>4. << >> \in Seq(Condition) /\ Len(<< >>) <= 2
  OBVIOUS
<1> QED
  BY <1>3, <1>4 DEF List

(* The Ready condition of a list.                                          *)
LEMMA ListReady ==
    ASSUME NEW l \in List
    PROVE  ReadyOf(l) = IF l = << >> THEN {} ELSE {ReadyAt(l)}
BY ListPosition, ListParts DEF ReadyOf, ReadyAt

-----------------------------------------------------------------------------
(* Fresh values: there is always one that is not in use.                   *)

(* "Now" is always a time: there is one for a later second.                *)
LEMMA FreshNow ==
    ASSUME ShapeOK, HeapOK
    PROVE  Now \subseteq Times
<1> DEFINE T(l) == {l[i].time : i \in DOMAIN l}
           inUse == T(server.conditions) \cup UNION {T(heap[a]) : a \in Addresses}
<1>1. \A l \in List : \E t : T(l) \subseteq {1, t}
  <2> SUFFICES ASSUME NEW l \in List PROVE \E t : T(l) \subseteq {1, t}
    OBVIOUS
  <2>1. \A i \in DOMAIN l : i = Len(l) \/ l[i] = Other
    BY ListParts
  <2>2. T(l) \subseteq {1, ReadyAt(l).time}
    BY <2>1 DEF Other, ReadyAt
  <2> QED
    BY <2>2
<1>2. /\ server.conditions \in List
      /\ heap[cached.conditions] \in List
      /\ heap[cluster.conditions] \in List
      /\ heap[status] \in List
  BY DEF ShapeOK, Object
<1> HIDE DEF T
<1>3. PICK t0 : T(server.conditions) \subseteq {1, t0}
  BY <1>1, <1>2
<1>4. PICK t1 : T(heap[cached.conditions]) \subseteq {1, t1}
  BY <1>1, <1>2
<1>5. PICK t2 : T(heap[cluster.conditions]) \subseteq {1, t2}
  BY <1>1, <1>2
<1>6. PICK t3 : T(heap[status]) \subseteq {1, t3}
  BY <1>1, <1>2
<1>7. ASSUME NEW a \in Addresses
      PROVE  T(heap[a]) \subseteq {1, t1, t2, t3}
  <2>1. CASE a \in {cached.conditions, cluster.conditions, status}
    BY <1>4, <1>5, <1>6, <2>1
  <2>2. CASE heap[a] = << >>
    BY <2>2 DEF T
  <2> QED
    BY <2>1, <2>2 DEF HeapOK
<1>8. inUse \subseteq {1, t0, t1, t2, t3}
  BY <1>3, <1>7
<1>9. \E t \in Times : t \notin {1, t0, t1, t2, t3, second}
  BY DEF Times
<1> HIDE DEF inUse
<1>10. \E t \in Times : t \notin inUse \cup {second}
  BY <1>8, <1>9
<1>11. Now = {second, CHOOSE t \in Times : t \notin inUse \cup {second}}
  BY DEF Now, inUse, T
<1> QED
  BY <1>10, <1>11 DEF ShapeOK

(* The next version is one that no object in sight has.                    *)
LEMMA FreshVersion ==
    /\ NextVersion \in Versions
    /\ NextVersion \notin {server.rv, cached.rv, cluster.rv, upd}
<1>1. \A a, b, c, d : \E rv \in Versions : rv \notin {a, b, c, d}
  BY DEF Versions
<1>2. \E rv \in Versions : rv \notin {server.rv, cached.rv, cluster.rv, upd}
  BY <1>1
<1> QED
  BY <1>2 DEF NextVersion

(* There is an address for a new slice.                                    *)
LEMMA FreshAddress ==
    ASSUME NEW a, NEW b, NEW c
    PROVE  \E d \in Addresses : d \notin {a, b, c}
BY DEF Addresses

(* DeepCopy makes a slice of its own.                                      *)
LEMMA CopyIsFresh ==
    ASSUME NEW a
    PROVE  DeepCopy(a) \in Addresses /\ DeepCopy(a) \notin {a, cached.conditions}
<1>1. \E d \in Addresses : d \notin {a, cached.conditions}
  BY DEF Addresses
<1> QED
  BY <1>1 DEF DeepCopy

-----------------------------------------------------------------------------
(* The steps on the heap.                                                  *)

(* Collecting garbage keeps the roots and empties the rest.                *)
LEMMA CollectedHeap ==
    ASSUME NEW h \in [Addresses -> List], NEW roots
    PROVE  /\ Collected(h, roots) \in [Addresses -> List]
           /\ \A b \in Addresses :
                 Collected(h, roots)[b] = IF b \in roots THEN h[b] ELSE << >>
<1>1. << >> \in List
  BY DEF List
<1> QED
  BY <1>1 DEF Collected

(* The condition computed is a Ready condition with the time "now"; it is  *)
(* stored as it is, or as the old one if that has its status.              *)
LEMMA StampedReady ==
    ASSUME ShapeOK, HeapOK, NEW old \in ReadyCondition, NEW now \in Now,
           NEW new, new = Ready(IF allReady THEN "True" ELSE "False", now)
    PROVE  /\ new \in ReadyCondition /\ new.time = now
           /\ Stamped(new, old) \in ReadyCondition
           /\ IF new.status = old.status THEN Stamped(new, old) = old
                                         ELSE Stamped(new, old) = new
<1>1. now \in Times
  BY FreshNow
<1>2. new \in ReadyCondition /\ new.time = now
  BY <1>1 DEF Ready, ReadyCondition
<1>3. new.status = old.status => Stamped(new, old) = old
  BY <1>2 DEF Stamped, ReadyCondition
<1> QED
  BY <1>2, <1>3 DEF Stamped

(* What updateClusterStatus leaves: the status of the object it got and    *)
(* the copy are the same if there was a Ready condition, and nothing       *)
(* changed if that had the status already.  Otherwise the copy has the     *)
(* other status, and the time "now".                                       *)
LEMMA StatusEffect ==
    ASSUME CondInv, updateClusterStatus
    PROVE  /\ heap' \in [Addresses -> List]
           /\ status' \in Addresses
           /\ status' \notin {cluster.conditions, cached.conditions}
           /\ pc' \in {"put", "return"}
           /\ second' \in Times
           /\ \A b \in Addresses :
                 b \notin {cached.conditions, cluster.conditions, status'} =>
                    heap'[b] = << >>
           /\ cached.conditions # cluster.conditions =>
                 heap'[cached.conditions] = heap[cached.conditions]
           /\ pc' = "return" =>
                 heap'[cluster.conditions] = heap[cluster.conditions]
           /\ pc' = "put" =>
                 /\ heap'[status'] # << >>
                 /\ ReadyAt(heap'[status']).time = second'
                 /\ heap[cluster.conditions] # << >> =>
                       ReadyAt(heap'[status']).status
                          # ReadyAt(heap[cluster.conditions]).status
<1> DEFINE a == cluster.conditions
           s == DeepCopy(a)
           copied == [heap EXCEPT ![s] = heap[a]]
           i == GetClusterCondition(copied[a], "Ready")
           New(now) == Ready(IF allReady THEN "True" ELSE "False", now)
           Written(now) == IF i = 0 THEN copied
                           ELSE [copied EXCEPT ![a][i] = New(now)]
           Old(now) == Written(now)[s][i]
           Stored(now) == Stamped(New(now), Old(now))
           Final(now) == IF i = 0 THEN [copied EXCEPT ![s] = Append(@, New(now))]
                         ELSE [Written(now) EXCEPT ![a][i] = Stored(now),
                                                   ![s][i] = Stored(now)]
           Kept(now) == i = 0 \/ Stored(now) # Old(now)
<1>0. PICK now \in Now :
         /\ heap' = Collected(Final(now), {cached.conditions, a, s})
         /\ pc' = IF Kept(now) THEN "put" ELSE "return"
         /\ status' = s
         /\ second' = IF Kept(now) THEN now ELSE second
  BY DEF updateClusterStatus
<1> DEFINE new == New(now)
           written == IF i = 0 THEN copied ELSE [copied EXCEPT ![a][i] = new]
           old == written[s][i]
           stored == Stamped(new, old)
           final == IF i = 0 THEN [copied EXCEPT ![s] = Append(@, new)]
                    ELSE [written EXCEPT ![a][i] = stored, ![s][i] = stored]
<1>1. /\ heap' = Collected(final, {cached.conditions, a, s})
      /\ pc' = IF i = 0 \/ stored # old THEN "put" ELSE "return"
      /\ status' = s
      /\ second' = IF i = 0 \/ stored # old THEN now ELSE second
  BY <1>0
<1> HIDE DEF New, Written, Old, Stored, Final, Kept
<1>2. ShapeOK /\ HeapOK /\ heap \in [Addresses -> List]
  BY DEF CondInv, ShapeOK
<1>21. now \in Times /\ second' \in Times
  BY <1>1, <1>2, FreshNow DEF ShapeOK
<1>3. /\ a \in Addresses /\ s \in Addresses
      /\ cached.conditions \in Addresses
      /\ s # a /\ s # cached.conditions
  BY <1>2, CopyIsFresh DEF ShapeOK, Object
<1>4. heap[a] \in List /\ copied \in [Addresses -> List] /\ copied[a] = heap[a]
      /\ copied[s] = heap[a] /\ \A b \in Addresses \ {s} : copied[b] = heap[b]
  BY <1>2, <1>3
<1>5. i = Len(heap[a])
  BY <1>4, ListPosition
<1>6. CASE heap[a] = << >>
  <2>1. i = 0
    BY <1>4, <1>5, <1>6, ListParts
  <2>2. \E old0 : old0 \in ReadyCondition
    <3>1. Ready("True", 1) \in ReadyCondition
      BY DEF Ready, ReadyCondition, Times
    <3> QED
      BY <3>1
  <2>3. new \in ReadyCondition /\ new.time = now
    BY <1>2, <2>2, StampedReady DEF New
  <2>4. /\ final = [copied EXCEPT ![s] = Append(<< >>, new)]
        /\ pc' = "put" /\ second' = now
    BY <1>1, <1>3, <1>4, <1>6, <2>1
  <2> HIDE DEF new, final, copied, i
  <2>5. /\ final \in [Addresses -> List]
        /\ final[s] # << >> /\ ReadyAt(final[s]) = new
        /\ \A b \in Addresses \ {s} : final[b] = heap[b]
    BY <1>3, <1>4, <2>3, <2>4, ListFirst
  <2>6. /\ heap' \in [Addresses -> List]
        /\ \A b \in Addresses :
              heap'[b] = IF b \in {cached.conditions, a, s} THEN final[b]
                                                           ELSE << >>
    BY <1>1, <2>5, CollectedHeap
  <2> HIDE DEF s
  <2> QED
    BY <1>1, <1>21, <1>3, <1>6, <2>3, <2>4, <2>5, <2>6
<1>7. CASE heap[a] # << >>
  <2> DEFINE l == heap[a]
  <2>1. /\ l \in List /\ i = Len(l) /\ i # 0 /\ ReadyAt(l) = l[i]
        /\ ReadyAt(l) \in ReadyCondition
    BY <1>4, <1>5, <1>7, ListParts DEF ReadyAt
  <2>2. written = [copied EXCEPT ![a] = [copied[a] EXCEPT ![i] = new]]
    BY <2>1
  <2> HIDE DEF new, i, copied
  <2>3. /\ written[a] = [l EXCEPT ![i] = new] /\ written[s] = l
        /\ DOMAIN written = Addresses
        /\ \A b \in Addresses \ {a, s} : written[b] = heap[b]
    BY <1>3, <1>4, <2>2
  <2>4. old = ReadyAt(l)
    BY <2>1, <2>3
  <2>5. final = [[written EXCEPT ![a] = [written[a] EXCEPT ![i] = stored]]
                    EXCEPT ![s] = [written[s] EXCEPT ![i] = stored]]
    BY <1>3, <2>1, <2>3
  <2>6. /\ new.time = now
        /\ stored \in ReadyCondition
        /\ IF new.status = old.status THEN stored = old ELSE stored = new
    BY <1>2, <2>1, <2>4, StampedReady DEF new, New
  <2> HIDE DEF written, stored, old, final
  <2>7. [[l EXCEPT ![i] = new] EXCEPT ![i] = stored] = [l EXCEPT ![i] = stored]
    BY ListOverwrite
  <2> DEFINE m == [l EXCEPT ![i] = stored]
  <2>8. /\ m \in List /\ m # << >> /\ ReadyAt(m) = stored
        /\ stored = old => m = l
    BY <1>7, <2>1, <2>4, <2>6, ListReplace
  <2> HIDE DEF l, m
  <2>9. /\ final[a] = m /\ final[s] = m /\ DOMAIN final = Addresses
        /\ \A b \in Addresses \ {a, s} : final[b] = heap[b]
    BY <1>3, <2>3, <2>5, <2>7 DEF m
  <2>10. \A b \in Addresses : final[b] \in List
    BY <1>2, <2>8, <2>9
  <2>11. final = [b \in Addresses |-> final[b]]
    BY <1>3, <2>5, <2>9, <2>3, <2>2, <1>4 DEF written
  <2>12. final \in [Addresses -> List]
    BY <2>10, <2>11
  <2>13. /\ heap' \in [Addresses -> List]
        /\ \A b \in Addresses :
              heap'[b] = IF b \in {cached.conditions, a, s} THEN final[b]
                                                           ELSE << >>
    BY <1>1, <2>12, CollectedHeap
  <2>14. /\ pc' = IF stored # old THEN "put" ELSE "return"
         /\ stored # old => second' = now
    BY <1>1, <2>1
  <2>15. stored # old => stored.time = now /\ stored.status # old.status
    BY <2>6
  <2> HIDE DEF s
  <2> QED
    BY <1>1, <1>21, <1>3, <2>4, <2>8, <2>9, <2>13, <2>14, <2>15 DEF l
<1> QED
  BY <1>6, <1>7

-----------------------------------------------------------------------------
(* One step preserves CondInv.                                             *)

(* A step that leaves the objects and the worker's frame alone.            *)
LEMMA CondUntouched ==
    ASSUME CondInv, UNCHANGED <<server, cached, heap, second, syncVars>>, ControlOK'
    PROVE  CondInv'
BY DEF CondInv, ShapeOK, HeapOK, TruthOK, FlipOK, Sending, syncVars

(* What the queue's operations leave of ControlOK.                         *)
LEMMA QueueControl ==
    ASSUME ControlOK, UNCHANGED syncVars, allReady' \in BOOLEAN,
           budget' \in 0 .. Budget, AddRateLimited \/ DelayOver \/ UNCHANGED queueVars
    PROVE  ControlOK'
<1>1. QueueTypeOK' /\ processing' = processing
  BY DEF ControlOK, QueueTypeOK, AddRateLimited, DelayOver, queueVars
<1> QED
  BY <1>1 DEF ControlOK, syncVars

(* Spending from the budget.                                               *)
LEMMA SpendBudget ==
    ASSUME ControlOK, Spend
    PROVE  budget' \in 0 .. Budget
BY ConditionsAssumption DEF ControlOK, Spend

(* Brokers, resync and the queue's delay.                                  *)
LEMMA QuietStep ==
    ASSUME CondInv, BrokersChange \/ Resync \/ QueueDelayOver
    PROVE  CondInv'
<1>1. ControlOK
  BY DEF CondInv
<1>2. allReady' \in BOOLEAN
  BY <1>1 DEF BrokersChange, Resync, QueueDelayOver, ControlOK
<1>3. budget' \in 0 .. Budget
  BY <1>1, SpendBudget DEF BrokersChange, Resync, QueueDelayOver, ControlOK
<1>4. UNCHANGED syncVars
  BY DEF BrokersChange, Resync, QueueDelayOver
<1>5. ControlOK'
  BY <1>1, <1>2, <1>3, <1>4, QueueControl
     DEF BrokersChange, Resync, QueueDelayOver
<1> QED
  BY <1>5, CondUntouched DEF BrokersChange, Resync, QueueDelayOver

(* A user's edit: nothing in sight has the new version.                    *)
LEMMA EditStep ==
    ASSUME CondInv, UserEdits
    PROVE  CondInv'
<1>1. ControlOK'
  BY SpendBudget, QueueControl DEF CondInv, UserEdits, ControlOK
<1>2. /\ server'.rv = NextVersion /\ server'.conditions = server.conditions
      /\ server' \in [rv : Versions, conditions : List]
  BY FreshVersion DEF CondInv, ShapeOK, UserEdits
<1>3. server'.rv \notin {cached.rv, cluster.rv, upd}
  BY <1>2, FreshVersion
<1> QED
  BY <1>1, <1>2, <1>3
     DEF CondInv, ShapeOK, HeapOK, TruthOK, FlipOK, Sending, UserEdits, syncVars

(* The informer: the slices the worker refers to stay.                     *)
LEMMA InformStep ==
    ASSUME CondInv, Inform
    PROVE  CondInv'
<1> DEFINE a == CHOOSE a \in Addresses :
                   a \notin {cached.conditions, cluster.conditions, status}
           h == [heap EXCEPT ![a] = server.conditions]
<1>1. a \in Addresses /\ a \notin {cached.conditions, cluster.conditions, status}
  BY FreshAddress
<1>2. /\ cached' = [rv |-> server.rv, conditions |-> a]
      /\ heap' = Collected(h, {a, cluster.conditions, status})
      /\ UNCHANGED <<server, second, syncVars>>
  BY DEF Inform
<1> HIDE DEF a
<1>3. h \in [Addresses -> List] /\ h[a] = server.conditions
      /\ \A b \in Addresses \ {a} : h[b] = heap[b]
  BY <1>1 DEF CondInv, ShapeOK
<1> HIDE DEF h
<1>4. /\ heap' \in [Addresses -> List]
      /\ \A b \in Addresses :
            heap'[b] = IF b \in {a, cluster.conditions, status} THEN h[b]
                                                               ELSE << >>
  BY <1>2, <1>3, CollectedHeap
<1>5. /\ heap'[a] = server.conditions
      /\ heap'[cluster.conditions] = heap[cluster.conditions]
      /\ heap'[status] = heap[status]
  BY <1>1, <1>3, <1>4 DEF CondInv, ShapeOK, Object
<1>6. ControlOK'
  BY QueueControl DEF CondInv, Inform, ControlOK
<1>7. cached'.rv = server.rv /\ cached'.conditions = a /\ cached' \in Object
  BY <1>1, <1>2 DEF Object, CondInv, ShapeOK
<1>8. ShapeOK' /\ HeapOK'
  BY <1>1, <1>2, <1>4, <1>7 DEF CondInv, ShapeOK, HeapOK, syncVars
<1>9. TruthOK' /\ FlipOK'
  BY <1>1, <1>2, <1>5, <1>7 DEF CondInv, TruthOK, FlipOK, Sending, syncVars
<1> QED
  BY <1>6, <1>8, <1>9 DEF CondInv

(* Taking the key.                                                         *)
LEMMA GetItemStep ==
    ASSUME CondInv, GetItem
    PROVE  CondInv'
<1>1. pc = "idle" /\ pc' = "get"
  BY DEF CondInv, ControlOK, GetItem, Get
<1>2. ControlOK'
  BY <1>1 DEF CondInv, ControlOK, QueueTypeOK, GetItem, Get
<1> QED
  BY <1>1, <1>2 DEF CondInv, ShapeOK, HeapOK, TruthOK, FlipOK, Sending, GetItem

(* The pointer from the lister, and the end of the sync: one object is     *)
(* left, which tells the truth.                                            *)
LEMMA OneObjectStep ==
    ASSUME CondInv, Lister \/ FinishItem
    PROVE  CondInv'
<1> DEFINE l == heap[cached.conditions]
<1>0. /\ cached \in Object /\ cached.conditions \in Addresses
      /\ cached.rv \in Versions /\ heap \in [Addresses -> List] /\ l \in List
  BY DEF CondInv, ShapeOK, Object
<1>1. /\ UNCHANGED <<server, second>>
      /\ cached' \in Object /\ cached'.rv = cached.rv
      /\ cluster' = cached' /\ status' = cached'.conditions
      /\ upd' \in {upd, cached.rv}
      /\ pc' \in {"sync", "idle"} /\ ~Sending
  <2>1. CASE Lister
    BY <1>0, <2>1 DEF Lister, Sending
  <2>2. CASE FinishItem
    <3>1. 1 \in Addresses
      BY DEF Addresses
    <3> QED
      BY <1>0, <2>2, <3>1 DEF FinishItem, Sending, Object
  <2> QED
    BY <2>1, <2>2
<1>2. ControlOK'
  <2>1. QueueTypeOK' /\ (~processing' => pc' = "idle")
    BY DEF CondInv, ControlOK, QueueTypeOK, Lister, FinishItem, Done, queueVars
  <2>2. conflict' \in BOOLEAN
    BY DEF CondInv, ControlOK, Lister, FinishItem
  <2>3. tries' = 0
    BY DEF CondInv, ControlOK, Lister, FinishItem
  <2>4. tries' \in 0 .. RetrySteps - 1
    BY <2>3, ConditionsAssumption
  <2> QED
    BY <1>1, <2>1, <2>2, <2>3, <2>4 DEF CondInv, ControlOK, Lister, FinishItem
<1>4. /\ heap' \in [Addresses -> List]
      /\ heap'[cached'.conditions] = l
      /\ \A b \in Addresses : b # cached'.conditions => heap'[b] = << >>
  <2>1. CASE Lister
    <3>1. heap' = Collected(heap, {cached.conditions}) /\ cached' = cached
      BY <2>1 DEF Lister
    <3> QED
      BY <1>0, <3>1, CollectedHeap
  <2>2. CASE FinishItem
    <3> DEFINE h == [heap EXCEPT ![1] = l]
    <3>1. heap' = Collected(h, {1}) /\ cached'.conditions = 1
      BY <1>0, <2>2 DEF FinishItem, Object
    <3>2. 1 \in Addresses
      BY DEF Addresses
    <3>3. h \in [Addresses -> List] /\ h[1] = l
      BY <1>0, <3>2
    <3> HIDE DEF h, l
    <3> QED
      BY <3>1, <3>2, <3>3, CollectedHeap
  <2> QED
    BY <2>1, <2>2
<1>5. ShapeOK' /\ HeapOK'
  BY <1>0, <1>1, <1>4 DEF CondInv, ShapeOK, HeapOK, Object
<1>6. TruthOK' /\ FlipOK'
  BY <1>0, <1>1, <1>4 DEF CondInv, TruthOK, FlipOK, Sending
<1> QED
  BY <1>2, <1>5, <1>6 DEF CondInv

(* The status is computed.                                                 *)
LEMMA StatusStep ==
    ASSUME CondInv, updateClusterStatus
    PROVE  CondInv'
<1>1. /\ pc = "sync" /\ upd' = cluster.rv
      /\ UNCHANGED <<allReady, server, cached, cluster, tries, conflict,
                     queueVars, budget>>
      /\ tries = 0
  BY DEF updateClusterStatus, CondInv, ControlOK
<1>2. ControlOK'
  BY <1>1, StatusEffect
     DEF CondInv, ControlOK, QueueTypeOK, queueVars
<1>3. ShapeOK' /\ HeapOK'
  BY <1>1, StatusEffect DEF CondInv, ShapeOK, HeapOK, Object
<1>4. TruthOK'
  BY <1>1, StatusEffect DEF CondInv, HeapOK, TruthOK, Sending
<1>6. FlipOK'
  BY <1>1, StatusEffect DEF CondInv, TruthOK, FlipOK, Sending
<1> QED
  BY <1>2, <1>3, <1>4, <1>6 DEF CondInv

(* The server takes the update: no object has its new version yet, and     *)
(* one that makes no version is a retry.                                   *)
LEMMA AcceptedStep ==
    ASSUME CondInv, Update \/ UpdateAnswerLost
    PROVE  CondInv'
<1>1. Accepted
  BY DEF Update, UpdateAnswerLost
<1>2. /\ UNCHANGED <<allReady, cached, heap, second, cluster, status, upd,
                     tries, queueVars>>
      /\ pc = "put" /\ upd = server.rv
  BY <1>1 DEF Accepted
<1>3. \/ pc' = "return" /\ conflict' = conflict /\ budget' = budget
      \/ pc' = "refetch" /\ conflict' = FALSE /\ budget' \in 0 .. Budget
  BY SpendBudget DEF Update, UpdateAnswerLost, CondInv
<1>4. ControlOK'
  BY <1>2, <1>3 DEF CondInv, ControlOK, QueueTypeOK, queueVars
<1>5. FlipOK'
  BY <1>3 DEF FlipOK, Sending
<1>6. CASE heap[status] = server.conditions
  <2>1. server' = server
    BY <1>1, <1>6 DEF Accepted
  <2>2. ~Sending
    BY <1>2, <1>6 DEF CondInv, FlipOK
  <2>3. ShapeOK' /\ HeapOK'
    BY <1>2, <2>1 DEF CondInv, ShapeOK, HeapOK
  <2>4. TruthOK'
    BY <1>2, <1>3, <2>1, <2>2 DEF CondInv, TruthOK
  <2> QED
    BY <1>4, <1>5, <2>3, <2>4 DEF CondInv
<1>7. CASE heap[status] # server.conditions
  <2>1. server' = [rv |-> NextVersion, conditions |-> heap[status]]
    BY <1>1, <1>7 DEF Accepted
  <2>2. server'.rv = NextVersion /\ server' \in [rv : Versions, conditions : List]
    BY <2>1, FreshVersion DEF CondInv, ShapeOK
  <2>3. server'.rv \notin {cached.rv, cluster.rv, upd}
    BY <2>2, FreshVersion
  <2>4. ShapeOK' /\ HeapOK'
    BY <1>2, <2>2 DEF CondInv, ShapeOK, HeapOK
  <2>5. TruthOK'
    BY <1>2, <1>3, <2>3 DEF CondInv, TruthOK
  <2> QED
    BY <1>4, <1>5, <2>4, <2>5 DEF CondInv
<1> QED
  BY <1>6, <1>7

(* A conflict, and what follows it.                                        *)
LEMMA RetryStep ==
    ASSUME CondInv, UpdateConflict \/ Refetch
    PROVE  CondInv'
<1>1. CASE UpdateConflict
  <2>1. ControlOK'
    BY <1>1 DEF CondInv, ControlOK, QueueTypeOK, queueVars, UpdateConflict
  <2> QED
    BY <1>1, <2>1 DEF CondInv, ShapeOK, HeapOK, TruthOK, FlipOK, Sending,
                      UpdateConflict
<1>2. CASE Refetch
  <2>1. /\ pc = "refetch"
        /\ UNCHANGED <<allReady, server, cached, heap, second, cluster,
                       status, conflict, queueVars, budget>>
        /\ \/ /\ conflict /\ tries < RetrySteps - 1
              /\ pc' = "put" /\ upd' = cached.rv /\ tries' = tries + 1
           \/ pc' = "return" /\ upd' = upd /\ tries' = tries
    BY <1>2 DEF Refetch, Retry
  <2>2. tries' \in 0 .. RetrySteps - 1 /\ (pc' = "put" => tries' # 0)
    BY <2>1, ConditionsAssumption DEF CondInv, ControlOK
  <2>3. ControlOK'
    BY <2>1, <2>2 DEF CondInv, ControlOK, QueueTypeOK, queueVars
  <2>4. ShapeOK' /\ HeapOK'
    BY <2>1 DEF CondInv, ShapeOK, HeapOK, Object
  <2>5. TruthOK' /\ FlipOK'
    BY <2>1, <2>2 DEF CondInv, TruthOK, FlipOK, Sending
  <2> QED
    BY <2>3, <2>4, <2>5 DEF CondInv
<1> QED
  BY <1>1, <1>2

(* The initial states.                                                     *)
LEMMA CondInvInit == Init => CondInv
<1> SUFFICES ASSUME Init PROVE CondInv
  OBVIOUS
<1>1. PICK conditions \in {<< >>, <<Ready("False", 1)>>,
                           <<Other, Ready("True", 1)>>} :
         /\ server = [rv |-> 1, conditions |-> conditions]
         /\ heap = [a \in Addresses |-> IF a = 1 THEN conditions ELSE << >>]
  BY DEF Init
<1>2. conditions \in List /\ << >> \in List
  <2>1. Ready("False", 1) \in ReadyCondition /\ Ready("True", 1) \in ReadyCondition
    BY DEF Ready, ReadyCondition, Times
  <2> QED
    BY <2>1 DEF List
<1>3. 1 \in Versions /\ 1 \in Addresses /\ 1 \in Times
  BY DEF Versions, Addresses, Times
<1>4. ControlOK
  <2>1. 0 \in 0 .. RetrySteps - 1 /\ Budget \in 0 .. Budget
    BY ConditionsAssumption
  <2> QED
    BY <2>1 DEF Init, ControlOK, QueueTypeOK
<1>5. ShapeOK
  BY <1>1, <1>2, <1>3 DEF Init, ShapeOK, Object
<1>6. HeapOK /\ TruthOK /\ FlipOK
  BY <1>1, <1>3 DEF Init, HeapOK, TruthOK, FlipOK, Sending
<1> QED
  BY <1>4, <1>5, <1>6 DEF CondInv

(* Every step preserves CondInv.                                           *)
LEMMA CondInvNext == CondInv /\ [Next]_vars => CondInv'
<1> SUFFICES ASSUME CondInv, [Next]_vars PROVE CondInv'
  OBVIOUS
<1>1. CASE UNCHANGED vars
  <2>1. ControlOK'
    BY <1>1 DEF vars, syncVars, queueVars, CondInv, ControlOK, QueueTypeOK
  <2> QED
    BY <1>1, <2>1, CondUntouched DEF vars
<1> QED
  BY <1>1, QuietStep, EditStep, InformStep, GetItemStep, OneObjectStep,
     StatusStep, AcceptedStep, RetryStep DEF Next, Worker

(* CondInv holds in every reachable state.                                 *)
LEMMA CondInvariance == Spec => []CondInv
BY CondInvInit, CondInvNext, PTL DEF Spec

-----------------------------------------------------------------------------
(* Every variable always has its type, for every number of attempts and of *)
(* disturbances: the lists of conditions never grow, whatever writes into  *)
(* shared slices, retries and lost answers do, and a status update makes   *)
(* at most RetrySteps attempts (updateClusterStatus, RetryOnConflict).     *)
THEOREM ConditionsTyped == Spec => []TypeOK
<1>1. CondInv => TypeOK
  <2> SUFFICES ASSUME CondInv PROVE TypeOK
    OBVIOUS
  <2>1. server.conditions \in Seq(Condition)
    BY ListType DEF CondInv, ShapeOK
  <2>2. \A a \in Addresses : heap[a] \in Seq(Condition) /\ Len(heap[a]) <= 2
    BY ListType DEF CondInv, ShapeOK
  <2>3. heap \in [Addresses -> Seq(Condition)]
    BY <2>2 DEF CondInv, ShapeOK
  <2> QED
    BY <2>1, <2>2, <2>3 DEF CondInv, ShapeOK, ControlOK, TypeOK
<1> QED
  BY <1>1, CondInvariance, PTL

(* Between syncs the lister's object of the server's version has the       *)
(* server's conditions, although updateClusterStatus writes into it what   *)
(* it only means to send: by the time the sync is over the version it      *)
(* wrote into is not the server's any more.                                *)
THEOREM CacheIsTrue == Spec => []CacheTellsTheTruth
<1>1. CondInv => CacheTellsTheTruth
  BY DEF CondInv, TruthOK, Sending, CacheTellsTheTruth
<1> QED
  BY <1>1, CondInvariance, PTL

(* Only the update of a status changes the conditions at the server, and   *)
(* what it stores is the slice the sync computed.                          *)
LEMMA ConditionsWrite ==
    ASSUME CondInv, [Next]_vars
    PROVE  \/ server'.conditions = server.conditions
           \/ /\ pc = "put" /\ upd = server.rv
              /\ server'.conditions = heap[status]
<1>1. CASE UNCHANGED server
  BY <1>1
<1>2. CASE UserEdits
  BY <1>2 DEF UserEdits, CondInv, ShapeOK
<1>3. CASE Accepted
  BY <1>3 DEF Accepted
<1> QED
  BY <1>1, <1>2, <1>3
     DEF Next, Worker, BrokersChange, Inform, Resync, QueueDelayOver, GetItem,
         Lister, updateClusterStatus, Update, UpdateAnswerLost, UpdateConflict,
         Refetch, Retry, FinishItem, vars

(* util.go:41, "Sets LastTransitionTime to now if the status has changed": *)
(* whatever stale cache, conflict, retry or lost answer an update went     *)
(* through, a status that flips at the server is stored with the second of *)
(* the sync that computed it, and the first attempt of an update never     *)
(* moves the time without a flip.                                          *)
THEOREM FlipsTimed == Spec => TimesFollowFlips
<1>1. ASSUME CondInv, [Next]_vars
      PROVE  \A old \in ReadyOf(server.conditions),
                new \in ReadyOf(server'.conditions) :
                /\ old.status # new.status => new.time = second
                /\ old.status = new.status /\ old.time # new.time => tries > 0
  <2> SUFFICES ASSUME NEW old \in ReadyOf(server.conditions),
                      NEW new \in ReadyOf(server'.conditions)
               PROVE  /\ old.status # new.status => new.time = second
                      /\ old.status = new.status /\ old.time # new.time =>
                            tries > 0
    OBVIOUS
  <2>1. server.conditions \in List /\ heap[status] \in List /\ tries \in Nat
    BY <1>1 DEF CondInv, ShapeOK, ControlOK
  <2>2. old = ReadyAt(server.conditions) /\ server.conditions # << >>
    BY <2>1, ListReady
  <2>3. CASE server'.conditions = server.conditions
    BY <2>1, <2>2, <2>3, ListReady
  <2>4. CASE /\ pc = "put" /\ upd = server.rv
             /\ server'.conditions = heap[status]
    <3>1. new = ReadyAt(heap[status])
      BY <2>1, <2>4, ListReady
    <3>2. /\ new.time = second
          /\ tries = 0 => new.status # old.status
      BY <1>1, <2>2, <2>4, <3>1 DEF CondInv, FlipOK, Sending
    <3> QED
      BY <2>1, <3>2
  <2> QED
    BY <1>1, <2>3, <2>4, ConditionsWrite
<1>2. CondInv /\ [Next]_vars =>
         [\A old \in ReadyOf(server.conditions),
             new \in ReadyOf(server'.conditions) :
             /\ old.status # new.status => new.time = second
             /\ old.status = new.status /\ old.time # new.time => tries > 0]_vars
  BY <1>1
<1> QED
  BY <1>2, CondInvariance, PTL DEF Spec, TimesFollowFlips

=============================================================================
