--------------------------- MODULE OperatorProofs ---------------------------
(***************************************************************************)
(* Theorems about Operator, for any options, periods and number of         *)
(* signals: type correctness, that success is reported only after the      *)
(* shutdown, that the workers read the caches that were filled, where the  *)
(* resync period comes from, and that the process implements the           *)
(* environment of ControllerRun.                                           *)
(***************************************************************************)
EXTENDS Operator, TLAPS

(* What has been started at each stage, and what the wait group counts.    *)
StagesOK ==
    /\ run = "off" <=> main \notin {"start", "wait", "join"}
    /\ wg = IF run \in {"created", "syncing", "running"} THEN 1 ELSE 0
    /\ main = "join" => cancelled
    /\ run = "returned" => cancelled
    /\ SuccessAfterShutdown

(* Every use of a type is given the one informer of that type.             *)
InformersOK ==
    /\ main \in {"start", "wait", "join"} => request = Len(Requests)
    /\ \A h \in held : h.informer = informers[h.type]
    /\ \A i \in 1 .. request :
          [type |-> Requests[i].type, use |-> Requests[i].use,
           informer |-> informers[Requests[i].type]] \in held
    /\ run = "running" => WaitForCacheSync

Inv == TypeOK /\ StagesOK /\ InformersOK

(* The requests of NewBrokerController: their number, their types and that *)
(* each type is waited for.                                                *)
LEMMA RequestFacts ==
    /\ Len(Requests) = 14
    /\ \A i \in 1 .. 14 :
          /\ Requests[i].type \in Types
          /\ Requests[i].use \in {"lister", "HasSynced", "control", "handler"}
    /\ \A type \in Types : \E i \in 1 .. 14 :
          Requests[i].type = type /\ Requests[i].use = "HasSynced"
<1>1. ASSUME NEW i \in 1 .. 14
      PROVE  /\ Requests[i].type \in Types
             /\ Requests[i].use \in {"lister", "HasSynced", "control", "handler"}
  <2>1. i \in {1, 2, 3, 4, 5, 6, 7, 8, 9, 10, 11, 12, 13, 14}
    OBVIOUS
  <2> QED
    BY <2>1 DEF Requests, Request, Types
<1>2. /\ Requests[2] = Request("BrokerCluster", "HasSynced")
      /\ Requests[5] = Request("Service", "HasSynced")
      /\ Requests[8] = Request("StatefulSet", "HasSynced")
      /\ Requests[11] = Request("Pod", "HasSynced")
      /\ Len(Requests) = 14
  BY DEF Requests
<1>3. \A type \in Types : \E i \in 1 .. 14 :
          Requests[i].type = type /\ Requests[i].use = "HasSynced"
  BY <1>2 DEF Request, Types
<1> QED
  BY <1>1, <1>2, <1>3

(* The invariant holds when the process starts.                            *)
LEMMA InitInv == Init => Inv
<1> SUFFICES ASSUME Init PROVE Inv
  OBVIOUS
<1> USE OperatorAssumption
<1>1. TypeOK
  <2>1. /\ factory \in [Factories -> [namespace : Namespaces \cup {NamespaceAll},
                                     resync : Int]]
        /\ informers \in [Types -> Informer \cup {0}]
        /\ starter \in [Factories -> {"none", "ready", "done"}]
    BY DEF Init
  <2>2. /\ opts.namespace \in Namespaces \cup {NamespaceAll}
        /\ opts.period \in Periods \cup {DefaultPeriod}
    BY DEF Init, NoOptions
  <2>3. sent \in 0 .. MaxSignals /\ request \in 0 .. Len(Requests)
    BY RequestFacts DEF Init
  <2>4. cancelled \in BOOLEAN
    BY DEF Init
  <2>5. channel \in 0 .. 2 /\ wg \in Nat
    BY DEF Init
  <2>6. held \in SUBSET Held /\ started \in SUBSET Informer /\ listed \in SUBSET started
    BY DEF Init
  <2>7. /\ file \in Files /\ flags \in Flags
        /\ main = "config" /\ exit = "none" /\ handler = "none" /\ run = "off"
    BY DEF Init
  <2> QED
    BY <2>1, <2>2, <2>3, <2>4, <2>5, <2>6, <2>7 DEF TypeOK
<1>2. StagesOK
  BY DEF Init, StagesOK, SuccessAfterShutdown
<1>3. InformersOK
  BY DEF Init, InformersOK
<1> QED
  BY <1>1, <1>2, <1>3 DEF Inv

(* The options that file and flags give have a namespace and a period.     *)
LEMMA OptionsType ==
    ASSUME Inv, NewOperatorOpts \/ AddFlags
    PROVE  /\ opts'.namespace \in Namespaces \cup {NamespaceAll}
           /\ opts'.period \in Periods \cup {DefaultPeriod}
<1> USE OperatorAssumption DEF Inv, TypeOK
<1>1. ASSUME NewOperatorOpts
      PROVE  /\ opts'.namespace \in Namespaces \cup {NamespaceAll}
             /\ opts'.period \in Periods \cup {DefaultPeriod}
  <2>1. (IF file = Absent THEN NoOptions ELSE file) \in Options
    BY <1>1 DEF NewOperatorOpts, Files, NoOptions, Options
  <2> QED
    BY <1>1, <2>1 DEF NewOperatorOpts, EnsureDefaults, Options
<1>2. ASSUME AddFlags
      PROVE  /\ opts'.namespace \in Namespaces \cup {NamespaceAll}
             /\ opts'.period \in Periods \cup {DefaultPeriod}
  <2>1. flags \in Given
    BY <1>2 DEF AddFlags, Flags
  <2> QED
    BY <1>2, <2>1 DEF AddFlags, Given
<1> QED
  BY <1>1, <1>2

(* The steps of main until NewBrokerController.                            *)
LEMMA StartStep ==
    ASSUME Inv,
           \/ NewOperatorOpts \/ OptionsFail \/ AddFlags \/ FlagsFail
           \/ BuildConfig \/ SetupSignalHandler \/ NewFactories
    PROVE  Inv'
<1> USE OperatorAssumption DEF Inv, optionVars, signalVars, informerVars, runVars
<1>1. ASSUME NEW code \in {"1", "2", "255"}, Exit(code)
      PROVE  Inv'
  <2>1. TypeOK'
    BY <1>1 DEF Exit, TypeOK
  <2>2. StagesOK'
    BY <1>1 DEF Exit, StagesOK, SuccessAfterShutdown
  <2>3. InformersOK'
    BY <1>1 DEF Exit, InformersOK, WaitForCacheSync
  <2> QED
    BY <2>1, <2>2, <2>3
<1>2. ASSUME NewOperatorOpts \/ AddFlags
      PROVE  Inv'
  <2>1. TypeOK'
    BY <1>2, OptionsType DEF NewOperatorOpts, AddFlags, TypeOK
  <2>2. StagesOK'
    BY <1>2 DEF NewOperatorOpts, AddFlags, StagesOK, SuccessAfterShutdown
  <2>3. InformersOK'
    BY <1>2 DEF NewOperatorOpts, AddFlags, InformersOK, WaitForCacheSync
  <2> QED
    BY <2>1, <2>2, <2>3
<1>3. ASSUME main = "kubeconfig", Goto("handler"),
             UNCHANGED <<signalVars, informerVars, runVars>>
      PROVE  Inv'
  <2>1. TypeOK'
    BY <1>3 DEF Goto, TypeOK
  <2>2. StagesOK'
    BY <1>3 DEF Goto, StagesOK, SuccessAfterShutdown
  <2>3. InformersOK'
    BY <1>3 DEF Goto, InformersOK, WaitForCacheSync
  <2> QED
    BY <2>1, <2>2, <2>3
<1>4. ASSUME SetupSignalHandler
      PROVE  Inv'
  <2>1. TypeOK'
    BY <1>4 DEF SetupSignalHandler, Goto, TypeOK
  <2>2. StagesOK'
    BY <1>4 DEF SetupSignalHandler, Goto, StagesOK, SuccessAfterShutdown
  <2>3. InformersOK'
    BY <1>4 DEF SetupSignalHandler, Goto, InformersOK, WaitForCacheSync
  <2> QED
    BY <2>1, <2>2, <2>3
<1>5. ASSUME main = "factories", Goto("controller"),
             factory' \in [Factories -> [namespace : {opts.namespace},
                                         resync : resyncPeriod]],
             UNCHANGED <<signalVars, informers, request, held, starter,
                         started, listed, runVars>>
      PROVE  Inv'
  <2>1. resyncPeriod \subseteq Int
    <3>1. opts.period \in Int
      <4>1. opts.period \in Periods \cup {DefaultPeriod}
        BY DEF TypeOK
      <4>2. Periods \cup {DefaultPeriod} \subseteq Int
        BY DEF OperatorAssumption
      <4> QED
        BY <4>1, <4>2
    <3>2. 2 * opts.period - 1 \in Int /\ 2 * opts.period + 1 \in Int
      BY <3>1
    <3> QED
      BY <3>1, <3>2 DEF resyncPeriod
  <2>2. factory' \in [Factories -> [namespace : Namespaces \cup {NamespaceAll},
                                    resync : Int]]
    BY <1>5, <2>1 DEF TypeOK
  <2>3. TypeOK'
    BY <1>5, <2>2 DEF Goto, TypeOK
  <2>4. StagesOK'
    BY <1>5 DEF Goto, StagesOK, SuccessAfterShutdown
  <2>5. InformersOK'
    BY <1>5 DEF Goto, InformersOK, WaitForCacheSync
  <2> QED
    BY <2>3, <2>4, <2>5
<1> QED
  BY <1>1, <1>2, <1>3, <1>4, <1>5
     DEF OptionsFail, FlagsFail, BuildConfig, NewFactories

(* NewBrokerController: a type asked for again has the informer it had.    *)
LEMMA RequestStep ==
    ASSUME Inv, NewBrokerController
    PROVE  Inv'
<1> USE OperatorAssumption DEF Inv, optionVars, signalVars, informerVars, runVars
<1> DEFINE r == Requests[request + 1]
           h1 == [type |-> r.type, use |-> r.use, informer |-> InformerFor(r.type)]
<1>1. /\ request \in Nat /\ request + 1 \in Informer
      /\ r.type \in Types
      /\ r.use \in {"lister", "HasSynced", "control", "handler"}
  BY RequestFacts DEF NewBrokerController, TypeOK, Informer
<1>2. /\ informers' = [informers EXCEPT ![r.type] = InformerFor(r.type)]
      /\ held' = held \cup {h1}
      /\ request' = request + 1
      /\ main = "controller" /\ main' = "controller" /\ run' = run
  BY DEF NewBrokerController, Goto
<1> HIDE DEF r
<1>3. InformerFor(r.type) \in Informer /\ h1 \in Held
  BY <1>1 DEF InformerFor, TypeOK, Held
<1>4. informers \in [Types -> Informer \cup {0}]
  BY DEF TypeOK
<1>5. TypeOK'
  <2>1. informers' \in [Types -> Informer \cup {0}]
    BY <1>1, <1>2, <1>3, <1>4
  <2>2. held' \in SUBSET Held
    BY <1>2, <1>3 DEF TypeOK
  <2>3. request' \in 0 .. Len(Requests)
    BY <1>1, <1>2 DEF Informer
  <2> QED
    BY <2>1, <2>2, <2>3 DEF NewBrokerController, Goto, TypeOK
<1>6. StagesOK'
  BY DEF NewBrokerController, Goto, StagesOK, SuccessAfterShutdown
<1>7. \A h \in held : informers'[h.type] = informers[h.type]
  <2> SUFFICES ASSUME NEW h \in held PROVE informers'[h.type] = informers[h.type]
    OBVIOUS
  <2>1. h.type \in Types /\ h.informer \in Informer /\ h.informer = informers[h.type]
    BY DEF TypeOK, Held, InformersOK
  <2>2. informers[h.type] # 0
    BY <2>1 DEF Informer
  <2> QED
    BY <1>2, <1>4, <2>1, <2>2 DEF InformerFor
<1>8. InformersOK'
  <2>1. \A h \in held' : h.informer = informers'[h.type]
    BY <1>1, <1>2, <1>4, <1>7 DEF InformersOK
  <2>2. ASSUME NEW i \in 1 .. request'
        PROVE  [type |-> Requests[i].type, use |-> Requests[i].use,
                informer |-> informers'[Requests[i].type]] \in held'
    <3>1. CASE i = request + 1
      BY <1>1, <1>2, <1>4, <3>1 DEF r
    <3>2. CASE i \in 1 .. request
      <4>1. [type |-> Requests[i].type, use |-> Requests[i].use,
             informer |-> informers[Requests[i].type]] \in held
        BY <3>2 DEF InformersOK
      <4> QED
        BY <1>2, <1>7, <4>1
    <3> QED
      BY <1>1, <1>2, <3>1, <3>2
  <2>3. run' # "running"
    BY <1>2 DEF StagesOK
  <2> QED
    BY <1>2, <2>1, <2>2, <2>3 DEF InformersOK
<1> QED
  BY <1>5, <1>6, <1>8

(* The goroutines are started, and main waits for the context and for the  *)
(* controller: with the counter at zero the controller has returned.       *)
LEMMA WaitStep ==
    ASSUME Inv, GoController \/ GoFactories \/ ContextDone \/ Join
    PROVE  Inv'
<1> USE OperatorAssumption DEF Inv, optionVars, signalVars, informerVars, runVars
<1>1. ASSUME GoController
      PROVE  Inv'
  <2>1. TypeOK'
    BY <1>1 DEF GoController, Goto, TypeOK
  <2>2. StagesOK'
    BY <1>1 DEF GoController, Goto, StagesOK, TypeOK, SuccessAfterShutdown
  <2>3. InformersOK'
    BY <1>1 DEF GoController, Goto, StagesOK, InformersOK, WaitForCacheSync
  <2> QED
    BY <2>1, <2>2, <2>3
<1>2. ASSUME GoFactories
      PROVE  Inv'
  <2>1. TypeOK'
    BY <1>2 DEF GoFactories, Goto, TypeOK
  <2>2. StagesOK'
    BY <1>2 DEF GoFactories, Goto, StagesOK, TypeOK, SuccessAfterShutdown
  <2>3. InformersOK'
    BY <1>2 DEF GoFactories, Goto, StagesOK, InformersOK, WaitForCacheSync
  <2> QED
    BY <2>1, <2>2, <2>3
<1>3. ASSUME ContextDone
      PROVE  Inv'
  <2>1. TypeOK'
    BY <1>3 DEF ContextDone, Goto, TypeOK
  <2>2. StagesOK'
    BY <1>3 DEF ContextDone, Goto, StagesOK, TypeOK, SuccessAfterShutdown
  <2>3. InformersOK'
    BY <1>3 DEF ContextDone, Goto, StagesOK, InformersOK, WaitForCacheSync
  <2> QED
    BY <2>1, <2>2, <2>3
<1>4. ASSUME Join
      PROVE  Inv'
  <2>1. TypeOK'
    BY <1>4 DEF Join, Exit, Running, TypeOK
  <2>2. StagesOK'
    BY <1>4 DEF Join, Exit, Running, StagesOK, TypeOK, SuccessAfterShutdown
  <2>3. InformersOK'
    BY <1>4 DEF Join, Exit, Running, StagesOK, InformersOK, WaitForCacheSync
  <2> QED
    BY <2>1, <2>2, <2>3
<1> QED
  BY <1>1, <1>2, <1>3, <1>4

(* Signals and informers: the context stays cancelled, caches stay filled. *)
LEMMA EnvironmentStep ==
    ASSUME Inv,
           \/ Signal \/ Handler
           \/ \E f \in Factories : Start(f)
           \/ \E informer \in Informer : Listed(informer)
    PROVE  Inv'
<1> USE OperatorAssumption DEF Inv, optionVars, signalVars, informerVars, runVars
<1>1. ASSUME Signal
      PROVE  Inv'
  <2>1. TypeOK'
    BY <1>1 DEF Signal, Running, TypeOK
  <2>2. StagesOK'
    BY <1>1 DEF Signal, Running, StagesOK, TypeOK, SuccessAfterShutdown
  <2>3. InformersOK'
    BY <1>1 DEF Signal, Running, StagesOK, InformersOK, WaitForCacheSync
  <2> QED
    BY <2>1, <2>2, <2>3
<1>2. ASSUME FirstSignal
      PROVE  Inv'
  <2>1. TypeOK'
    BY <1>2 DEF FirstSignal, Running, TypeOK
  <2>2. StagesOK'
    BY <1>2 DEF FirstSignal, Running, StagesOK, TypeOK, SuccessAfterShutdown
  <2>3. InformersOK'
    BY <1>2 DEF FirstSignal, Running, StagesOK, InformersOK, WaitForCacheSync
  <2> QED
    BY <2>1, <2>2, <2>3
<1>3. ASSUME SecondSignal
      PROVE  Inv'
  <2>1. TypeOK'
    BY <1>3 DEF SecondSignal, Exit, Running, TypeOK
  <2>2. StagesOK'
    BY <1>3 DEF SecondSignal, Exit, Running, StagesOK, TypeOK, SuccessAfterShutdown
  <2>3. InformersOK'
    BY <1>3 DEF SecondSignal, Exit, Running, StagesOK, InformersOK, WaitForCacheSync
  <2> QED
    BY <2>1, <2>2, <2>3
<1>4. ASSUME NEW f \in Factories, Start(f)
      PROVE  Inv'
  <2>1. InformersOf(f) \subseteq Informer
    BY DEF InformersOf, TypeOK
  <2>2. /\ starter' \in [Factories -> {"none", "ready", "done"}]
        /\ started' \in SUBSET Informer /\ listed' \in SUBSET started'
    BY <1>4, <2>1 DEF Start, TypeOK
  <2>3. TypeOK'
    BY <1>4, <2>2 DEF Start, TypeOK
  <2>4. StagesOK'
    BY <1>4 DEF Start, StagesOK, SuccessAfterShutdown
  <2>5. InformersOK'
    BY <1>4 DEF Start, InformersOK, WaitForCacheSync
  <2> QED
    BY <2>3, <2>4, <2>5
<1>5. ASSUME NEW informer \in Informer, Listed(informer)
      PROVE  Inv'
  <2>1. TypeOK'
    BY <1>5 DEF Listed, TypeOK
  <2>2. StagesOK'
    BY <1>5 DEF Listed, StagesOK, SuccessAfterShutdown
  <2>3. InformersOK'
    BY <1>5 DEF Listed, InformersOK, WaitForCacheSync
  <2> QED
    BY <2>1, <2>2, <2>3
<1> QED
  BY <1>1, <1>2, <1>3, <1>4, <1>5 DEF Handler

(* The controller's goroutine.                                             *)
LEMMA ControllerStep ==
    ASSUME Inv, Controller
    PROVE  Inv'
<1> USE OperatorAssumption DEF Inv, optionVars, signalVars, informerVars, runVars
<1>1. ASSUME RunStarts
      PROVE  Inv'
  <2>1. TypeOK'
    BY <1>1 DEF RunStarts, RunStep, Running, TypeOK
  <2>2. StagesOK'
    BY <1>1 DEF RunStarts, RunStep, Running, StagesOK, TypeOK, SuccessAfterShutdown
  <2>3. InformersOK'
    BY <1>1 DEF RunStarts, RunStep, Running, StagesOK, InformersOK, WaitForCacheSync
  <2> QED
    BY <2>1, <2>2, <2>3
<1>2. ASSUME StartWorkers
      PROVE  Inv'
  <2>1. TypeOK'
    BY <1>2 DEF StartWorkers, RunStep, Running, TypeOK
  <2>2. StagesOK'
    BY <1>2 DEF StartWorkers, RunStep, Running, StagesOK, TypeOK, SuccessAfterShutdown
  <2>3. InformersOK'
    BY <1>2 DEF StartWorkers, RunStep, Running, StagesOK, InformersOK, WaitForCacheSync
  <2> QED
    BY <2>1, <2>2, <2>3
<1>3. ASSUME RunReturns
      PROVE  Inv'
  <2>1. TypeOK'
    BY <1>3 DEF RunReturns, RunStep, Running, StagesOK, TypeOK
  <2>2. StagesOK'
    BY <1>3 DEF RunReturns, RunStep, Running, StagesOK, TypeOK, SuccessAfterShutdown
  <2>3. InformersOK'
    BY <1>3 DEF RunReturns, RunStep, Running, StagesOK, InformersOK, WaitForCacheSync
  <2> QED
    BY <2>1, <2>2, <2>3
<1> QED
  BY <1>1, <1>2, <1>3 DEF Controller

(* The invariant is inductive.                                             *)
LEMMA NextInv == Inv /\ [Next]_vars => Inv'
<1>1. ASSUME Inv, UNCHANGED vars
      PROVE  Inv'
  BY <1>1 DEF vars, optionVars, signalVars, informerVars, runVars, Inv, TypeOK,
              StagesOK, InformersOK, SuccessAfterShutdown, WaitForCacheSync
<1> QED
  BY <1>1, StartStep, RequestStep, WaitStep, EnvironmentStep, ControllerStep
     DEF Next, Main

(* What the invariant says of every behaviour.                             *)
LEMMA InvAlways == Spec => []Inv
<1> QED
  BY InitInv, NextInv, PTL DEF Spec

(* All variables of the process have their types, for every configuration: *)
(* the counter of app.Run's WaitGroup, in particular, never goes below     *)
(* zero.                                                                   *)
THEOREM TypeCorrect == Spec => []TypeOK
<1>1. Inv => TypeOK
  BY DEF Inv
<1> QED
  BY <1>1, InvAlways, PTL

(* app.Run returns, and the process reports success, only after the        *)
(* controller has returned and shut down its queue, whenever signals come. *)
THEOREM Graceful == Spec => []SuccessAfterShutdown
<1>1. Inv => SuccessAfterShutdown
  BY DEF Inv, StagesOK
<1> QED
  BY <1>1, InvAlways, PTL

(* The informers that the workers' listers read and whose handlers feed    *)
(* the queue are the ones that the factories started and that Run waited   *)
(* for, in whatever order the goroutines run.                              *)
THEOREM FullCaches == Spec => []WorkersReadFullCaches
<1>1. ASSUME Inv PROVE WorkersReadFullCaches
  <2> SUFFICES ASSUME run = "running", NEW h \in held
               PROVE  h.informer \in started \cap listed
    BY DEF WorkersReadFullCaches
  <2>1. /\ main \in {"start", "wait", "join"} /\ request = 14
        /\ h.type \in Types /\ h.informer = informers[h.type]
        /\ WaitForCacheSync /\ listed \subseteq started
    BY <1>1, RequestFacts DEF Inv, TypeOK, StagesOK, InformersOK, Held
  <2>2. PICK i \in 1 .. 14 :
           Requests[i].type = h.type /\ Requests[i].use = "HasSynced"
    BY <2>1, RequestFacts
  <2>3. [type |-> h.type, use |-> "HasSynced", informer |-> h.informer] \in held
    BY <1>1, <2>1, <2>2 DEF Inv, InformersOK
  <2>4. h.informer \in listed
    BY <2>1, <2>3 DEF WaitForCacheSync
  <2> QED
    BY <2>1, <2>4
<1> QED
  BY <1>1, InvAlways, PTL

-----------------------------------------------------------------------------
(* The options on their way from file and flags to the factories.          *)

OptionsOK ==
    /\ main \notin {"config", "flags"} =>
          flags \in Given /\ opts.period = ConfiguredPeriod
    /\ main = "flags" => opts.period = FilePeriod
    /\ ResyncUnlessTurnedOff

(* What resyncPeriod may draw.                                             *)
LEMMA ResyncDraw ==
    ASSUME opts.period \in Int, NEW resync \in resyncPeriod
    PROVE  /\ resync \in Int
           /\ IF opts.period > 0 THEN resync \in opts.period .. 2 * opts.period
                                 ELSE resync <= 0
<1> DEFINE p == opts.period
<1>1. p \in Int /\ 2 * p - 1 \in Int /\ 2 * p + 1 \in Int /\ 2 * p \in Int
  OBVIOUS
<1>2. \/ resync = p
      \/ resync \in p .. 2 * p - 1
      \/ resync \in 2 * p + 1 .. p
  BY DEF resyncPeriod
<1> HIDE DEF p
<1>3. /\ resync \in Int
      /\ IF p > 0 THEN resync \in p .. 2 * p ELSE resync <= 0
  BY <1>1, <1>2
<1> QED
  BY <1>3 DEF p

(* The steps that handle the options.                                      *)
LEMMA OptionsStep ==
    ASSUME Inv, OptionsOK, NewOperatorOpts \/ AddFlags \/ NewFactories
    PROVE  OptionsOK'
<1> USE OperatorAssumption DEF OperatorAssumption
<1>0. /\ opts.period \in Int /\ file \in Files /\ flags \in Flags
      /\ factory \in [Factories -> [namespace : Namespaces \cup {NamespaceAll},
                                    resync : Int]]
  <2>1. opts.period \in Periods \cup {DefaultPeriod}
    BY DEF Inv, TypeOK
  <2>2. Periods \cup {DefaultPeriod} \subseteq Int
    OBVIOUS
  <2>3. opts.period \in Int
    BY <2>1, <2>2
  <2> QED
    BY <2>3 DEF Inv, TypeOK
<1>1. CASE NewOperatorOpts
  <2>1. /\ main' = "flags" /\ file' = file
        /\ opts' = EnsureDefaults(IF file = Absent THEN NoOptions ELSE file)
        /\ file # Invalid
    BY <1>1 DEF NewOperatorOpts
  <2>2. (IF file = Absent THEN NoOptions ELSE file) \in Options
    BY <1>0, <2>1 DEF Files, NoOptions, Options
  <2>3. (IF file = Absent THEN NoOptions ELSE file).period \in Int
    BY <2>2 DEF Options
  <2>4. opts'.period = FilePeriod
    BY <2>1, <2>2, <2>3 DEF EnsureDefaults, Options, NoOptions, FilePeriod
  <2> QED
    BY <2>1, <2>4 DEF OptionsOK, FilePeriod, ResyncUnlessTurnedOff, HasFactories
<1>2. CASE AddFlags
  <2>1. /\ main = "flags" /\ main' = "kubeconfig"
        /\ UNCHANGED <<file, flags>> /\ flags \in Given
        /\ opts' =
              [namespace |-> IF flags.namespace = Unset THEN NamespaceAll
                                                        ELSE flags.namespace,
               period |-> IF flags.period = Unset THEN opts.period
                                                  ELSE flags.period]
    BY <1>0, <1>2 DEF AddFlags, Flags
  <2>2. opts.period = FilePeriod
    BY <2>1 DEF OptionsOK
  <2>3. opts'.period = ConfiguredPeriod
    BY <2>1, <2>2 DEF ConfiguredPeriod
  <2> QED
    BY <2>1, <2>3 DEF OptionsOK, ConfiguredPeriod, FilePeriod,
                      ResyncUnlessTurnedOff, HasFactories
<1>3. CASE NewFactories /\ exit' = exit
  <2>1. /\ main = "factories" /\ main' = "controller"
        /\ UNCHANGED <<file, flags, opts>>
        /\ factory' \in [Factories -> [namespace : {opts.namespace},
                                       resync : resyncPeriod]]
    BY <1>3 DEF NewFactories, Goto, Exit, Running, optionVars
  <2>2. flags \in Given /\ opts.period = ConfiguredPeriod
    BY <2>1 DEF OptionsOK
  <2>3. ASSUME NEW f \in Factories
        PROVE  IF ConfiguredPeriod > 0
               THEN factory'[f].resync \in ConfiguredPeriod .. 2 * ConfiguredPeriod
               ELSE factory'[f].resync <= 0
    <3>1. factory'[f].resync \in resyncPeriod
      BY <2>1
    <3> QED
      BY <1>0, <2>2, <3>1, ResyncDraw
  <2> QED
    BY <2>1, <2>2, <2>3 DEF OptionsOK, ConfiguredPeriod, FilePeriod,
                            ResyncUnlessTurnedOff
<1>4. CASE NewFactories /\ exit' # exit
  <2>1. UNCHANGED <<optionVars, main, factory>>
    BY <1>4 DEF NewFactories, Goto, Exit, informerVars
  <2> QED
    BY <2>1 DEF optionVars, OptionsOK, ConfiguredPeriod, FilePeriod,
                ResyncUnlessTurnedOff, HasFactories
<1> QED
  BY <1>1, <1>2, <1>3, <1>4

(* Whatever file and flags say, the resync on which recovery rests is on   *)
(* unless the command line turns it off, and its period is between the one *)
(* asked for and twice that: that of the command line before that of the   *)
(* file, and the default if neither has one.                               *)
THEOREM ResyncKept == Spec => []ResyncUnlessTurnedOff
<1>1. Init => OptionsOK
  BY DEF Init, OptionsOK, ResyncUnlessTurnedOff, HasFactories
<1>2. Inv /\ OptionsOK /\ [Next]_vars => OptionsOK'
  <2> SUFFICES ASSUME Inv, OptionsOK, [Next]_vars PROVE OptionsOK'
    OBVIOUS
  <2>1. CASE NewOperatorOpts \/ AddFlags \/ NewFactories
    BY <2>1, OptionsStep
  <2>2. CASE ~(NewOperatorOpts \/ AddFlags \/ NewFactories)
    <3>1. UNCHANGED <<optionVars, factory>>
      BY <2>2 DEF Next, Main, Handler, Controller, OptionsFail, FlagsFail,
                  BuildConfig, SetupSignalHandler, NewBrokerController,
                  GoController, GoFactories, ContextDone, Join, Goto, Exit,
                  Signal, FirstSignal, SecondSignal, Start, Listed, RunStarts,
                  StartWorkers, RunReturns, RunStep, informerVars, vars
    <3>2. \/ main' = main
          \/ /\ main' \in {"controller", "start", "wait", "join"}
             /\ main \in {"controller", "start", "wait", "join"}
          \/ /\ main' \in {"handler", "factories"}
             /\ main \in {"kubeconfig", "handler"}
      BY <2>2 DEF Next, Main, Handler, Controller, OptionsFail, FlagsFail,
                  BuildConfig, SetupSignalHandler, NewBrokerController,
                  GoController, GoFactories, ContextDone, Join, Goto, Exit,
                  Signal, FirstSignal, SecondSignal, Start, Listed, RunStarts,
                  StartWorkers, RunReturns, RunStep, vars
    <3> QED
      BY <3>1, <3>2 DEF optionVars, OptionsOK, ConfiguredPeriod, FilePeriod,
                        ResyncUnlessTurnedOff, HasFactories
  <2> QED
    BY <2>1, <2>2
<1>3. OptionsOK => ResyncUnlessTurnedOff
  BY DEF OptionsOK
<1> QED
  BY <1>1, <1>2, <1>3, InvAlways, PTL DEF Spec

-----------------------------------------------------------------------------
(* The process as ControllerRun sees it.                                   *)

(* No informer runs before app.Run has come to its wait.                   *)
StartOK ==
    main \notin {"wait", "join"} =>
        started = {} /\ \A f \in Factories : starter[f] = "none"

(* That it is so in every state.                                           *)
LEMMA StartInv == Spec => []StartOK
<1>1. Init => StartOK
  BY DEF Init, StartOK
<1>2. Inv /\ StartOK /\ [Next]_vars => StartOK'
  <2> SUFFICES ASSUME Inv, StartOK, [Next]_vars PROVE StartOK'
    OBVIOUS
  <2> USE DEF StartOK, optionVars, signalVars, informerVars, runVars
  <2>1. CASE Main
    BY <2>1 DEF Main, NewOperatorOpts, OptionsFail, AddFlags, FlagsFail,
                BuildConfig, SetupSignalHandler, NewFactories,
                NewBrokerController, GoController, GoFactories, ContextDone,
                Join, Goto, Exit
  <2>2. CASE Signal \/ Handler
    BY <2>2 DEF Signal, Handler, FirstSignal, SecondSignal, Exit
  <2>3. CASE Controller
    BY <2>3 DEF Controller, RunStarts, StartWorkers, RunReturns, RunStep
  <2>4. CASE \E f \in Factories : Start(f)
    BY <2>4 DEF Start
  <2>5. CASE \E informer \in Informer : Listed(informer)
    BY <2>5 DEF Listed
  <2>6. CASE UNCHANGED vars
    BY <2>6 DEF vars
  <2> QED
    BY <2>1, <2>2, <2>3, <2>4, <2>5, <2>6 DEF Next
<1> QED
  BY <1>1, <1>2, InvAlways, PTL DEF Spec

(* Full caches mean that informers run, so that main has come to its wait. *)
LEMMA SyncedMeansStarted ==
    ASSUME Inv, StartOK, run = "syncing", WaitForCacheSync
    PROVE  main \in {"wait", "join"}
<1>1. request = 14 /\ listed \subseteq started
  BY RequestFacts DEF Inv, TypeOK, StagesOK, InformersOK
<1>2. PICK i \in 1 .. 14 :
         Requests[i].type = "Pod" /\ Requests[i].use = "HasSynced"
  BY RequestFacts DEF Types
<1>3. [type |-> "Pod", use |-> "HasSynced", informer |-> informers["Pod"]] \in held
  BY <1>1, <1>2 DEF Inv, InformersOK
<1>4. informers["Pod"] \in started
  BY <1>1, <1>3 DEF WaitForCacheSync
<1> QED
  BY <1>4 DEF StartOK

(* A step that leaves alone what ControllerRun sees, and one that changes  *)
(* whether the caches are synced.                                          *)
LEMMA LifeStutter ==
    ASSUME UNCHANGED <<cancelled, run>>,
           (main \in {"wait", "join"} /\ WaitForCacheSync) =>
              (main \in {"wait", "join"} /\ WaitForCacheSync)'
    PROVE  [Life!Next]_(Life!vars)
<1> DEFINE synced == main \in {"wait", "join"} /\ WaitForCacheSync
<1>1. CASE synced' = synced
  BY <1>1 DEF Life!vars, Life!queueVars, Life!delayVars, Life!runVars
<1>2. CASE ~synced /\ synced'
  BY <1>2 DEF Life!Next, Life!CachesSync, Life!queueVars, Life!delayVars
<1> QED
  BY <1>1, <1>2

(* Every step of the process is a step of ControllerRun, or none.          *)
LEMMA LifeStep ==
    ASSUME Inv, StartOK, [Next]_vars
    PROVE  [Life!Next]_(Life!vars)
<1> USE DEF optionVars, signalVars, informerVars, runVars
<1> DEFINE synced == main \in {"wait", "join"} /\ WaitForCacheSync
<1>1. CASE Main /\ ~GoController
  <2>1. UNCHANGED <<cancelled, run, listed>>
    BY <1>1 DEF Main, NewOperatorOpts, OptionsFail, AddFlags, FlagsFail,
                BuildConfig, SetupSignalHandler, NewFactories,
                NewBrokerController, GoFactories, ContextDone, Join, Goto, Exit
  <2>2. synced => held' = held /\ main' \in {"wait", "join"}
    BY <1>1 DEF Main, NewOperatorOpts, OptionsFail, AddFlags, FlagsFail,
                BuildConfig, SetupSignalHandler, NewFactories,
                NewBrokerController, GoFactories, ContextDone, Join, Goto, Exit
  <2> QED
    BY <2>1, <2>2, LifeStutter DEF WaitForCacheSync
<1>2. CASE GoController
  <2>1. /\ ~synced /\ ~synced' /\ cancelled' = cancelled
        /\ run = "off" /\ run' = "created"
    BY <1>2 DEF GoController, Goto, Inv, StagesOK
  <2> QED
    BY <2>1 DEF Life!vars, Life!queueVars, Life!delayVars, Life!runVars
<1>3. CASE \/ Signal \/ SecondSignal
           \/ \E f \in Factories : Start(f)
           \/ \E informer \in Informer : Listed(informer)
           \/ UNCHANGED vars
  <2>1. UNCHANGED <<cancelled, run, main, held>> /\ listed \subseteq listed'
    BY <1>3 DEF Signal, SecondSignal, Exit, Start, Listed, vars
  <2> QED
    BY <2>1, LifeStutter DEF WaitForCacheSync
<1>4. CASE FirstSignal
  <2>1. cancelled' = TRUE /\ run' = run /\ (synced' <=> synced)
    BY <1>4 DEF FirstSignal, WaitForCacheSync
  <2>2. CASE cancelled
    <3>1. cancelled' = cancelled
      BY <2>1, <2>2 DEF Inv, TypeOK
    <3> QED
      BY <2>1, <3>1, LifeStutter
  <2>3. CASE ~cancelled
    BY <2>1, <2>3 DEF Life!Next, Life!Cancel, Life!queueVars, Life!delayVars
  <2> QED
    BY <2>2, <2>3
<1>5. CASE RunStarts
  <2>1. /\ cancelled' = cancelled /\ (synced' <=> synced)
        /\ run = "created" /\ run' = "syncing"
    BY <1>5 DEF RunStarts, RunStep, WaitForCacheSync
  <2> QED
    BY <2>1 DEF Life!vars, Life!queueVars, Life!delayVars, Life!runVars
<1>6. CASE StartWorkers
  <2>1. /\ cancelled' = cancelled /\ (synced' <=> synced)
        /\ run = "syncing" /\ run' = "running" /\ synced
    BY <1>6, SyncedMeansStarted DEF StartWorkers, RunStep, WaitForCacheSync
  <2>2. << >> = [w \in {} |-> "started"]
    OBVIOUS
  <2> QED
    BY <2>1, <2>2 DEF Life!Next, Life!StartWorkers, Life!queueVars, Life!delayVars
<1>7. CASE RunReturns
  <2>1. /\ cancelled' = cancelled /\ cancelled /\ (synced' <=> synced)
        /\ run \in {"syncing", "running"} /\ run' = "returned"
    BY <1>7 DEF RunReturns, RunStep, WaitForCacheSync
  <2> QED
    BY <2>1 DEF Life!Next, Life!RunReturns, Life!ShutDown, Life!delayVars
<1> QED
  BY <1>1, <1>2, <1>3, <1>4, <1>5, <1>6, <1>7 DEF Next, Handler, Controller

(* app.Run is an environment for the controller as ControllerRun assumes   *)
(* it: whatever the signals, options and informers do, the caches sync     *)
(* once, the context is cancelled once, workers start only after the       *)
(* former and Run returns only after the latter.                           *)
THEOREM ProcessRunsController == Spec => LivesAsControllerRun
<1>1. Init => Life!Init
  <2> SUFFICES ASSUME Init PROVE Life!Init
    OBVIOUS
  <2>1. << >> = [w \in {} |-> "off"]
    OBVIOUS
  <2> QED
    BY <2>1 DEF Init, Life!Init, Life!WorkQueueInit
<1>2. Inv /\ StartOK /\ [Next]_vars => [Life!Next]_(Life!vars)
  BY LifeStep
<1> QED
  BY <1>1, <1>2, InvAlways, StartInv, PTL DEF Spec, Life!Spec, LivesAsControllerRun
=============================================================================
