------------------------------ MODULE Operator ------------------------------
(***************************************************************************)
(* One process of the operator: main reads its options, app.Run installs   *)
(* the signal handler, makes the clients, the informer factories and the   *)
(* controller, starts the goroutines, and waits for the context to be      *)
(* cancelled and for the controller to return.  What the controller does   *)
(* in between is the subject of ControllerRun and BrokerController.        *)
(***************************************************************************)
EXTENDS Integers, Sequences

CONSTANTS
    NamespaceAll,   \* metav1.NamespaceAll, the empty string
    Namespaces,     \* namespaces named in the file or on the command line
    Periods,        \* resync periods given there; 0 in the file is no value
    DefaultPeriod,  \* 12 hours
    Unset,          \* a flag that is not given
    Absent,         \* no configuration file
    Invalid,        \* a file, or flags, that cannot be read or parsed
    MaxSignals      \* bound on the signals sent to the process

(* The configuration file and the flags, as the process finds them.        *)
Options == [namespace : Namespaces \cup {NamespaceAll}, period : Periods]
Given == [namespace : Namespaces \cup {Unset}, period : Periods \cup {Unset}]

Files == Options \cup {Absent, Invalid}
Flags == Given \cup {Invalid}

ASSUME OperatorAssumption ==
    /\ Periods \subseteq Int /\ 0 \in Periods
    /\ DefaultPeriod \in Nat \ {0}
    /\ Unset \notin Periods \cup {DefaultPeriod} \cup Namespaces
    /\ {Absent, Invalid} \cap (Options \cup Given) = {}
    /\ MaxSignals \in Nat

Types == {"BrokerCluster", "StatefulSet", "Service", "Pod"}
Factories == {"kube", "operator"}
FactoryOf(type) == IF type = "BrokerCluster" THEN "operator" ELSE "kube"

VARIABLES
    file, flags,    \* what the process is given
    opts,           \* OperatorOpts
    main,           \* where main and app.Run are
    exit,           \* how the process ended
    sent,           \* signals sent so far
    channel,        \* signals in the handler's channel
    handler,        \* which signal its goroutine waits for
    cancelled,      \* the context is done
    factory,        \* namespace and resync period of each factory
    informers,      \* the factories' maps: the informer of each type
    request,        \* requests NewBrokerController has made
    held,           \* informers behind its listers, HasSynced and handlers
    starter,        \* the goroutines that call Start
    started,        \* informers whose Run was called
    listed,         \* informers whose HasSynced is true
    run,            \* where the controller's goroutine is
    wg              \* counter of the WaitGroup

optionVars == <<file, flags, opts>>
signalVars == <<sent, channel, handler, cancelled>>
informerVars == <<factory, informers, request, held, starter, started, listed>>
runVars == <<run, wg>>
vars == <<optionVars, main, exit, signalVars, informerVars, runVars>>

(* The informers NewBrokerController asks for, in its order, and what for. *)
Request(type, use) == [type |-> type, use |-> use]

Requests == <<
    Request("BrokerCluster", "lister"), Request("BrokerCluster", "HasSynced"),
    Request("BrokerCluster", "control"),
    Request("Service", "lister"), Request("Service", "HasSynced"),
    Request("Service", "control"),
    Request("StatefulSet", "lister"), Request("StatefulSet", "HasSynced"),
    Request("StatefulSet", "control"),
    Request("Pod", "lister"), Request("Pod", "HasSynced"),
    Request("Pod", "control"),
    Request("BrokerCluster", "handler"), Request("StatefulSet", "handler")>>

(* An informer is named by the request that made it; 0 is none.            *)
Informer == 1 .. Len(Requests)

Held == [type : Types, use : {"lister", "HasSynced", "control", "handler"},
         informer : Informer]

Running == exit = "none"

(* Every variable has its type: the WaitGroup never goes below zero, which *)
(* would be a panic, and at most two signals wait.                         *)
TypeOK ==
    /\ file \in Files /\ flags \in Flags
    /\ opts.namespace \in Namespaces \cup {NamespaceAll}
    /\ opts.period \in Periods \cup {DefaultPeriod}
    /\ main \in {"config", "flags", "kubeconfig", "handler", "factories",
                 "controller", "start", "wait", "join"}
    /\ exit \in {"none", "0", "1", "2", "255", "killed"}
    /\ sent \in 0 .. MaxSignals
    /\ channel \in 0 .. 2
    /\ handler \in {"none", "first", "second"}
    /\ cancelled \in BOOLEAN
    /\ factory \in [Factories -> [namespace : Namespaces \cup {NamespaceAll},
                                  resync : Int]]
    /\ informers \in [Types -> Informer \cup {0}]
    /\ request \in 0 .. Len(Requests)
    /\ held \in SUBSET Held
    /\ starter \in [Factories -> {"none", "ready", "done"}]
    /\ started \in SUBSET Informer
    /\ listed \in SUBSET started
    /\ run \in {"off", "created", "syncing", "running", "returned"}
    /\ wg \in Nat

NoOptions == [namespace |-> NamespaceAll, period |-> 0]

Init ==
    /\ file \in Files /\ flags \in Flags
    /\ opts = NoOptions
    /\ main = "config"
    /\ exit = "none"
    /\ sent = 0 /\ channel = 0 /\ handler = "none" /\ cancelled = FALSE
    /\ factory = [f \in Factories |-> [namespace |-> NamespaceAll, resync |-> 0]]
    /\ informers = [type \in Types |-> 0]
    /\ request = 0 /\ held = {}
    /\ starter = [f \in Factories |-> "none"]
    /\ started = {} /\ listed = {}
    /\ run = "off" /\ wg = 0

-----------------------------------------------------------------------------
(* main: options.                                                          *)

Exit(code) ==
    /\ exit' = code
    /\ UNCHANGED <<optionVars, main, signalVars, informerVars, runVars>>

(* Mutant: only negative periods are replaced.                             *)
EnsureNoNegative(config) ==
    [config EXCEPT !.period = IF @ < 0 THEN DefaultPeriod ELSE @]

EnsureDefaults(config) ==
    [config EXCEPT !.period = IF @ <= 0 THEN DefaultPeriod ELSE @]

NewOperatorOpts ==
    /\ Running /\ main = "config" /\ file # Invalid
    /\ opts' = EnsureDefaults(IF file = Absent THEN NoOptions ELSE file)
    /\ main' = "flags"
    /\ UNCHANGED <<file, flags, exit, signalVars, informerVars, runVars>>

(* The file cannot be read or parsed; or the host has no name (Fatalf).    *)
OptionsFail ==
    /\ Running /\ main = "config"
    /\ IF file = Invalid THEN Exit("1") ELSE Exit("255")

(* A flag that is not given leaves its default.  That of the resync period *)
(* is the value of the file; that of the namespace is NamespaceAll, which  *)
(* AddFlags writes over the value of the file.                             *)
AddFlags ==
    /\ Running /\ main = "flags" /\ flags # Invalid
    /\ opts' =
          [namespace |-> IF flags.namespace = Unset THEN NamespaceAll
                                                    ELSE flags.namespace,
           period |-> IF flags.period = Unset THEN opts.period
                                              ELSE flags.period]
    /\ main' = "kubeconfig"
    /\ UNCHANGED <<file, flags, exit, signalVars, informerVars, runVars>>

(* pflag exits on a flag it does not know.                                 *)
FlagsFail ==
    /\ Running /\ main = "flags" /\ flags = Invalid
    /\ Exit("2")

-----------------------------------------------------------------------------
(* app.Run, up to the goroutines.                                          *)

Goto(next) ==
    /\ Running
    /\ main' = next
    /\ UNCHANGED <<optionVars, exit>>

BuildConfig ==
    /\ Running /\ main = "kubeconfig"
    /\ \/ Goto("handler") /\ UNCHANGED <<signalVars, informerVars, runVars>>
       \/ Exit("1")

SetupSignalHandler ==
    /\ main = "handler"
    /\ Goto("factories")
    /\ handler' = "first"
    /\ UNCHANGED <<sent, channel, cancelled, informerVars, runVars>>

(* resyncPeriod draws from period to twice the period, for each factory.   *)
resyncPeriod == {opts.period} \cup opts.period .. 2 * opts.period - 1
                              \cup 2 * opts.period + 1 .. opts.period

(* The clients (NewForConfigOrDie may panic), and the factories.           *)
NewFactories ==
    /\ Running /\ main = "factories"
    /\ \/ /\ Goto("controller")
          /\ factory' \in [Factories -> [namespace : {opts.namespace},
                                         resync : resyncPeriod]]
          /\ UNCHANGED <<signalVars, informers, request, held, starter,
                         started, listed, runVars>>
       \/ Exit("2")

(* Mutant: every request makes an informer, and the map has the last one.  *)
NewInformer(type) == request + 1

(* The factory's map has one informer per type, made by the first request. *)
InformerFor(type) ==
    IF informers[type] # 0 THEN informers[type] ELSE request + 1

(* NewBrokerController asks for one informer after the other.              *)
NewBrokerController ==
    /\ main = "controller"
    /\ request < Len(Requests)
    /\ Goto("controller")
    /\ request' = request + 1
    /\ LET r == Requests[request + 1] IN
          /\ informers' = [informers EXCEPT ![r.type] = InformerFor(r.type)]
          /\ held' = held \cup {[type |-> r.type, use |-> r.use,
                                 informer |-> InformerFor(r.type)]}
    /\ UNCHANGED <<signalVars, factory, starter, started, listed, runVars>>

(* Mutant: the goroutine is not counted.                                   *)
GoUncounted ==
    /\ main = "controller"
    /\ request = Len(Requests)
    /\ Goto("start")
    /\ run' = "created"
    /\ UNCHANGED <<wg, signalVars, informerVars>>

(* wg.Add, and the goroutine of the controller.                            *)
GoController ==
    /\ main = "controller"
    /\ request = Len(Requests)
    /\ Goto("start")
    /\ run' = "created"
    /\ wg' = wg + 1
    /\ UNCHANGED <<signalVars, informerVars>>

GoFactories ==
    /\ main = "start"
    /\ Goto("wait")
    /\ starter' = [f \in Factories |-> "ready"]
    /\ UNCHANGED <<signalVars, factory, informers, request, held, started,
                   listed, runVars>>

ContextDone ==
    /\ main = "wait" /\ cancelled
    /\ Goto("join")
    /\ UNCHANGED <<signalVars, informerVars, runVars>>

(* wg.Wait, and the return of app.Run and of main.                         *)
Join ==
    /\ Running /\ main = "join" /\ wg = 0
    /\ Exit("0")

-----------------------------------------------------------------------------
(* The other goroutines.                                                   *)

(* Without a handler a signal kills the process; a full channel drops it.  *)
Signal ==
    /\ Running /\ sent < MaxSignals
    /\ sent' = sent + 1
    /\ IF handler = "none"
       THEN exit' = "killed" /\ UNCHANGED channel
       ELSE channel' = (IF channel < 2 THEN channel + 1 ELSE channel)
            /\ UNCHANGED exit
    /\ UNCHANGED <<optionVars, main, handler, cancelled, informerVars, runVars>>

FirstSignal ==
    /\ Running /\ handler = "first" /\ channel > 0
    /\ channel' = channel - 1
    /\ cancelled' = TRUE
    /\ handler' = "second"
    /\ UNCHANGED <<optionVars, main, exit, sent, informerVars, runVars>>

SecondSignal ==
    /\ Running /\ handler = "second" /\ channel > 0
    /\ Exit("1")

InformersOf(f) ==
    {informers[type] : type \in {t \in Types : FactoryOf(t) = f}} \ {0}

(* Start runs the informers that the factory's map has now.                *)
Start(f) ==
    /\ Running /\ starter[f] = "ready"
    /\ starter' = [starter EXCEPT ![f] = "done"]
    /\ started' = started \cup InformersOf(f)
    /\ UNCHANGED <<optionVars, main, exit, signalVars, factory, informers,
                   request, held, listed, runVars>>

(* The reflector's first list has reached the cache.                       *)
Listed(informer) ==
    /\ Running /\ informer \in started \ listed
    /\ listed' = listed \cup {informer}
    /\ UNCHANGED <<optionVars, main, exit, signalVars, factory, informers,
                   request, held, starter, started, runVars>>

RunStep(next) ==
    /\ Running
    /\ run' = next
    /\ UNCHANGED <<optionVars, main, exit, signalVars, informerVars>>

(* Mutant: the wait leaves the Services out.                               *)
AlmostSynced ==
    \A h \in held : h.use = "HasSynced" /\ h.type # "Service"
                       => h.informer \in listed

WaitForCacheSync ==
    \A h \in held : h.use = "HasSynced" => h.informer \in listed

RunStarts ==
    /\ run = "created"
    /\ RunStep("syncing")
    /\ UNCHANGED wg

StartWorkers ==
    /\ run = "syncing" /\ WaitForCacheSync
    /\ RunStep("running")
    /\ UNCHANGED wg

(* Mutant: the goroutine does not call wg.Done.                            *)
RunReturnsOnly ==
    /\ run \in {"syncing", "running"} /\ cancelled
    /\ RunStep("returned")
    /\ UNCHANGED wg

(* Mutant: a failed wait for the caches ends Run at once.                  *)
RunGivesUp ==
    /\ run \in {"syncing", "running"} /\ (cancelled \/ run = "syncing")
    /\ RunStep("returned")
    /\ wg' = wg - 1

(* Run returns from the wait or from its end; wg.Done is deferred.         *)
RunReturns ==
    /\ run \in {"syncing", "running"} /\ cancelled
    /\ RunStep("returned")
    /\ wg' = wg - 1

-----------------------------------------------------------------------------
Main ==
    \/ NewOperatorOpts \/ OptionsFail \/ AddFlags \/ FlagsFail
    \/ BuildConfig \/ SetupSignalHandler \/ NewFactories
    \/ NewBrokerController \/ GoController \/ GoFactories
    \/ ContextDone \/ Join

Handler == FirstSignal \/ SecondSignal

Controller == RunStarts \/ StartWorkers \/ RunReturns

Next ==
    \/ Main \/ Signal \/ Handler \/ Controller
    \/ \E f \in Factories : Start(f)
    \/ \E informer \in Informer : Listed(informer)

Spec == Init /\ [][Next]_vars

(* Goroutines that can move do; an API server that is there answers a list *)
(* in the end.  Nobody has to send a signal.                               *)
FairSpec ==
    /\ Spec
    /\ WF_vars(Main) /\ WF_vars(Handler) /\ WF_vars(Controller)
    /\ \A f \in Factories : WF_vars(Start(f))
    /\ \A informer \in Informer : WF_vars(~cancelled /\ Listed(informer))

-----------------------------------------------------------------------------
(* Properties.                                                             *)

(* The period that is asked for: that of the command line, or that of the  *)
(* file, or else the default.                                              *)
FilePeriod ==
    IF file # Absent /\ file.period > 0 THEN file.period ELSE DefaultPeriod

ConfiguredPeriod == IF flags.period # Unset THEN flags.period ELSE FilePeriod

HasFactories == main \in {"controller", "start", "wait", "join"}

(* The recovery of BrokerController rests on the resync.  Whatever file    *)
(* and flags say, each factory has a period between the one asked for and  *)
(* twice that, and no resync only if the command line asks for none        *)
(* (EnsureDefaults, AddFlags, resyncPeriod).                               *)
ResyncUnlessTurnedOff ==
    HasFactories =>
        \A f \in Factories :
            IF ConfiguredPeriod > 0
            THEN factory[f].resync \in ConfiguredPeriod .. 2 * ConfiguredPeriod
            ELSE factory[f].resync <= 0

(* No worker runs before every cache that it reads, directly or through a  *)
(* control, and every handler that feeds it belongs to an informer that    *)
(* was started and has delivered its list (InformerFor, Start, Run).       *)
WorkersReadFullCaches ==
    run = "running" => \A h \in held : h.informer \in started \cap listed

(* The process reports success only after the controller has returned and  *)
(* shut down its queue (WaitGroup of app.Run).                             *)
SuccessAfterShutdown == exit = "0" => run = "returned" /\ cancelled

(* The controller comes up: once app.Run waits, the caches fill and the    *)
(* workers start, unless the process is told to end before.                *)
ComesUp == main = "wait" ~> run = "running" \/ cancelled \/ exit # "none"

(* One signal is enough to end the process, at whatever moment of its      *)
(* start, of the wait for the caches or of its work it comes.              *)
OneSignalEnds == sent > 0 ~> exit # "none"

(* To the controller the process is the environment that ControllerRun     *)
(* assumes: caches sync once, the context is cancelled once, and Run goes  *)
(* through its stages in their order.  Keys and workers are its own.       *)
Life == INSTANCE ControllerRun WITH
    Keys <- {}, ChannelSize <- 1, Workers <- {},
    Off <- "off", Started <- "started", Blocked <- "blocked", Ended <- "ended",
    queue <- << >>, dirty <- {}, processing <- {}, channel <- << >>,
    heap <- {}, looping <- TRUE, worker <- << >>,
    shuttingDown <- run = "returned",
    synced <- main \in {"wait", "join"} /\ WaitForCacheSync,
    run <- IF run \in {"off", "created"} THEN "syncing" ELSE run

LivesAsControllerRun == Life!Spec
=============================================================================
