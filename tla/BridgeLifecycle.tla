-------------------------- MODULE BridgeLifecycle --------------------------
(***************************************************************************)
(* The life of the bridge server: CacheManager.enableBridgeServer and      *)
(* disableBridgeServer (ProxyCacheManager.ts), BridgeServer.listen,        *)
(* startNative and stop and the HttpProxy wrapper (Libs/httpProxy.ts), and *)
(* the native start/stop of both platforms (CacheVideoHttpProxyModule.kt,  *)
(* CacheVideoHttpProxy.mm).                                                *)
(*                                                                         *)
(* JavaScript runs one task at a time.  A task is here either a call made  *)
(* by the application (Enable, Disable) or the delivery of one native      *)
(* result (Settle); what a promise resumes runs as Continue, a microtask,  *)
(* before the next task.  The native side runs beside it: calls cross the  *)
(* bridge in the order they were made (moduleQ); iOS hands the body of a   *)
(* start on to the main queue (mainQ) while it runs a stop at once.        *)
(***************************************************************************)
EXTENDS Naturals, Sequences

CONSTANTS
    Ports,          \* the ephemeral ports portGenerate() may return
    BadPort,        \* a port listen() rejects before any native call
    NoPort,         \* null
    Platform,       \* "android" or "ios"
    MaxRetries,     \* MAX_START_RETRIES
    MaxCycle        \* bound on _enableCycle

ASSUME PortsAssumption == BadPort \notin Ports /\ NoPort \notin Ports \cup {BadPort}
ASSUME PlatformAssumption == Platform \in {"android", "ios"}
ASSUME RetriesAssumption == MaxRetries \in Nat \ {0}
ASSUME CycleAssumption == MaxCycle \in Nat

VARIABLES
    enableCycle,            \* CacheManager._enableCycle
    serverState,            \* CacheManager._serverState, published as it is set
    stoppedByBackground,    \* CacheManager._stoppedByBackground
    calls,                  \* the enableBridgeServer call of each cycle
    handlers,               \* '*' request callbacks pushed on BridgeServer.callbacks
    isRunning,              \* BridgeServer.isRunning
    boundPort,              \* BridgeServer.boundPort
    starting,               \* BridgeServer.starting: the native start in flight
    listener,               \* a subscription on 'httpServerResponseReceived' exists
    moduleQ,                \* native calls made by JS and not yet run
    mainQ,                  \* iOS: start blocks dispatched to the main queue
    results,                \* settled native starts whose promise JS has not seen
    nativePort              \* the port the native server listens on

manager == <<enableCycle, serverState, stoppedByBackground, calls, handlers>>
bridge  == <<isRunning, boundPort, starting>>
native  == <<mainQ, results, nativePort>>
vars    == <<enableCycle, serverState, stoppedByBackground, calls, handlers,
             isRunning, boundPort, starting, listener,
             moduleQ, mainQ, results, nativePort>>

Cycles == 1..MaxCycle

\* A native start is named by the call that made it and that call's attempt.
StartIds == Cycles \X (1..MaxRetries)
NoStart  == <<0, 0>>

ServerStates == [status : {"idle", "starting", "ready", "failed"},
                 port   : Ports \cup {NoPort}]

\* An enableBridgeServer call: "waiting" on a native start, "settled" once the
\* listen() promise it awaits has an outcome (a port, or NoPort for a rejection).
CallStates == [phase   : {"none", "waiting", "settled", "done"},
               start   : StartIds \cup {NoStart},
               outcome : Ports \cup {NoPort},
               tried   : Seq(Ports \cup {BadPort})]

NoCall == [phase |-> "none", start |-> NoStart, outcome |-> NoPort, tried |-> << >>]

Commands == [op : {"start"}, id : StartIds, port : Ports] \cup [op : {"stop"}]
Results  == [id : StartIds, port : Ports \cup {NoPort}]

StartCmd(id, p) == [op |-> "start", id |-> id, port |-> p]
StopCmd         == [op |-> "stop"]

TypeOK ==
    /\ enableCycle \in 0..MaxCycle
    /\ serverState \in ServerStates
    /\ stoppedByBackground \in BOOLEAN
    /\ calls \in [Cycles -> CallStates]
    /\ handlers \in Nat
    /\ isRunning \in BOOLEAN
    /\ boundPort \in Ports \cup {NoPort}
    /\ starting \in StartIds \cup {NoStart}
    /\ listener \in BOOLEAN
    /\ moduleQ \in Seq(Commands)
    /\ mainQ \in Seq(Commands)
    /\ results \in Seq(Results)
    /\ nativePort \in Ports \cup {NoPort}

Init ==
    /\ enableCycle = 0
    /\ serverState = [status |-> "idle", port |-> NoPort]
    /\ stoppedByBackground = FALSE
    /\ calls = [c \in Cycles |-> NoCall]
    /\ handlers = 0
    /\ isRunning = FALSE
    /\ boundPort = NoPort
    /\ starting = NoStart
    /\ listener = FALSE
    /\ moduleQ = << >>
    /\ mainQ = << >>
    /\ results = << >>
    /\ nativePort = NoPort

-----------------------------------------------------------------------------
(* BridgeServer and HttpProxy *)

\* Mutant: stop() forgets removeAllListeners.
BridgeStopKeepsListener(after) ==
    /\ isRunning' = FALSE
    /\ boundPort' = NoPort
    /\ UNCHANGED listener
    /\ moduleQ' = moduleQ \o <<StopCmd>> \o after

\* HttpProxy.stop() and the reset of BridgeServer's own fields; `before` is what
\* the same task sends over the bridge after the stop.
BridgeStopThen(after) ==
    /\ isRunning' = FALSE
    /\ boundPort' = NoPort
    /\ listener' = (after # << >>)
    /\ moduleQ' = moduleQ \o <<StopCmd>> \o after

BridgeStop == BridgeStopThen(<< >>) /\ starting' = NoStart

\* What a listen() made by call c comes to, in the order the code asks: already
\* running, a start in flight to join, a port out of range, a native start.
Answered(p, tried)   == [phase |-> "settled", start |-> NoStart, outcome |-> p, tried |-> tried]
Awaiting(id, tried)  == [phase |-> "waiting", start |-> id, outcome |-> NoPort, tried |-> tried]

ListenRunning(c, tried) ==
    /\ isRunning
    /\ calls' = [calls EXCEPT ![c] = Answered(boundPort, tried)]
    /\ UNCHANGED <<starting, listener, moduleQ>>

ListenJoin(c, tried) ==
    /\ ~isRunning
    /\ starting # NoStart
    /\ calls' = [calls EXCEPT ![c] = Awaiting(starting, tried)]
    /\ UNCHANGED <<starting, listener, moduleQ>>

\* Mutant: the port goes unchecked and is reported as bound.
ListenUnchecked(c, p, tried) ==
    /\ ~isRunning
    /\ starting = NoStart
    /\ p = BadPort
    /\ calls' = [calls EXCEPT ![c] = Answered(p, tried)]
    /\ UNCHANGED <<starting, listener, moduleQ>>

ListenRefused(c, p, tried) ==
    /\ ~isRunning
    /\ starting = NoStart
    /\ p = BadPort
    /\ calls' = [calls EXCEPT ![c] = Answered(NoPort, tried)]
    /\ UNCHANGED <<starting, listener, moduleQ>>

ListenStart(c, p, tried) ==
    /\ ~isRunning
    /\ starting = NoStart
    /\ p \in Ports
    /\ starting' = <<c, Len(tried)>>
    /\ listener' = TRUE
    /\ moduleQ' = Append(moduleQ, StartCmd(<<c, Len(tried)>>, p))
    /\ calls' = [calls EXCEPT ![c] = Awaiting(<<c, Len(tried)>>, tried)]

Listen(c, p, tried) ==
    \/ ListenRunning(c, tried)
    \/ ListenJoin(c, tried)
    \/ ListenRefused(c, p, tried)
    \/ ListenStart(c, p, tried)

-----------------------------------------------------------------------------
(* CacheManager *)

Settled(c) == calls[c].phase = "settled"

\* The application runs in a task of its own, or in the task whose listen() has
\* answered at once; never between a native result and what it resumes.
AppTurn == \A c \in Cycles : Settled(c) => calls[c].start = NoStart

Enable(p) ==
    /\ AppTurn
    /\ enableCycle < MaxCycle
    /\ enableCycle' = enableCycle + 1
    /\ stoppedByBackground' = FALSE
    /\ serverState' = [status |-> "starting", port |-> NoPort]
    /\ handlers' = handlers + 1
    /\ Listen(enableCycle', p, <<p>>)
    /\ UNCHANGED <<isRunning, boundPort, native>>

Disable(cause) ==
    /\ AppTurn
    /\ enableCycle < MaxCycle
    /\ enableCycle' = enableCycle + 1
    /\ stoppedByBackground' = (cause = "backgrounded")
    /\ serverState' = [status |-> "idle", port |-> NoPort]
    /\ BridgeStop
    /\ UNCHANGED <<calls, handlers, native>>

\* Mutant: the cycle token is not compared.
CurrentAlways(c) == c \in Cycles

\* cycle === this._enableCycle
Current(c) == c = enableCycle

Finish(c) == calls' = [calls EXCEPT ![c].phase = "done"]

\* A superseded call returns and touches nothing.
ContinueStale(c) ==
    /\ Settled(c)
    /\ ~Current(c)
    /\ Finish(c)
    /\ UNCHANGED <<enableCycle, serverState, stoppedByBackground, handlers,
                   bridge, listener, moduleQ, native>>

ContinueReady(c) ==
    /\ Settled(c)
    /\ Current(c)
    /\ calls[c].outcome # NoPort
    /\ serverState' = [status |-> "ready", port |-> calls[c].outcome]
    /\ Finish(c)
    /\ UNCHANGED <<enableCycle, stoppedByBackground, handlers,
                   bridge, listener, moduleQ, native>>

\* Mutant: only the last failed port is avoided.
FreshFromLast(tried) == Ports \ {tried[Len(tried)]}

FreshPorts(tried) == Ports \ {tried[i] : i \in DOMAIN tried}

\* Mutant: a failed attempt that may be retried is swallowed.
ContinueSwallowed(c) ==
    /\ Settled(c)
    /\ Current(c)
    /\ calls[c].outcome = NoPort
    /\ Len(calls[c].tried) < MaxRetries
    /\ Finish(c)
    /\ UNCHANGED <<enableCycle, serverState, stoppedByBackground, handlers,
                   bridge, listener, moduleQ, native>>

\* stop() leaves listen() no other way than a native start on the fresh port.
ContinueRetry(c) ==
    /\ Settled(c)
    /\ Current(c)
    /\ calls[c].outcome = NoPort
    /\ Len(calls[c].tried) < MaxRetries
    /\ \E p \in FreshPorts(calls[c].tried) :
          LET tried == Append(calls[c].tried, p)
              id    == <<c, Len(tried)>>
          IN  /\ BridgeStopThen(<<StartCmd(id, p)>>)
              /\ starting' = id
              /\ calls' = [calls EXCEPT ![c] = Awaiting(id, tried)]
    /\ UNCHANGED <<enableCycle, serverState, stoppedByBackground, handlers, native>>

\* Mutant: the half-started server of the last attempt is left.
ContinueFailedLeaky(c) ==
    /\ Settled(c)
    /\ Current(c)
    /\ calls[c].outcome = NoPort
    /\ Len(calls[c].tried) >= MaxRetries
    /\ serverState' = [status |-> "failed", port |-> NoPort]
    /\ Finish(c)
    /\ UNCHANGED <<enableCycle, stoppedByBackground, handlers,
                   bridge, listener, moduleQ, native>>

\* Mutant: the loop gives up one attempt early.
ContinueFailedEarly(c) ==
    /\ Settled(c)
    /\ Current(c)
    /\ calls[c].outcome = NoPort
    /\ Len(calls[c].tried) + 1 >= MaxRetries
    /\ BridgeStop
    /\ serverState' = [status |-> "failed", port |-> NoPort]
    /\ Finish(c)
    /\ UNCHANGED <<enableCycle, stoppedByBackground, handlers, native>>

ContinueFailed(c) ==
    /\ Settled(c)
    /\ Current(c)
    /\ calls[c].outcome = NoPort
    /\ Len(calls[c].tried) >= MaxRetries
    /\ BridgeStop
    /\ serverState' = [status |-> "failed", port |-> NoPort]
    /\ Finish(c)
    /\ UNCHANGED <<enableCycle, stoppedByBackground, handlers, native>>

Continue(c) ==
    \/ ContinueStale(c)
    \/ ContinueReady(c)
    \/ ContinueRetry(c)
    \/ ContinueFailed(c)

\* JS learns the outcome of a native start: startNative's continuation, the
\* `finally` of the listen() that made the start, and every call awaiting it.
\* A stop() made since is not looked at.
Settle ==
    /\ \A c \in Cycles : ~Settled(c)
    /\ results # << >>
    /\ results' = Tail(results)
    /\ LET r == Head(results)
       IN  /\ IF r.port # NoPort
              THEN isRunning' = TRUE /\ boundPort' = r.port
              ELSE UNCHANGED <<isRunning, boundPort>>
           /\ calls' = [c \in Cycles |->
                 IF calls[c].phase = "waiting" /\ calls[c].start = r.id
                 THEN [calls[c] EXCEPT !.phase = "settled", !.outcome = r.port]
                 ELSE calls[c]]
    /\ starting' = NoStart
    /\ UNCHANGED <<enableCycle, serverState, stoppedByBackground, handlers,
                   listener, moduleQ, mainQ, nativePort>>

-----------------------------------------------------------------------------
(* The native module *)

\* Mutant: a native start that resolves nothing is not read as the requested port.
BindVoid(cmd) ==
    \E p \in {"undefined", NoPort} :
        /\ nativePort' = p
        /\ results' = Append(results, [id |-> cmd.id, port |-> p])

\* A live instance is stopped, then the new one binds or fails to.
Bind(cmd) ==
    \E p \in {cmd.port, NoPort} :
        /\ nativePort' = p
        /\ results' = Append(results, [id |-> cmd.id, port |-> p])

NativeStop ==
    /\ moduleQ # << >>
    /\ Head(moduleQ).op = "stop"
    /\ moduleQ' = Tail(moduleQ)
    /\ nativePort' = NoPort
    /\ UNCHANGED <<manager, bridge, listener, mainQ, results>>

\* Android binds at once; iOS dispatches the body to the main queue.
NativeStart ==
    /\ moduleQ # << >>
    /\ Head(moduleQ).op = "start"
    /\ moduleQ' = Tail(moduleQ)
    /\ IF Platform = "android"
       THEN Bind(Head(moduleQ)) /\ UNCHANGED mainQ
       ELSE mainQ' = Append(mainQ, Head(moduleQ)) /\ UNCHANGED <<results, nativePort>>
    /\ UNCHANGED <<manager, bridge, listener>>

MainQueueBind ==
    /\ mainQ # << >>
    /\ mainQ' = Tail(mainQ)
    /\ Bind(Head(mainQ))
    /\ UNCHANGED <<manager, bridge, listener, moduleQ>>

NativeStep == NativeStop \/ NativeStart \/ MainQueueBind

-----------------------------------------------------------------------------

Machinery == NativeStep \/ Settle \/ \E c \in Cycles : Continue(c)

\* The exported API in the hands of an application that calls it as it likes.
Next ==
    \/ \E p \in Ports \cup {BadPort} : Enable(p)
    \/ \E cause \in {"none", "backgrounded"} : Disable(cause)
    \/ Machinery

\* The event loop and the native queues always get on; nothing obliges the
\* application to call.
Fairness ==
    /\ WF_vars(NativeStop \/ NativeStart)
    /\ WF_vars(MainQueueBind)
    /\ WF_vars(Settle)
    /\ WF_vars(\E c \in Cycles : Continue(c))

Spec == Init /\ [][Next]_vars /\ Fairness
-----------------------------------------------------------------------------
(* What the lifecycle must guarantee *)

\* 'ready' names a live proxy: BridgeServer agrees on the port, JS listens for
\* requests, and the native server is bound there.  serverState is "driven ONLY by
\* the settled native start/stop result" (ProxyCacheManager.ts:237-238).
ReadyIsServed ==
    serverState.status = "ready" =>
        /\ isRunning
        /\ listener
        /\ boundPort = serverState.port
        /\ nativePort = serverState.port

\* After the last attempt of a cycle failed nothing of it is left: no listener, no
\* start in flight, and once the native calls have run no server either.
FailedIsStopped ==
    serverState.status = "failed" =>
        /\ ~isRunning
        /\ ~listener
        /\ starting = NoStart
        /\ moduleQ = << >> => nativePort = NoPort

\* No cycle makes more than MAX_START_RETRIES attempts, and each is on a port the
\* cycle has not tried (enableBridgeServer's loop and its do-while).
RetriesFreshAndBounded ==
    \A c \in Cycles :
        LET tried == calls[c].tried
        IN  /\ Len(tried) <= MaxRetries
            /\ \A i, j \in DOMAIN tried : tried[i] = tried[j] => i = j

\* A native result moves serverState only through the call of the latest cycle: the
\* outcome of a start that a later enable or disable superseded is never published.
StaleNeverPublishes ==
    [][ (serverState' # serverState /\ enableCycle' = enableCycle) =>
            /\ enableCycle > 0
            /\ calls[enableCycle].phase = "settled"
            /\ calls'[enableCycle].phase = "done" ]_vars

\* Every enable cycle that is left alone comes to 'ready' or 'failed'.
StartingEnds == serverState.status = "starting" ~> serverState.status # "starting"

\* The readiness snapshot keeps the promise of ServerReadiness.
Attempts ==
    IF serverState.status = "idle" THEN 0 ELSE Len(calls[enableCycle].tried)

Readiness == INSTANCE ServerReadiness WITH state <- serverState, attempts <- Attempts

ReadinessKept == Readiness!Spec
=============================================================================
