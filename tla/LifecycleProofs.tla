--------------------------- MODULE LifecycleProofs ---------------------------
(***************************************************************************)
(* Theorems about BridgeLifecycle, for any set of ports, either platform,  *)
(* any number of cycles and of retries, and about ProviderLifecycle, which *)
(* extends it, for any number of app state changes and, where it is not    *)
(* said otherwise, either kind of build.                                   *)
(*                                                                         *)
(* The argument for FailedIsStopped: a start that the latest call awaits   *)
(* is the last thing JS has sent to the native side (AwaitedIsLast), so    *)
(* when its result arrives every queue is empty (SettledIsQuiet), and a    *)
(* cycle that fails then leaves one stop behind it (FailedInv).            *)
(*                                                                         *)
(* The argument for ReleaseReadyIsServed: outside dev mode the provider    *)
(* only calls the bridge, so the order of starts in flight is that of      *)
(* BridgeLifecycle (IInv).  What the provider adds is that every enable    *)
(* finds the bridge stopped with no start in flight (Enabling), so its     *)
(* call awaits a start of its own (OwnStart), whose result is the last     *)
(* word of the native side and of BridgeServer's fields.                   *)
(***************************************************************************)
EXTENDS ProviderLifecycle, SequenceTheorems, TLAPS

\* The awaited start follows everything sent before it and nothing follows it.
IsStart(cmd, id) == cmd.op = "start" /\ cmd.id = id

NothingAfter(id) ==
    /\ \A i \in 1..Len(moduleQ) : IsStart(moduleQ[i], id) => i = Len(moduleQ)
    /\ \A i \in 1..Len(mainQ) :
          mainQ[i].id = id => i = Len(mainQ) /\ moduleQ = << >>
    /\ \A i \in 1..Len(results) :
          results[i].id = id => i = Len(results) /\ moduleQ = << >> /\ mainQ = << >>

\* A start belongs to a cycle that has begun and to an attempt it has made.
Made(id) ==
    /\ id[1] <= enableCycle
    /\ id[2] <= Len(calls[id[1]].tried)

MadeInv ==
    /\ \A i \in 1..Len(moduleQ) : moduleQ[i].op = "start" => Made(moduleQ[i].id)
    /\ \A i \in 1..Len(mainQ) : Made(mainQ[i].id)
    /\ \A i \in 1..Len(results) : Made(results[i].id)

QueuesOK ==
    /\ \A i \in 1..Len(mainQ) : mainQ[i].op = "start"
    /\ Platform = "android" => mainQ = << >>

Quiet == moduleQ = << >> /\ mainQ = << >> /\ results = << >>

AwaitedIsLast ==
    /\ starting # NoStart => NothingAfter(starting)
    /\ \A c \in Cycles :
          (c = enableCycle /\ calls[c].phase = "waiting") => NothingAfter(calls[c].start)

SettledIsQuiet ==
    \A c \in Cycles :
        (c = enableCycle /\ calls[c].phase = "settled") =>
            IF calls[c].start = NoStart
            THEN calls[c].outcome = NoPort => Len(calls[c].tried) = 1
            ELSE Quiet

\* A cycle to come has no call, and outside "starting" the latest call is over.
CallsInv ==
    /\ \A c \in Cycles : c > enableCycle => calls[c] = NoCall
    /\ \A c \in Cycles :
          (c = enableCycle /\ serverState.status # "starting") =>
              calls[c].phase \in {"none", "done"}
    /\ \A c \in Cycles : calls[c].phase = "waiting" => calls[c].start # NoStart
    /\ isRunning => boundPort # NoPort

FailedInv ==
    serverState.status = "failed" =>
        /\ ~isRunning
        /\ ~listener
        /\ starting = NoStart
        /\ mainQ = << >>
        /\ results = << >>
        /\ \A i \in 1..Len(moduleQ) : moduleQ[i].op = "stop"
        /\ moduleQ = << >> => nativePort = NoPort

IInv ==
    /\ TypeOK
    /\ MadeInv
    /\ QueuesOK
    /\ AwaitedIsLast
    /\ SettledIsQuiet
    /\ CallsInv
    /\ FailedInv
-----------------------------------------------------------------------------
(* Type correctness *)

USE PortsAssumption, PlatformAssumption, RetriesAssumption, CycleAssumption

\* The two halves of TypeOK: the provers take Booleans and arithmetic apart.
FlagsOK ==
    /\ stoppedByBackground \in BOOLEAN
    /\ isRunning \in BOOLEAN
    /\ listener \in BOOLEAN

DataOK ==
    /\ enableCycle \in 0..MaxCycle
    /\ serverState \in ServerStates
    /\ calls \in [Cycles -> CallStates]
    /\ handlers \in Nat
    /\ boundPort \in Ports \cup {NoPort}
    /\ starting \in StartIds \cup {NoStart}
    /\ moduleQ \in Seq(Commands)
    /\ mainQ \in Seq(Commands)
    /\ results \in Seq(Results)
    /\ nativePort \in Ports \cup {NoPort}

\* The type invariant in two halves, flags and data.
LEMMA TypeSplit == TypeOK <=> FlagsOK /\ DataOK
BY DEF TypeOK, FlagsOK, DataOK

\* The fields of the commands JavaScript sends.
LEMMA CommandFacts ==
    /\ StopCmd \in Commands /\ StopCmd.op = "stop"
    /\ \A id \in StartIds, p \in Ports :
          /\ StartCmd(id, p) \in Commands
          /\ StartCmd(id, p).op = "start"
          /\ StartCmd(id, p).id = id
          /\ StartCmd(id, p).port = p
    /\ \A cmd \in Commands : cmd.op = "start" => cmd.id \in StartIds /\ cmd.port \in Ports
    /\ NoStart \notin StartIds
BY DEF Commands, StopCmd, StartCmd, StartIds, NoStart, Cycles

\* The provider mounts well-typed.
LEMMA TypeInit == Init => TypeOK
<1> SUFFICES ASSUME Init PROVE TypeOK
  OBVIOUS
<1>1. NoCall \in CallStates
  BY DEF NoCall, CallStates
<1>2. FlagsOK
  BY DEF Init, FlagsOK
<1>3. DataOK
  BY <1>1 DEF Init, DataOK, ServerStates
<1> QED
  BY <1>2, <1>3, TypeSplit

\* listen() called by call c, on the first port of its cycle.
LEMMA ListenType ==
    ASSUME TypeOK, NEW c \in Cycles, NEW p \in Ports \cup {BadPort}, Listen(c, p, <<p>>)
    PROVE  /\ calls' \in [Cycles -> CallStates]
           /\ starting' \in StartIds \cup {NoStart}
           /\ listener' \in BOOLEAN
           /\ moduleQ' \in Seq(Commands)
<1> DEFINE tried == <<p>>
<1>1. tried \in Seq(Ports \cup {BadPort}) /\ Len(tried) = 1
  OBVIOUS
<1>2. <<c, Len(tried)>> \in StartIds
  BY <1>1 DEF StartIds
<1>3. \A q \in Ports \cup {NoPort} : Answered(q, tried) \in CallStates
  BY <1>1 DEF Answered, CallStates
<1>4. \A id \in StartIds \cup {NoStart} : Awaiting(id, tried) \in CallStates
  BY <1>1 DEF Awaiting, CallStates
<1> HIDE DEF tried
<1>5. CASE ListenRunning(c, tried)
  BY <1>3, <1>5 DEF ListenRunning, TypeOK
<1>6. CASE ListenJoin(c, tried)
  BY <1>4, <1>6 DEF ListenJoin, TypeOK
<1>7. CASE ListenRefused(c, p, tried)
  BY <1>3, <1>7 DEF ListenRefused, TypeOK
<1>8. CASE ListenStart(c, p, tried)
  <2>1. StartCmd(<<c, Len(tried)>>, p) \in Commands
    BY <1>2, <1>8, CommandFacts DEF ListenStart
  <2>2. listener' \in BOOLEAN
    BY <1>8 DEF ListenStart
  <2> QED
    BY <1>2, <1>4, <1>8, <2>1, <2>2 DEF ListenStart, TypeOK
<1> QED
  BY <1>5, <1>6, <1>7, <1>8 DEF Listen, tried

\* enableServer keeps the type invariant.
LEMMA EnableType ==
    ASSUME TypeOK, NEW p \in Ports \cup {BadPort}, Enable(p)
    PROVE  TypeOK'
<1>1. enableCycle' = enableCycle + 1 /\ enableCycle' \in Cycles
  BY DEF Enable, TypeOK, Cycles
<1>2. Listen(enableCycle', p, <<p>>)
  BY DEF Enable
<1>3. /\ calls' \in [Cycles -> CallStates]
      /\ starting' \in StartIds \cup {NoStart}
      /\ listener' \in BOOLEAN
      /\ moduleQ' \in Seq(Commands)
  BY <1>1, <1>2, ListenType
<1>4. FlagsOK'
  BY <1>3 DEF Enable, FlagsOK, TypeOK
<1>5. serverState' \in ServerStates
  BY DEF Enable, ServerStates
<1>6. enableCycle' \in 0..MaxCycle
  BY <1>1 DEF Cycles
<1>7. handlers' \in Nat /\ handlers' = handlers + 1
  BY DEF Enable, TypeOK
<1>8. DataOK'
  BY <1>3, <1>5, <1>6, <1>7 DEF Enable, DataOK, TypeOK, native
<1> QED
  BY <1>4, <1>8 DEF TypeOK, FlagsOK, DataOK

\* stop(), and what the same task then sends.
LEMMA StopType ==
    ASSUME TypeOK, NEW after \in Seq(Commands), BridgeStopThen(after)
    PROVE  /\ isRunning' \in BOOLEAN
           /\ listener' \in BOOLEAN
           /\ boundPort' \in Ports \cup {NoPort}
           /\ moduleQ' \in Seq(Commands)
<1>1. isRunning' \in BOOLEAN /\ listener' \in BOOLEAN
  BY DEF BridgeStopThen
<1>2. boundPort' \in Ports \cup {NoPort}
  BY DEF BridgeStopThen
<1>3. <<StopCmd>> \in Seq(Commands)
  BY CommandFacts
<1>4. moduleQ' \in Seq(Commands)
  BY <1>3 DEF BridgeStopThen, TypeOK
<1> QED
  BY <1>1, <1>2, <1>4

\* disableServer keeps the type invariant.
LEMMA DisableType ==
    ASSUME TypeOK, NEW cause, Disable(cause)
    PROVE  TypeOK'
<1>1. << >> \in Seq(Commands)
  OBVIOUS
<1>2. BridgeStopThen(<< >>) /\ starting' = NoStart
  BY DEF Disable, BridgeStop
<1>3. /\ isRunning' \in BOOLEAN
      /\ listener' \in BOOLEAN
      /\ boundPort' \in Ports \cup {NoPort}
      /\ moduleQ' \in Seq(Commands)
  BY <1>1, <1>2, StopType
<1>4. FlagsOK'
  BY <1>3 DEF FlagsOK, Disable
<1>5. serverState' \in ServerStates
  BY DEF Disable, ServerStates
<1>6. enableCycle' \in 0..MaxCycle
  BY DEF Disable, TypeOK
<1>7. DataOK'
  BY <1>2, <1>3, <1>5, <1>6 DEF Disable, DataOK, TypeOK, native
<1> QED
  BY <1>4, <1>7 DEF TypeOK, FlagsOK, DataOK

\* Finish(c) marks one call done and keeps the rest of it.
LEMMA FinishType ==
    ASSUME TypeOK, NEW c \in Cycles, Finish(c)
    PROVE  /\ calls' \in [Cycles -> CallStates]
           /\ calls'[c].phase = "done"
           /\ calls'[c].tried = calls[c].tried
           /\ \A d \in Cycles : d # c => calls'[d] = calls[d]
<1>1. calls \in [Cycles -> CallStates]
  BY DEF TypeOK
<1>2. [calls[c] EXCEPT !.phase = "done"] \in CallStates
  BY <1>1 DEF CallStates
<1>3. [calls[c] EXCEPT !.phase = "done"].phase = "done"
  BY <1>1 DEF CallStates
<1>4. [calls[c] EXCEPT !.phase = "done"].tried = calls[c].tried
  BY <1>1 DEF CallStates
<1>5. calls' = [calls EXCEPT ![c] = [calls[c] EXCEPT !.phase = "done"]]
  BY DEF Finish
<1> HIDE DEF Finish
<1> QED
  BY <1>1, <1>2, <1>3, <1>4, <1>5

\* What a retry sends and awaits.
LEMMA RetryFacts ==
    ASSUME TypeOK, NEW c \in Cycles, NEW p \in FreshPorts(calls[c].tried),
           Len(calls[c].tried) < MaxRetries
    PROVE  LET tried == Append(calls[c].tried, p)
               id    == <<c, Len(tried)>>
           IN  /\ id \in StartIds
               /\ tried \in Seq(Ports \cup {BadPort})
               /\ Len(tried) = Len(calls[c].tried) + 1
               /\ p \in Ports
               /\ Awaiting(id, tried) \in CallStates
               /\ StartCmd(id, p) \in Commands
<1> DEFINE tried == Append(calls[c].tried, p)
           id    == <<c, Len(tried)>>
<1>1. p \in Ports
  BY DEF FreshPorts
<1>2. calls[c].tried \in Seq(Ports \cup {BadPort})
  BY DEF TypeOK, CallStates
<1>3. tried \in Seq(Ports \cup {BadPort}) /\ Len(tried) = Len(calls[c].tried) + 1
  BY <1>1, <1>2
<1>4. Len(tried) \in 1..MaxRetries
  BY <1>2, <1>3
<1>5. id \in StartIds
  BY <1>4 DEF StartIds
<1>6. Awaiting(id, tried) \in CallStates
  BY <1>3, <1>5 DEF Awaiting, CallStates
<1>7. StartCmd(id, p) \in Commands
  BY <1>1, <1>5, CommandFacts
<1> QED
  BY <1>1, <1>3, <1>5, <1>6, <1>7

\* Every continuation of an enable cycle keeps the type invariant.
LEMMA ContinueType ==
    ASSUME TypeOK, NEW c \in Cycles, Continue(c)
    PROVE  TypeOK'
<1>1. CASE ContinueStale(c) \/ ContinueReady(c)
  <2>1. calls' \in [Cycles -> CallStates]
    BY <1>1, FinishType DEF ContinueStale, ContinueReady
  <2>2. FlagsOK'
    BY <1>1, TypeSplit DEF FlagsOK, ContinueStale, ContinueReady, bridge
  <2>3. serverState' \in ServerStates
    <3>1. CASE ContinueStale(c)
      BY <3>1 DEF ContinueStale, TypeOK
    <3>2. CASE ContinueReady(c)
      <4>1. calls[c].outcome \in Ports
        BY <3>2 DEF ContinueReady, TypeOK, CallStates
      <4> QED
        BY <3>2, <4>1 DEF ContinueReady, ServerStates
    <3> QED
      BY <1>1, <3>1, <3>2
  <2>4. DataOK'
    BY <1>1, <2>1, <2>3, TypeSplit
       DEF DataOK, ContinueStale, ContinueReady, bridge, native
  <2> QED
    BY <2>2, <2>4 DEF TypeOK, FlagsOK, DataOK
<1>2. CASE ContinueRetry(c)
  <2>1. PICK p \in FreshPorts(calls[c].tried) :
            LET tried == Append(calls[c].tried, p)
                id    == <<c, Len(tried)>>
            IN  /\ BridgeStopThen(<<StartCmd(id, p)>>)
                /\ starting' = id
                /\ calls' = [calls EXCEPT ![c] = Awaiting(id, tried)]
    BY <1>2 DEF ContinueRetry
  <2> DEFINE tried == Append(calls[c].tried, p)
             id    == <<c, Len(tried)>>
  <2>2. Len(calls[c].tried) < MaxRetries
    BY <1>2 DEF ContinueRetry
  <2>3. /\ id \in StartIds
        /\ Awaiting(id, tried) \in CallStates
        /\ StartCmd(id, p) \in Commands
    BY <2>2, RetryFacts
  <2> HIDE DEF id, tried
  <2>4. <<StartCmd(id, p)>> \in Seq(Commands) /\ BridgeStopThen(<<StartCmd(id, p)>>)
    BY <2>1, <2>3 DEF id, tried
  <2>5. /\ isRunning' \in BOOLEAN
        /\ listener' \in BOOLEAN
        /\ boundPort' \in Ports \cup {NoPort}
        /\ moduleQ' \in Seq(Commands)
    BY <2>4, StopType
  <2>6. calls' \in [Cycles -> CallStates] /\ starting' \in StartIds
    <3>1. calls' = [calls EXCEPT ![c] = Awaiting(id, tried)] /\ starting' = id
      BY <2>1 DEF id, tried
    <3> QED
      BY <2>3, <3>1 DEF TypeOK
  <2>7. FlagsOK'
    BY <1>2, <2>5 DEF FlagsOK, ContinueRetry, TypeOK
  <2>8. DataOK'
    BY <1>2, <2>5, <2>6, TypeSplit DEF DataOK, ContinueRetry, native
  <2> QED
    BY <2>7, <2>8 DEF TypeOK, FlagsOK, DataOK
<1>3. CASE ContinueFailed(c)
  <2>1. calls' \in [Cycles -> CallStates]
    BY <1>3, FinishType DEF ContinueFailed
  <2>2. BridgeStopThen(<< >>) /\ starting' = NoStart /\ << >> \in Seq(Commands)
    BY <1>3 DEF ContinueFailed, BridgeStop
  <2>3. /\ isRunning' \in BOOLEAN
        /\ listener' \in BOOLEAN
        /\ boundPort' \in Ports \cup {NoPort}
        /\ moduleQ' \in Seq(Commands)
    BY <2>2, StopType
  <2>4. FlagsOK'
    BY <1>3, <2>3 DEF FlagsOK, ContinueFailed, TypeOK
  <2>5. serverState' \in ServerStates
    BY <1>3 DEF ContinueFailed, ServerStates
  <2>6. DataOK'
    BY <1>3, <2>1, <2>2, <2>3, <2>5, TypeSplit DEF DataOK, ContinueFailed, native
  <2> QED
    BY <2>4, <2>6 DEF TypeOK, FlagsOK, DataOK
<1> QED
  BY <1>1, <1>2, <1>3 DEF Continue

\* Settle: the calls that awaited the result, and all the others.
LEMMA SettleFacts ==
    ASSUME TypeOK, Settle
    PROVE  LET r == Head(results)
           IN  /\ r \in Results
               /\ calls' \in [Cycles -> CallStates]
               /\ \A c \in Cycles :
                     /\ calls'[c].tried = calls[c].tried
                     /\ calls'[c].start = calls[c].start
                     /\ IF calls[c].phase = "waiting" /\ calls[c].start = r.id
                        THEN calls'[c].phase = "settled" /\ calls'[c].outcome = r.port
                        ELSE calls'[c] = calls[c]
<1> DEFINE r == Head(results)
           Woken(c) == [calls[c] EXCEPT !.phase = "settled", !.outcome = r.port]
<1>1. r \in Results
  BY HeadTailProperties DEF Settle, TypeOK
<1>2. \A c \in Cycles : calls[c] \in CallStates
  BY DEF TypeOK
<1>3. r.port \in Ports \cup {NoPort}
  BY <1>1 DEF Results
<1> HIDE DEF r
<1>4. \A c \in Cycles : /\ Woken(c) \in CallStates
                        /\ Woken(c).tried = calls[c].tried
                        /\ Woken(c).start = calls[c].start
                        /\ Woken(c).phase = "settled"
                        /\ Woken(c).outcome = r.port
  BY <1>2, <1>3 DEF CallStates
<1>5. calls' = [c \in Cycles |->
                  IF calls[c].phase = "waiting" /\ calls[c].start = r.id
                  THEN Woken(c) ELSE calls[c]]
  BY DEF Settle, r
<1> HIDE DEF Woken
<1>6. calls' \in [Cycles -> CallStates]
  BY <1>2, <1>4, <1>5
<1>7. ASSUME NEW c \in Cycles
      PROVE  /\ calls'[c].tried = calls[c].tried
             /\ calls'[c].start = calls[c].start
             /\ IF calls[c].phase = "waiting" /\ calls[c].start = r.id
                THEN calls'[c].phase = "settled" /\ calls'[c].outcome = r.port
                ELSE calls'[c] = calls[c]
  BY <1>4, <1>5
<1> QED
  BY <1>1, <1>6, <1>7 DEF r

\* Settling a start keeps the type invariant.
LEMMA SettleType ==
    ASSUME TypeOK, Settle
    PROVE  TypeOK'
<1>1. Head(results) \in Results /\ calls' \in [Cycles -> CallStates]
  BY SettleFacts
<1>2. Head(results).port \in Ports \cup {NoPort}
  BY <1>1 DEF Results
<1>3. results' \in Seq(Results)
  BY HeadTailProperties DEF Settle, TypeOK
<1>4. FlagsOK'
  BY TypeSplit DEF Settle, FlagsOK
<1>5. boundPort' \in Ports \cup {NoPort}
  BY <1>2 DEF Settle, TypeOK
<1>6. DataOK'
  BY <1>1, <1>3, <1>5, TypeSplit DEF Settle, DataOK
<1> QED
  BY <1>4, <1>6 DEF TypeOK, FlagsOK, DataOK

\* Every native step keeps the type invariant.
LEMMA NativeType ==
    ASSUME TypeOK, NativeStep, QueuesOK
    PROVE  TypeOK'
<1>1. /\ moduleQ # << >> => Head(moduleQ) \in Commands /\ Tail(moduleQ) \in Seq(Commands)
      /\ mainQ # << >> => Head(mainQ) \in Commands /\ Tail(mainQ) \in Seq(Commands)
  BY HeadTailProperties DEF TypeOK
<1>2. FlagsOK'
  BY TypeSplit DEF NativeStep, NativeStop, NativeStart,
                   MainQueueBind, FlagsOK, manager, bridge
<1>3. ASSUME NEW cmd \in Commands, cmd.op = "start", Bind(cmd)
      PROVE  nativePort' \in Ports \cup {NoPort} /\ results' \in Seq(Results)
  <2>1. PICK p \in {cmd.port, NoPort} :
            /\ nativePort' = p
            /\ results' = Append(results, [id |-> cmd.id, port |-> p])
    BY <1>3 DEF Bind
  <2>2. cmd.id \in StartIds /\ p \in Ports \cup {NoPort}
    BY <1>3, CommandFacts
  <2>3. [id |-> cmd.id, port |-> p] \in Results
    BY <2>2 DEF Results
  <2> QED
    BY <2>1, <2>2, <2>3 DEF TypeOK
<1>4. ASSUME NativeStop PROVE DataOK'
  BY <1>1, <1>4, TypeSplit DEF NativeStop, DataOK, manager, bridge
<1>5. ASSUME NativeStart, Platform = "android" PROVE DataOK'
  <2>1. nativePort' \in Ports \cup {NoPort} /\ results' \in Seq(Results)
    BY <1>1, <1>3, <1>5 DEF NativeStart
  <2> QED
    BY <1>1, <1>5, <2>1, TypeSplit DEF NativeStart, DataOK, manager, bridge
<1>6. ASSUME NativeStart, Platform # "android" PROVE DataOK'
  <2>1. /\ moduleQ # << >>
        /\ moduleQ' = Tail(moduleQ)
        /\ mainQ' = Append(mainQ, Head(moduleQ))
        /\ UNCHANGED <<results, nativePort, manager, bridge, listener>>
    BY <1>6 DEF NativeStart
  <2> QED
    BY <1>1, <2>1, TypeSplit DEF DataOK, manager, bridge
<1>7. ASSUME MainQueueBind PROVE DataOK'
  <2>1. mainQ # << >> /\ Head(mainQ) = mainQ[1] /\ 1 \in 1..Len(mainQ)
    BY <1>7 DEF MainQueueBind, TypeOK
  <2>2. Head(mainQ).op = "start"
    BY <2>1 DEF QueuesOK
  <2>3. nativePort' \in Ports \cup {NoPort} /\ results' \in Seq(Results)
    BY <1>1, <1>3, <1>7, <2>2 DEF MainQueueBind
  <2> QED
    BY <1>1, <1>7, <2>3, TypeSplit DEF MainQueueBind, DataOK, manager, bridge
<1>8. DataOK'
  BY <1>4, <1>5, <1>6, <1>7 DEF NativeStep
<1> QED
  BY <1>2, <1>8 DEF TypeOK, FlagsOK, DataOK

\* iOS hands only starts to the main queue, Android none.
LEMMA QueuesStep ==
    ASSUME TypeOK, QueuesOK, [Next]_vars
    PROVE  QueuesOK'
<1>1. CASE UNCHANGED mainQ
  BY <1>1 DEF QueuesOK
<1>2. CASE NativeStart /\ Platform # "android"
  <2>1. mainQ' = Append(mainQ, Head(moduleQ)) /\ Head(moduleQ).op = "start"
    BY <1>2 DEF NativeStart
  <2>2. Platform # "android"
    BY <1>2 DEF NativeStart
  <2>3. /\ Len(mainQ') = Len(mainQ) + 1
        /\ \A i \in 1..Len(mainQ) : mainQ'[i] = mainQ[i]
        /\ mainQ'[Len(mainQ) + 1] = Head(moduleQ)
    BY <2>1 DEF TypeOK
  <2> QED
    BY <2>1, <2>2, <2>3 DEF QueuesOK, TypeOK
<1>3. CASE MainQueueBind
  <2>1. /\ mainQ # << >> /\ mainQ' = Tail(mainQ)
        /\ \A i \in 1..Len(mainQ') : mainQ'[i] = mainQ[i+1] /\ i+1 \in 1..Len(mainQ)
    BY <1>3, HeadTailProperties DEF MainQueueBind, TypeOK
  <2> QED
    BY <2>1 DEF QueuesOK
<1>4. \/ UNCHANGED mainQ
      \/ NativeStart /\ Platform # "android"
      \/ MainQueueBind
  BY DEF Next, Machinery, Enable, Disable, Settle, Continue, ContinueStale, ContinueReady,
         ContinueRetry, ContinueFailed, NativeStep, NativeStop, NativeStart, native, vars
<1> QED
  BY <1>1, <1>2, <1>3, <1>4

\* The type invariant is inductive.
LEMMA TypeStep ==
    ASSUME TypeOK, QueuesOK, [Next]_vars
    PROVE  TypeOK'
<1>1. CASE UNCHANGED vars
  BY <1>1 DEF vars, TypeOK
<1>2. CASE Next
  BY <1>2, EnableType, DisableType, SettleType, ContinueType, NativeType
     DEF Next, Machinery
<1> QED
  BY <1>1, <1>2

\* Every variable keeps to its type, on both platforms and for every bound.
THEOREM TypeCorrect == Spec => []TypeOK
<1>1. Init => TypeOK /\ QueuesOK
  BY TypeInit DEF Init, QueuesOK
<1>2. TypeOK /\ QueuesOK /\ [Next]_vars => (TypeOK /\ QueuesOK)'
  BY TypeStep, QueuesStep
<1> QED
  BY <1>1, <1>2, PTL DEF Spec

-----------------------------------------------------------------------------
(* What a step does to the calls *)

\* What enableServer leaves: a new cycle at its first attempt.
LEMMA EnableFacts ==
    ASSUME TypeOK, NEW p \in Ports \cup {BadPort}, Enable(p)
    PROVE  LET c == enableCycle + 1
           IN  /\ c \in Cycles
               /\ enableCycle' = c
               /\ calls'[c].tried = <<p>> /\ Len(<<p>>) = 1 /\ <<p>>[1] = p
               /\ \A d \in Cycles : d # c => calls'[d] = calls[d]
               /\ \/ ListenRunning(c, <<p>>)
                  \/ ListenJoin(c, <<p>>)
                  \/ ListenRefused(c, p, <<p>>)
                  \/ ListenStart(c, p, <<p>>)
<1> DEFINE c == enableCycle + 1
<1>1. c \in Cycles /\ enableCycle' = c
  BY DEF Enable, TypeOK, Cycles
<1>2. Listen(c, p, <<p>>)
  BY <1>1 DEF Enable
<1> HIDE DEF c
<1>3. /\ calls'[c].tried = <<p>>
      /\ \A d \in Cycles : d # c => calls'[d] = calls[d]
  BY <1>1, <1>2 DEF Listen, ListenRunning, ListenJoin, ListenRefused, ListenStart,
                    Answered, Awaiting, TypeOK
<1>4. \/ ListenRunning(c, <<p>>)
      \/ ListenJoin(c, <<p>>)
      \/ ListenRefused(c, p, <<p>>)
      \/ ListenStart(c, p, <<p>>)
  BY <1>2 DEF Listen
<1> QED
  BY <1>1, <1>3, <1>4 DEF c

\* The outcome of a retry, in full.
LEMMA RetryStep ==
    ASSUME TypeOK, NEW c \in Cycles, ContinueRetry(c)
    PROVE  \E p \in Ports :
             LET id == <<c, Len(calls[c].tried) + 1>>
             IN  /\ p \notin {calls[c].tried[i] : i \in DOMAIN calls[c].tried}
                 /\ id \in StartIds
                 /\ starting' = id
                 /\ isRunning' = FALSE
                 /\ moduleQ' = moduleQ \o <<StopCmd>> \o <<StartCmd(id, p)>>
                 /\ calls'[c].tried = Append(calls[c].tried, p)
                 /\ calls'[c].phase = "waiting"
                 /\ calls'[c].start = id
                 /\ \A d \in Cycles : d # c => calls'[d] = calls[d]
<1>1. PICK p \in FreshPorts(calls[c].tried) :
          LET tried == Append(calls[c].tried, p)
              id    == <<c, Len(tried)>>
          IN  /\ BridgeStopThen(<<StartCmd(id, p)>>)
              /\ starting' = id
              /\ calls' = [calls EXCEPT ![c] = Awaiting(id, tried)]
  BY DEF ContinueRetry
<1> DEFINE tried == Append(calls[c].tried, p)
           id    == <<c, Len(calls[c].tried) + 1>>
<1>2. Len(calls[c].tried) < MaxRetries
  BY DEF ContinueRetry
<1>3. p \in Ports /\ Len(tried) = Len(calls[c].tried) + 1 /\ <<c, Len(tried)>> \in StartIds
  BY <1>2, RetryFacts
<1>4. p \notin {calls[c].tried[i] : i \in DOMAIN calls[c].tried}
  BY DEF FreshPorts
<1>5. id \in StartIds /\ id = <<c, Len(tried)>>
  BY <1>3
<1>6. /\ starting' = id
      /\ BridgeStopThen(<<StartCmd(id, p)>>)
      /\ calls' = [calls EXCEPT ![c] = Awaiting(id, tried)]
  BY <1>1, <1>5
<1> HIDE DEF tried, id
<1>7. isRunning' = FALSE /\ moduleQ' = moduleQ \o <<StopCmd>> \o <<StartCmd(id, p)>>
  BY <1>6 DEF BridgeStopThen
<1>8. /\ calls'[c].tried = tried
      /\ calls'[c].phase = "waiting"
      /\ calls'[c].start = id
      /\ \A d \in Cycles : d # c => calls'[d] = calls[d]
  BY <1>6 DEF Awaiting, TypeOK
<1> QED
  BY <1>3, <1>4, <1>5, <1>6, <1>7, <1>8 DEF tried, id

\* Which call is behind a step, seen from what it has tried.
LEMMA TriedStep ==
    ASSUME TypeOK, [Next]_vars, NEW d \in Cycles
    PROVE  \/ calls'[d].tried = calls[d].tried
           \/ \E p \in Ports \cup {BadPort} : Enable(p) /\ d = enableCycle + 1
           \/ ContinueRetry(d)
<1>1. ASSUME NEW p \in Ports \cup {BadPort}, Enable(p), d # enableCycle + 1
      PROVE  calls'[d].tried = calls[d].tried
  BY <1>1, EnableFacts
<1>2. ASSUME NEW c \in Cycles, Continue(c)
      PROVE  calls'[d].tried = calls[d].tried \/ ContinueRetry(d)
  <2>1. CASE ContinueRetry(c)
    BY <2>1, RetryStep
  <2>2. CASE ContinueStale(c) \/ ContinueReady(c) \/ ContinueFailed(c)
    <3>1. Finish(c)
      BY <2>2 DEF ContinueStale, ContinueReady, ContinueFailed
    <3> QED
      BY <3>1, FinishType
  <2> QED
    BY <1>2, <2>1, <2>2 DEF Continue
<1>3. ASSUME Settle PROVE calls'[d].tried = calls[d].tried
  BY <1>3, SettleFacts
<1>4. ASSUME UNCHANGED calls PROVE calls'[d].tried = calls[d].tried
  BY <1>4
<1>5. \/ \E p \in Ports \cup {BadPort} : Enable(p)
      \/ \E c \in Cycles : Continue(c)
      \/ Settle
      \/ UNCHANGED calls
  BY DEF Next, Machinery, Disable, NativeStep, NativeStop, NativeStart, MainQueueBind,
         manager, vars
<1> QED
  BY <1>1, <1>2, <1>3, <1>4, <1>5

\* No step makes a cycle try a port twice or exceed its attempts.
LEMMA RetriesStep ==
    ASSUME TypeOK, RetriesFreshAndBounded, [Next]_vars
    PROVE  RetriesFreshAndBounded'
<1> SUFFICES ASSUME NEW d \in Cycles
             PROVE  /\ Len(calls'[d].tried) <= MaxRetries
                    /\ \A i, j \in DOMAIN calls'[d].tried :
                          calls'[d].tried[i] = calls'[d].tried[j] => i = j
  BY DEF RetriesFreshAndBounded
<1> DEFINE old == calls[d].tried
<1>0. /\ Len(old) <= MaxRetries
      /\ \A i, j \in DOMAIN old : old[i] = old[j] => i = j
      /\ old \in Seq(Ports \cup {BadPort})
  BY DEF RetriesFreshAndBounded, TypeOK, CallStates
<1>1. CASE calls'[d].tried = old
  BY <1>0, <1>1
<1>2. ASSUME NEW p \in Ports \cup {BadPort}, Enable(p), d = enableCycle + 1
      PROVE  /\ Len(calls'[d].tried) <= MaxRetries
             /\ \A i, j \in DOMAIN calls'[d].tried :
                   calls'[d].tried[i] = calls'[d].tried[j] => i = j
  <2>1. calls'[d].tried = <<p>>
    BY <1>2, EnableFacts
  <2> QED
    BY <2>1
<1>3. CASE ContinueRetry(d)
  <2>1. PICK p \in Ports : /\ calls'[d].tried = Append(old, p)
                           /\ p \notin {old[i] : i \in DOMAIN old}
    BY <1>3, RetryStep
  <2>2. Len(old) < MaxRetries
    BY <1>3 DEF ContinueRetry
  <2>3. /\ DOMAIN old = 1..Len(old)
        /\ Append(old, p) \in Seq(Ports \cup {BadPort})
        /\ Len(Append(old, p)) = Len(old) + 1
        /\ DOMAIN Append(old, p) = 1..(Len(old) + 1)
        /\ \A i \in 1..Len(old) : Append(old, p)[i] = old[i]
        /\ Append(old, p)[Len(old) + 1] = p
    BY <1>0
  <2> HIDE DEF old
  <2>4. \A i \in 1..Len(old) : old[i] # p
    BY <2>1, <2>3
  <2> QED
    BY <1>0, <2>1, <2>2, <2>3, <2>4
<1> QED
  BY <1>1, <1>2, <1>3, TriedStep

\* No enable cycle asks for more than MAX_START_RETRIES starts, and it never returns
\* to a port it has tried: enableBridgeServer's loop, in every interleaving of
\* cycles, native results and retries.
THEOREM RetriesTheorem == Spec => []RetriesFreshAndBounded
<1>1. Init => RetriesFreshAndBounded
  BY DEF Init, RetriesFreshAndBounded, NoCall
<1>2. TypeOK /\ RetriesFreshAndBounded /\ [Next]_vars => RetriesFreshAndBounded'
  BY RetriesStep
<1> QED
  BY <1>1, <1>2, TypeCorrect, PTL DEF Spec

-----------------------------------------------------------------------------
(* The order of what is in flight *)

\* An attempt once made stays made.
LEMMA MadeGrows ==
    ASSUME TypeOK, [Next]_vars, NEW id \in StartIds, Made(id)
    PROVE  Made(id)'
<1>1. id[1] \in Cycles /\ id[2] \in Nat
  BY DEF StartIds
<1>2. enableCycle' \in Nat /\ enableCycle' >= enableCycle
  <2>1. enableCycle' = enableCycle + 1 \/ enableCycle' = enableCycle
    BY DEF Next, Machinery, Enable, Disable, Settle, Continue, ContinueStale,
           ContinueReady, ContinueRetry, ContinueFailed, NativeStep, NativeStop,
           NativeStart, MainQueueBind, manager, vars
  <2> QED
    BY <2>1 DEF TypeOK
<1>3. id[1] <= enableCycle'
  BY <1>1, <1>2 DEF Made, TypeOK, Cycles
<1>4. CASE calls'[id[1]].tried = calls[id[1]].tried
  BY <1>3, <1>4 DEF Made
<1>5. CASE ContinueRetry(id[1])
  <2>1. PICK p \in Ports : calls'[id[1]].tried = Append(calls[id[1]].tried, p)
    BY <1>1, <1>5, RetryStep
  <2>2. calls[id[1]].tried \in Seq(Ports \cup {BadPort})
    BY <1>1 DEF TypeOK, CallStates
  <2>3. Len(calls'[id[1]].tried) = Len(calls[id[1]].tried) + 1
    BY <2>1, <2>2
  <2> QED
    BY <1>1, <1>3, <2>2, <2>3 DEF Made
<1>6. id[1] # enableCycle + 1
  BY <1>1 DEF Made, TypeOK, Cycles
<1> QED
  BY <1>1, <1>4, <1>5, <1>6, TriedStep

\* A start not yet made is nowhere in flight.
LEMMA NotMade ==
    ASSUME MadeInv, TypeOK, NEW id \in StartIds, ~Made(id)
    PROVE  /\ \A i \in 1..Len(moduleQ) : ~IsStart(moduleQ[i], id)
           /\ \A i \in 1..Len(mainQ) : mainQ[i].id # id
           /\ \A i \in 1..Len(results) : results[i].id # id
BY DEF MadeInv, IsStart

\* An order over the queues survives a step that leaves them alone.
LEMMA SameQueues ==
    ASSUME NEW id, UNCHANGED <<moduleQ, mainQ, results>>
    PROVE  NothingAfter(id)' <=> NothingAfter(id)
BY DEF NothingAfter

\* The native side moves the head of one queue to the end of the next.
LEMMA NativeMoves ==
    ASSUME TypeOK, QueuesOK, NativeStep
    PROVE  \/ /\ NativeStop
              /\ moduleQ # << >> /\ moduleQ[1].op = "stop"
              /\ moduleQ' = Tail(moduleQ)
              /\ UNCHANGED <<mainQ, results>>
              /\ nativePort' = NoPort
           \/ /\ Platform = "ios"
              /\ moduleQ # << >> /\ moduleQ[1].op = "start"
              /\ moduleQ' = Tail(moduleQ)
              /\ mainQ' = Append(mainQ, moduleQ[1])
              /\ UNCHANGED <<results, nativePort>>
           \/ /\ mainQ = << >>
              /\ moduleQ # << >> /\ moduleQ[1].op = "start"
              /\ moduleQ' = Tail(moduleQ)
              /\ mainQ' = mainQ
              /\ \E p \in {moduleQ[1].port, NoPort} :
                    /\ nativePort' = p
                    /\ results' = Append(results, [id |-> moduleQ[1].id, port |-> p])
           \/ /\ mainQ # << >>
              /\ mainQ' = Tail(mainQ)
              /\ moduleQ' = moduleQ
              /\ \E p \in {mainQ[1].port, NoPort} :
                    /\ nativePort' = p
                    /\ results' = Append(results, [id |-> mainQ[1].id, port |-> p])
<1>1. CASE NativeStop
  BY <1>1 DEF NativeStop, TypeOK
<1>2. CASE NativeStart /\ Platform = "android"
  BY <1>2 DEF NativeStart, Bind, QueuesOK, TypeOK
<1>3. CASE NativeStart /\ Platform # "android"
  BY <1>3 DEF NativeStart, TypeOK
<1>4. CASE MainQueueBind
  BY <1>4 DEF MainQueueBind, Bind, TypeOK
<1> QED
  BY <1>1, <1>2, <1>3, <1>4 DEF NativeStep

\* Taking the head of a queue shifts the others by one.
LEMMA TailFacts ==
    ASSUME NEW S, NEW q \in Seq(S), q # << >>
    PROVE  /\ Len(Tail(q)) = Len(q) - 1 /\ Len(q) >= 1 /\ Len(q) \in Nat
           /\ 1 \in 1..Len(q)
           /\ \A i \in 1..Len(Tail(q)) : Tail(q)[i] = q[i+1] /\ i+1 \in 1..Len(q)
           /\ Len(q) = 1 => Tail(q) = << >>
<1>1. /\ Tail(q) \in Seq(S)
      /\ Len(Tail(q)) = Len(q) - 1
      /\ \A i \in 1..Len(Tail(q)) : Tail(q)[i] = q[i+1]
  BY HeadTailProperties
<1>2. Len(q) \in Nat \ {0}
  BY EmptySeq
<1>3. Len(Tail(q)) = 0 => Tail(q) = << >>
  BY <1>1, EmptySeq
<1> QED
  BY <1>1, <1>2, <1>3

\* Appending to a queue keeps the others in place.
LEMMA AppendFacts ==
    ASSUME NEW S, NEW q \in Seq(S), NEW e \in S
    PROVE  /\ Len(Append(q, e)) = Len(q) + 1
           /\ Len(q) \in Nat
           /\ Append(q, e) # << >>
           /\ \A i \in 1..Len(q) : Append(q, e)[i] = q[i]
           /\ Append(q, e)[Len(q) + 1] = e
OBVIOUS

\* A native step lets nothing overtake the awaited start.
LEMMA NativeKeepsOrder ==
    ASSUME TypeOK, QueuesOK, NativeStep, NEW id, NothingAfter(id)
    PROVE  NothingAfter(id)'
<1>1. ASSUME moduleQ # << >>, moduleQ[1].op = "stop", moduleQ' = Tail(moduleQ),
             UNCHANGED <<mainQ, results>>
      PROVE  NothingAfter(id)'
  <2>0. moduleQ # << >> /\ mainQ' = mainQ /\ results' = results
    BY <1>1
  <2>1. /\ Len(moduleQ') = Len(moduleQ) - 1 /\ Len(moduleQ) \in Nat
        /\ \A i \in 1..Len(moduleQ') : moduleQ'[i] = moduleQ[i+1] /\ i+1 \in 1..Len(moduleQ)
    BY <1>1, TailFacts DEF TypeOK
  <2>4. ASSUME NEW i \in 1..Len(moduleQ'), IsStart(moduleQ'[i], id)
        PROVE  i = Len(moduleQ')
    BY <2>0, <2>1, <2>4 DEF NothingAfter, IsStart
  <2>5. ASSUME NEW i \in 1..Len(mainQ'), mainQ'[i].id = id
        PROVE  i = Len(mainQ') /\ moduleQ' = << >>
    BY <2>0, <2>1, <2>5 DEF NothingAfter, IsStart
  <2>6. ASSUME NEW i \in 1..Len(results'), results'[i].id = id
        PROVE  i = Len(results') /\ moduleQ' = << >> /\ mainQ' = << >>
    BY <2>0, <2>1, <2>6 DEF NothingAfter, IsStart
  <2> QED
    BY <2>4, <2>5, <2>6 DEF NothingAfter
<1>2. ASSUME Platform = "ios", moduleQ # << >>, moduleQ[1].op = "start",
             moduleQ' = Tail(moduleQ), mainQ' = Append(mainQ, moduleQ[1]),
             UNCHANGED results
      PROVE  NothingAfter(id)'
  <2>0. moduleQ # << >> /\ moduleQ[1].op = "start" /\ results' = results
    BY <1>2
  <2>1. /\ Len(moduleQ') = Len(moduleQ) - 1 /\ 1 \in 1..Len(moduleQ) /\ Len(moduleQ) \in Nat
        /\ \A i \in 1..Len(moduleQ') : moduleQ'[i] = moduleQ[i+1] /\ i+1 \in 1..Len(moduleQ)
        /\ Len(moduleQ) = 1 => moduleQ' = << >>
    BY <1>2, TailFacts DEF TypeOK
  <2>2. moduleQ[1] \in Commands
    BY <2>1, ElementOfSeq DEF TypeOK
  <2>3. /\ Len(mainQ') = Len(mainQ) + 1 /\ Len(mainQ) \in Nat
        /\ \A i \in 1..Len(mainQ) : mainQ'[i] = mainQ[i]
        /\ mainQ'[Len(mainQ) + 1] = moduleQ[1]
    BY <1>2, <2>2, AppendFacts DEF TypeOK
  <2>4. ASSUME NEW i \in 1..Len(moduleQ'), IsStart(moduleQ'[i], id)
        PROVE  i = Len(moduleQ')
    BY <2>0, <2>1, <2>3, <2>4 DEF NothingAfter, IsStart
  <2>5. ASSUME NEW i \in 1..Len(mainQ'), mainQ'[i].id = id
        PROVE  i = Len(mainQ') /\ moduleQ' = << >>
    BY <2>0, <2>1, <2>3, <2>5 DEF NothingAfter, IsStart
  <2>6. ASSUME NEW i \in 1..Len(results'), results'[i].id = id
        PROVE  i = Len(results') /\ moduleQ' = << >> /\ mainQ' = << >>
    BY <2>0, <2>1, <2>3, <2>6 DEF NothingAfter, IsStart
  <2> QED
    BY <2>4, <2>5, <2>6 DEF NothingAfter
<1>3. ASSUME mainQ = << >>, moduleQ # << >>, moduleQ[1].op = "start",
             moduleQ' = Tail(moduleQ), mainQ' = mainQ,
             NEW p \in {moduleQ[1].port, NoPort},
             results' = Append(results, [id |-> moduleQ[1].id, port |-> p])
      PROVE  NothingAfter(id)'
  <2>0. moduleQ # << >> /\ moduleQ[1].op = "start" /\ mainQ = << >> /\ mainQ' = mainQ
    BY <1>3
  <2>1. /\ Len(moduleQ') = Len(moduleQ) - 1 /\ 1 \in 1..Len(moduleQ) /\ Len(moduleQ) \in Nat
        /\ \A i \in 1..Len(moduleQ') : moduleQ'[i] = moduleQ[i+1] /\ i+1 \in 1..Len(moduleQ)
        /\ Len(moduleQ) = 1 => moduleQ' = << >>
    BY <1>3, TailFacts DEF TypeOK
  <2>2. [id |-> moduleQ[1].id, port |-> p] \in Results
    BY <1>3, <2>1, ElementOfSeq, CommandFacts DEF TypeOK, Results
  <2>3. /\ Len(results') = Len(results) + 1 /\ Len(results) \in Nat
        /\ \A i \in 1..Len(results) : results'[i] = results[i]
        /\ results'[Len(results) + 1].id = moduleQ[1].id
    BY <1>3, <2>2, AppendFacts DEF TypeOK
  <2>4. ASSUME NEW i \in 1..Len(moduleQ'), IsStart(moduleQ'[i], id)
        PROVE  i = Len(moduleQ')
    <3>1. IsStart(moduleQ[i+1], id) /\ i+1 \in 1..Len(moduleQ)
      BY <2>1, <2>4
    <3>2. i+1 = Len(moduleQ)
      BY <3>1 DEF NothingAfter
    <3> QED
      BY <2>1, <3>2
  <2>5. ASSUME NEW i \in 1..Len(mainQ'), mainQ'[i].id = id
        PROVE  i = Len(mainQ') /\ moduleQ' = << >>
    BY <2>0, <2>1, <2>3, <2>5 DEF NothingAfter, IsStart
  <2>6. ASSUME NEW i \in 1..Len(results'), results'[i].id = id
        PROVE  i = Len(results') /\ moduleQ' = << >> /\ mainQ' = << >>
    <3>1. ASSUME i \in 1..Len(results) PROVE FALSE
      BY <2>0, <2>3, <2>6, <3>1 DEF NothingAfter
    <3>2. i = Len(results) + 1
      BY <2>3, <3>1
    <3>3. IsStart(moduleQ[1], id)
      BY <2>0, <2>3, <2>6, <3>2 DEF IsStart
    <3>4. 1 = Len(moduleQ)
      BY <2>1, <3>3 DEF NothingAfter
    <3> QED
      BY <2>0, <2>1, <2>3, <3>2, <3>4
  <2> QED
    BY <2>4, <2>5, <2>6 DEF NothingAfter
<1>4. ASSUME mainQ # << >>, mainQ' = Tail(mainQ), moduleQ' = moduleQ,
             NEW p \in {mainQ[1].port, NoPort},
             results' = Append(results, [id |-> mainQ[1].id, port |-> p])
      PROVE  NothingAfter(id)'
  <2>0. mainQ # << >> /\ moduleQ' = moduleQ
    BY <1>4
  <2>1. /\ Len(mainQ') = Len(mainQ) - 1 /\ 1 \in 1..Len(mainQ) /\ Len(mainQ) \in Nat
        /\ \A i \in 1..Len(mainQ') : mainQ'[i] = mainQ[i+1] /\ i+1 \in 1..Len(mainQ)
        /\ Len(mainQ) = 1 => mainQ' = << >>
    BY <1>4, TailFacts DEF TypeOK
  <2>2. [id |-> mainQ[1].id, port |-> p] \in Results
    BY <1>4, <2>1, ElementOfSeq, CommandFacts DEF TypeOK, Results, QueuesOK
  <2>3. /\ Len(results') = Len(results) + 1 /\ Len(results) \in Nat
        /\ \A i \in 1..Len(results) : results'[i] = results[i]
        /\ results'[Len(results) + 1].id = mainQ[1].id
    BY <1>4, <2>2, AppendFacts DEF TypeOK
  <2>4. ASSUME NEW i \in 1..Len(moduleQ'), IsStart(moduleQ'[i], id)
        PROVE  i = Len(moduleQ')
    BY <2>0, <2>1, <2>3, <2>4 DEF NothingAfter, IsStart
  <2>5. ASSUME NEW i \in 1..Len(mainQ'), mainQ'[i].id = id
        PROVE  i = Len(mainQ') /\ moduleQ' = << >>
    <3>1. mainQ[i+1].id = id /\ i+1 \in 1..Len(mainQ)
      BY <2>1, <2>5
    <3>2. i+1 = Len(mainQ) /\ moduleQ = << >>
      BY <3>1 DEF NothingAfter
    <3> QED
      BY <2>0, <2>1, <3>2
  <2>6. ASSUME NEW i \in 1..Len(results'), results'[i].id = id
        PROVE  i = Len(results') /\ moduleQ' = << >> /\ mainQ' = << >>
    BY <2>0, <2>1, <2>3, <2>6 DEF NothingAfter, IsStart
  <2> QED
    BY <2>4, <2>5, <2>6 DEF NothingAfter
<1> QED
  BY <1>1, <1>2, <1>3, <1>4, NativeMoves

-----------------------------------------------------------------------------
(* The invariant, action by action *)

Flight == MadeInv /\ AwaitedIsLast /\ SettledIsQuiet /\ CallsInv /\ FailedInv

\* IInv in the parts the steps are proved for.
LEMMA IInvParts == IInv <=> TypeOK /\ QueuesOK /\ Flight
BY DEF IInv, Flight

\* Native steps keep what is known of commands in flight.
LEMMA NativeFlight ==
    ASSUME IInv, NativeStep
    PROVE  Flight'
<1>0. TypeOK /\ QueuesOK /\ Flight /\ TypeOK'
  BY IInvParts, NativeType
<1>1. UNCHANGED <<enableCycle, serverState, calls, isRunning, boundPort, starting, listener>>
  BY DEF NativeStep, NativeStop, NativeStart, MainQueueBind,
         manager, bridge
<1>2. \A id : NothingAfter(id) => NothingAfter(id)'
  BY <1>0, NativeKeepsOrder
<1>3. \A id : Made(id) => Made(id)'
  BY <1>1 DEF Made
<1>4. MadeInv'
  <2>1. /\ moduleQ # << >> =>
              /\ moduleQ[1].op = "start" => Made(moduleQ[1].id)
              /\ moduleQ[1] \in Commands
              /\ \A i \in 1..Len(Tail(moduleQ)) :
                    Tail(moduleQ)[i].op = "start" => Made(Tail(moduleQ)[i].id)
        /\ mainQ # << >> =>
              /\ Made(mainQ[1].id)
              /\ mainQ[1] \in Commands /\ mainQ[1].op = "start"
              /\ \A i \in 1..Len(Tail(mainQ)) : Made(Tail(mainQ)[i].id)
    <3>1. ASSUME moduleQ # << >>
          PROVE  /\ moduleQ[1].op = "start" => Made(moduleQ[1].id)
                 /\ moduleQ[1] \in Commands
                 /\ \A i \in 1..Len(Tail(moduleQ)) :
                       Tail(moduleQ)[i].op = "start" => Made(Tail(moduleQ)[i].id)
      <4>1. /\ 1 \in 1..Len(moduleQ)
            /\ \A i \in 1..Len(Tail(moduleQ)) :
                  Tail(moduleQ)[i] = moduleQ[i+1] /\ i+1 \in 1..Len(moduleQ)
        BY <1>0, <3>1, TailFacts DEF TypeOK
      <4>2. moduleQ[1] \in Commands
        BY <1>0, <4>1, ElementOfSeq DEF TypeOK
      <4> QED
        BY <1>0, <4>1, <4>2 DEF Flight, MadeInv
    <3>2. ASSUME mainQ # << >>
          PROVE  /\ Made(mainQ[1].id)
                 /\ mainQ[1] \in Commands /\ mainQ[1].op = "start"
                 /\ \A i \in 1..Len(Tail(mainQ)) : Made(Tail(mainQ)[i].id)
      <4>1. /\ 1 \in 1..Len(mainQ)
            /\ \A i \in 1..Len(Tail(mainQ)) :
                  Tail(mainQ)[i] = mainQ[i+1] /\ i+1 \in 1..Len(mainQ)
        BY <1>0, <3>2, TailFacts DEF TypeOK
      <4>2. mainQ[1] \in Commands
        BY <1>0, <4>1, ElementOfSeq DEF TypeOK
      <4> QED
        BY <1>0, <4>1, <4>2 DEF Flight, MadeInv, QueuesOK
    <3> QED
      BY <3>1, <3>2
  <2>2. ASSUME NEW cmd \in Commands, cmd.op = "start", NEW p \in {cmd.port, NoPort},
               Made(cmd.id), results' = Append(results, [id |-> cmd.id, port |-> p])
        PROVE  \A i \in 1..Len(results') : Made(results'[i].id)
    <3>1. [id |-> cmd.id, port |-> p] \in Results
      BY <2>2, CommandFacts DEF Results
    <3>2. /\ Len(results') = Len(results) + 1 /\ Len(results) \in Nat
          /\ \A i \in 1..Len(results) : results'[i] = results[i]
          /\ results'[Len(results) + 1].id = cmd.id
      BY <1>0, <2>2, <3>1, AppendFacts DEF TypeOK
    <3>3. \A i \in 1..Len(results) : Made(results[i].id)
      BY <1>0 DEF Flight, MadeInv
    <3> QED
      BY <2>2, <3>2, <3>3
  <2>3. ASSUME moduleQ # << >>, moduleQ[1].op = "start", mainQ' = Append(mainQ, moduleQ[1])
        PROVE  \A i \in 1..Len(mainQ') : Made(mainQ'[i].id)
    <3>1. /\ Len(mainQ') = Len(mainQ) + 1 /\ Len(mainQ) \in Nat
          /\ \A i \in 1..Len(mainQ) : mainQ'[i] = mainQ[i]
          /\ mainQ'[Len(mainQ) + 1] = moduleQ[1]
      BY <1>0, <2>1, <2>3, AppendFacts DEF TypeOK
    <3>2. \A i \in 1..Len(mainQ) : Made(mainQ[i].id)
      BY <1>0 DEF Flight, MadeInv
    <3> QED
      BY <2>1, <2>3, <3>1, <3>2
  <2>4. /\ \A i \in 1..Len(moduleQ') : moduleQ'[i].op = "start" => Made(moduleQ'[i].id)
        /\ \A i \in 1..Len(mainQ') : Made(mainQ'[i].id)
        /\ \A i \in 1..Len(results') : Made(results'[i].id)
    <3>1. /\ \A i \in 1..Len(moduleQ) : moduleQ[i].op = "start" => Made(moduleQ[i].id)
          /\ \A i \in 1..Len(mainQ) : Made(mainQ[i].id)
          /\ \A i \in 1..Len(results) : Made(results[i].id)
      BY <1>0 DEF Flight, MadeInv
    <3>2. CASE moduleQ' = Tail(moduleQ) /\ UNCHANGED <<mainQ, results>> /\ moduleQ # << >>
      BY <2>1, <3>1, <3>2
    <3>3. CASE /\ moduleQ # << >> /\ moduleQ[1].op = "start"
               /\ moduleQ' = Tail(moduleQ) /\ mainQ' = Append(mainQ, moduleQ[1])
               /\ results' = results
      <4>1. \A i \in 1..Len(mainQ') : Made(mainQ'[i].id)
        BY <2>3, <3>3
      <4> QED
        BY <2>1, <3>1, <3>3, <4>1
    <3>4. ASSUME moduleQ # << >>, moduleQ[1].op = "start",
                 moduleQ' = Tail(moduleQ), mainQ' = mainQ,
                 NEW p \in {moduleQ[1].port, NoPort},
                 results' = Append(results, [id |-> moduleQ[1].id, port |-> p])
          PROVE  /\ \A i \in 1..Len(moduleQ') :
                        moduleQ'[i].op = "start" => Made(moduleQ'[i].id)
                 /\ \A i \in 1..Len(mainQ') : Made(mainQ'[i].id)
                 /\ \A i \in 1..Len(results') : Made(results'[i].id)
      <4>1. \A i \in 1..Len(results') : Made(results'[i].id)
        BY <2>1, <2>2, <3>4
      <4> QED
        BY <2>1, <3>1, <3>4, <4>1
    <3>5. ASSUME mainQ # << >>, mainQ' = Tail(mainQ), moduleQ' = moduleQ,
                 NEW p \in {mainQ[1].port, NoPort},
                 results' = Append(results, [id |-> mainQ[1].id, port |-> p])
          PROVE  /\ \A i \in 1..Len(moduleQ') :
                        moduleQ'[i].op = "start" => Made(moduleQ'[i].id)
                 /\ \A i \in 1..Len(mainQ') : Made(mainQ'[i].id)
                 /\ \A i \in 1..Len(results') : Made(results'[i].id)
      <4>1. \A i \in 1..Len(results') : Made(results'[i].id)
        BY <2>1, <2>2, <3>5
      <4> QED
        BY <2>1, <3>1, <3>5, <4>1
    <3> QED
      BY <1>0, <3>2, <3>3, <3>4, <3>5, NativeMoves
  <2> QED
    BY <1>3, <2>4 DEF MadeInv
<1>5. AwaitedIsLast'
  BY <1>0, <1>1, <1>2 DEF Flight, AwaitedIsLast
<1>6. SettledIsQuiet'
  <2>1. ~(moduleQ = << >> /\ mainQ = << >>)
    BY <1>0, NativeMoves
  <2> QED
    BY <1>0, <1>1, <2>1 DEF Flight, SettledIsQuiet, Quiet
<1>7. CallsInv'
  BY <1>0, <1>1 DEF Flight, CallsInv
<1>8. FailedInv'
  <2> SUFFICES ASSUME serverState.status = "failed"
               PROVE  FailedInv'
    BY <1>1 DEF FailedInv
  <2>1. /\ ~isRunning /\ ~listener /\ starting = NoStart
        /\ mainQ = << >> /\ results = << >>
        /\ \A i \in 1..Len(moduleQ) : moduleQ[i].op = "stop"
    BY <1>0 DEF Flight, FailedInv
  <2>2. moduleQ # << >> => moduleQ[1].op = "stop"
    BY <1>0, <2>1, TailFacts DEF TypeOK
  <2>3. /\ moduleQ # << >> /\ moduleQ' = Tail(moduleQ)
        /\ mainQ' = mainQ /\ results' = results /\ nativePort' = NoPort
    BY <1>0, <2>1, <2>2, NativeMoves
  <2>4. \A i \in 1..Len(moduleQ') : moduleQ'[i].op = "stop"
    BY <1>0, <2>1, <2>3, TailFacts DEF TypeOK
  <2> QED
    BY <1>1, <2>1, <2>3, <2>4 DEF FailedInv
<1> QED
  BY <1>4, <1>5, <1>6, <1>7, <1>8 DEF Flight

\* So does settling a start.
LEMMA SettleFlight ==
    ASSUME IInv, Settle
    PROVE  Flight'
<1>0. TypeOK /\ QueuesOK /\ Flight
  BY IInvParts
<1> DEFINE r == Head(results)
<1>1. /\ UNCHANGED <<enableCycle, serverState, listener, moduleQ, mainQ, nativePort>>
      /\ starting' = NoStart
      /\ results # << >> /\ results' = Tail(results)
      /\ \A c \in Cycles : calls[c].phase # "settled"
      /\ IF r.port # NoPort THEN isRunning' = TRUE /\ boundPort' = r.port
                            ELSE UNCHANGED <<isRunning, boundPort>>
  BY DEF Settle, Settled
<1>2. /\ r \in Results
      /\ \A c \in Cycles :
            /\ calls'[c].tried = calls[c].tried
            /\ calls'[c].start = calls[c].start
            /\ IF calls[c].phase = "waiting" /\ calls[c].start = r.id
               THEN calls'[c].phase = "settled" /\ calls'[c].outcome = r.port
               ELSE calls'[c] = calls[c]
  BY <1>0, SettleFacts
<1>3. /\ r = results[1] /\ 1 \in 1..Len(results)
      /\ Len(results') = Len(results) - 1 /\ Len(results) \in Nat
      /\ \A i \in 1..Len(results') : results'[i] = results[i+1] /\ i+1 \in 1..Len(results)
      /\ Len(results) = 1 => results' = << >>
  BY <1>0, <1>1, TailFacts DEF TypeOK
<1> HIDE DEF r
<1>4. \A id \in StartIds : Made(id) => Made(id)'
  BY <1>1, <1>2 DEF Made, StartIds
<1>5. MadeInv'
  <2>1. /\ \A i \in 1..Len(moduleQ) : moduleQ[i].op = "start" => moduleQ[i].id \in StartIds
        /\ \A i \in 1..Len(mainQ) : mainQ[i].id \in StartIds
        /\ \A i \in 1..Len(results) : results[i].id \in StartIds
    <3>1. \A i \in 1..Len(moduleQ) : moduleQ[i] \in Commands
      BY <1>0, ElementOfSeq DEF TypeOK
    <3>2. \A i \in 1..Len(mainQ) : mainQ[i] \in Commands /\ mainQ[i].op = "start"
      BY <1>0, ElementOfSeq DEF TypeOK, QueuesOK
    <3>3. \A i \in 1..Len(results) : results[i] \in Results
      BY <1>0, ElementOfSeq DEF TypeOK
    <3> QED
      BY <3>1, <3>2, <3>3, CommandFacts DEF Results
  <2> QED
    BY <1>0, <1>1, <1>3, <1>4, <2>1 DEF Flight, MadeInv
<1>6. ASSUME NEW id, NothingAfter(id)
      PROVE  NothingAfter(id)'
  <2>1. ASSUME NEW i \in 1..Len(results'), results'[i].id = id
        PROVE  i = Len(results') /\ moduleQ = << >> /\ mainQ = << >>
    <3>1. results[i+1].id = id /\ i+1 \in 1..Len(results)
      BY <1>3, <2>1
    <3>2. i+1 = Len(results) /\ moduleQ = << >> /\ mainQ = << >>
      BY <1>6, <3>1 DEF NothingAfter
    <3> QED
      BY <1>3, <3>2
  <2>2. moduleQ' = moduleQ /\ mainQ' = mainQ
    BY <1>1
  <2> QED
    BY <1>6, <2>1, <2>2 DEF NothingAfter
<1>7. AwaitedIsLast'
  BY <1>0, <1>1, <1>2, <1>6 DEF Flight, AwaitedIsLast
<1>8. SettledIsQuiet'
  <2> SUFFICES ASSUME NEW c \in Cycles, c = enableCycle, calls'[c].phase = "settled"
               PROVE  calls'[c].start # NoStart /\ Quiet'
    BY <1>1 DEF SettledIsQuiet
  <2>1. calls[c].phase = "waiting" /\ calls[c].start = r.id
    BY <1>1, <1>2
  <2>2. calls[c].start # NoStart
    BY <1>0, <2>1 DEF Flight, CallsInv
  <2>3. NothingAfter(r.id)
    BY <1>0, <2>1 DEF Flight, AwaitedIsLast
  <2>4. 1 = Len(results) /\ moduleQ = << >> /\ mainQ = << >>
    BY <1>3, <2>3 DEF NothingAfter
  <2> QED
    BY <1>1, <1>2, <1>3, <2>2, <2>4 DEF Quiet
<1>9. CallsInv'
  <2>1. \A c \in Cycles : c > enableCycle' => calls'[c] = NoCall
    BY <1>0, <1>1, <1>2 DEF Flight, CallsInv, NoCall
  <2>2. \A c \in Cycles : (c = enableCycle' /\ serverState'.status # "starting") =>
            calls'[c].phase \in {"none", "done"}
    BY <1>0, <1>1, <1>2 DEF Flight, CallsInv
  <2>3. \A c \in Cycles : calls'[c].phase = "waiting" => calls'[c].start # NoStart
    BY <1>0, <1>2 DEF Flight, CallsInv
  <2>4. isRunning' => boundPort' # NoPort
    BY <1>0, <1>1 DEF Flight, CallsInv
  <2> QED
    BY <2>1, <2>2, <2>3, <2>4 DEF CallsInv
<1>10. FailedInv'
  <2>1. serverState.status # "failed"
    BY <1>0, <1>1 DEF Flight, FailedInv
  <2> QED
    BY <1>1, <2>1 DEF FailedInv
<1> QED
  BY <1>5, <1>7, <1>8, <1>9, <1>10 DEF Flight

-----------------------------------------------------------------------------
(* What JavaScript adds to the queue *)

\* Every start in flight carries the id of a cycle and an attempt.
LEMMA FlightIds ==
    ASSUME TypeOK, QueuesOK
    PROVE  /\ \A i \in 1..Len(moduleQ) : moduleQ[i].op = "start" => moduleQ[i].id \in StartIds
           /\ \A i \in 1..Len(mainQ) : mainQ[i].id \in StartIds
           /\ \A i \in 1..Len(results) : results[i].id \in StartIds
<1>1. \A i \in 1..Len(moduleQ) : moduleQ[i] \in Commands
  BY ElementOfSeq DEF TypeOK
<1>2. \A i \in 1..Len(mainQ) : mainQ[i] \in Commands /\ mainQ[i].op = "start"
  BY ElementOfSeq DEF TypeOK, QueuesOK
<1>3. \A i \in 1..Len(results) : results[i] \in Results
  BY ElementOfSeq DEF TypeOK
<1> QED
  BY <1>1, <1>2, <1>3, CommandFacts DEF Results

\* The queue after a stop, element by element.
LEMMA StopAppended ==
    ASSUME TypeOK, NEW q, q = moduleQ \o <<StopCmd>>
    PROVE  /\ q \in Seq(Commands)
           /\ Len(moduleQ) \in Nat /\ Len(q) = Len(moduleQ) + 1 /\ q # << >>
           /\ \A i \in 1..Len(moduleQ) : q[i] = moduleQ[i]
           /\ q[Len(moduleQ) + 1].op = "stop"
<1>1. moduleQ \in Seq(Commands) /\ StopCmd \in Commands /\ StopCmd.op = "stop"
  BY CommandFacts DEF TypeOK
<1>2. q = Append(moduleQ, StopCmd)
  BY <1>1, AppendIsConcat
<1>3. q \in Seq(Commands)
  BY <1>1, <1>2
<1>4. /\ Len(Append(moduleQ, StopCmd)) = Len(moduleQ) + 1
      /\ Len(moduleQ) \in Nat
      /\ Append(moduleQ, StopCmd) # << >>
      /\ \A i \in 1..Len(moduleQ) : Append(moduleQ, StopCmd)[i] = moduleQ[i]
      /\ Append(moduleQ, StopCmd)[Len(moduleQ) + 1] = StopCmd
  BY <1>1, AppendFacts
<1> QED
  BY <1>1, <1>2, <1>3, <1>4

\* Starts sent after anything at all, in a queue that does not hold them yet.
LEMMA StartIsLast ==
    ASSUME TypeOK, NEW q \in Seq(Commands), NEW id \in StartIds, NEW p \in Ports,
           moduleQ' = Append(q, StartCmd(id, p)), UNCHANGED <<mainQ, results>>,
           \A i \in 1..Len(q) : ~IsStart(q[i], id),
           \A i \in 1..Len(mainQ) : mainQ[i].id # id,
           \A i \in 1..Len(results) : results[i].id # id
    PROVE  NothingAfter(id)'
<1>1. StartCmd(id, p) \in Commands
  BY CommandFacts
<1>2. /\ Len(moduleQ') = Len(q) + 1 /\ Len(q) \in Nat
      /\ \A i \in 1..Len(q) : moduleQ'[i] = q[i]
  BY <1>1, AppendFacts
<1>3. ASSUME NEW i \in 1..Len(moduleQ'), IsStart(moduleQ'[i], id)
      PROVE  i = Len(moduleQ')
  BY <1>2, <1>3
<1>4. mainQ' = mainQ /\ results' = results
  OBVIOUS
<1> QED
  BY <1>3, <1>4 DEF NothingAfter

\* No start comes to the queue unmade.
LEMMA MadeKept ==
    ASSUME TypeOK, QueuesOK, MadeInv, UNCHANGED <<mainQ, results>>,
           \A id \in StartIds : Made(id) => Made(id)',
           \A i \in 1..Len(moduleQ') : moduleQ'[i].op = "start" =>
               \/ \E j \in 1..Len(moduleQ) : moduleQ'[i] = moduleQ[j]
               \/ \E id \in StartIds : moduleQ'[i].id = id /\ Made(id)'
    PROVE  MadeInv'
<1>1. ASSUME NEW i \in 1..Len(moduleQ'), moduleQ'[i].op = "start"
      PROVE  Made(moduleQ[i].id)'
  <2>1. PICK id \in StartIds : moduleQ'[i].id = id /\ Made(id)'
    BY <1>1, FlightIds DEF MadeInv
  <2> QED
    BY <2>1 DEF Made
<1>2. ASSUME NEW i \in 1..Len(mainQ')
      PROVE  Made(mainQ[i].id)'
  <2>1. PICK id \in StartIds : mainQ'[i].id = id /\ Made(id)'
    BY <1>2, FlightIds DEF MadeInv
  <2> QED
    BY <2>1 DEF Made
<1>3. ASSUME NEW i \in 1..Len(results')
      PROVE  Made(results[i].id)'
  <2>1. PICK id \in StartIds : results'[i].id = id /\ Made(id)'
    BY <1>3, FlightIds DEF MadeInv
  <2> QED
    BY <2>1 DEF Made
<1> QED
  BY <1>1, <1>2, <1>3 DEF MadeInv

\* enableServer keeps what is known of commands in flight.
LEMMA EnableFlight ==
    ASSUME IInv, NEW p \in Ports \cup {BadPort}, Enable(p)
    PROVE  Flight'
<1>0. TypeOK /\ QueuesOK /\ Flight
  BY IInvParts
<1>c. PICK c \in Cycles : c = enableCycle + 1
  BY <1>0, EnableFacts
<1>1. /\ c \in Cycles /\ enableCycle' = c
      /\ calls'[c].tried = <<p>> /\ Len(<<p>>) = 1
      /\ \A d \in Cycles : d # c => calls'[d] = calls[d]
      /\ \/ ListenRunning(c, <<p>>)
         \/ ListenJoin(c, <<p>>)
         \/ ListenRefused(c, p, <<p>>)
         \/ ListenStart(c, p, <<p>>)
  BY <1>0, <1>c, EnableFacts
<1>2. /\ UNCHANGED <<isRunning, boundPort, mainQ, results, nativePort>>
      /\ serverState'.status = "starting"
  BY DEF Enable, native
<1>3. c > enableCycle /\ \A d \in Cycles : d > c => d > enableCycle
  BY <1>0, <1>c DEF TypeOK, Cycles
<1>4. \A id \in StartIds : Made(id) => Made(id)'
  <2>1. Next
    BY DEF Next
  <2> QED
    BY <1>0, <2>1, MadeGrows
<1>6. FailedInv'
  BY <1>2 DEF FailedInv
<1>7. /\ \A d \in Cycles : d > enableCycle' => calls'[d] = NoCall
      /\ \A d \in Cycles : d # c /\ calls'[d].phase = "waiting" => calls'[d].start # NoStart
      /\ isRunning' => boundPort' # NoPort
  BY <1>0, <1>1, <1>2, <1>3 DEF Flight, CallsInv, TypeOK, Cycles
<1>8. calls \in [Cycles -> CallStates]
  BY <1>0 DEF TypeOK
<1>9. CASE ListenRunning(c, <<p>>)
  <2>1. /\ calls'[c].phase = "settled" /\ calls'[c].start = NoStart
        /\ calls'[c].outcome # NoPort
        /\ UNCHANGED <<starting, moduleQ>>
    BY <1>0, <1>1, <1>8, <1>9 DEF ListenRunning, Answered, Flight, CallsInv
  <2>2. MadeInv'
    BY <1>0, <1>2, <1>4, <2>1, MadeKept DEF Flight
  <2>3. AwaitedIsLast'
    BY <1>0, <1>1, <1>2, <2>1, SameQueues DEF Flight, AwaitedIsLast
  <2>4. SettledIsQuiet'
    BY <1>1, <2>1 DEF SettledIsQuiet
  <2>5. CallsInv'
    BY <1>1, <1>2, <1>7, <2>1 DEF CallsInv
  <2> QED
    BY <1>6, <2>2, <2>3, <2>4, <2>5 DEF Flight
<1>10. CASE ListenJoin(c, <<p>>)
  <2>1. /\ calls'[c].phase = "waiting" /\ calls'[c].start = starting
        /\ starting # NoStart
        /\ UNCHANGED <<starting, moduleQ>>
    BY <1>1, <1>8, <1>10 DEF ListenJoin, Awaiting
  <2>2. MadeInv'
    BY <1>0, <1>2, <1>4, <2>1, MadeKept DEF Flight
  <2>3. AwaitedIsLast'
    <3>1. NothingAfter(starting)'
      BY <1>0, <1>2, <2>1, SameQueues DEF Flight, AwaitedIsLast
    <3> QED
      BY <1>1, <2>1, <3>1 DEF AwaitedIsLast
  <2>4. SettledIsQuiet'
    BY <1>1, <2>1 DEF SettledIsQuiet
  <2>5. CallsInv'
    BY <1>1, <1>2, <1>7, <2>1 DEF CallsInv
  <2> QED
    BY <1>6, <2>2, <2>3, <2>4, <2>5 DEF Flight
<1>11. CASE ListenRefused(c, p, <<p>>)
  <2>1. /\ calls'[c].phase = "settled" /\ calls'[c].start = NoStart
        /\ starting = NoStart
        /\ UNCHANGED <<starting, moduleQ>>
    BY <1>1, <1>8, <1>11 DEF ListenRefused, Answered
  <2>2. MadeInv'
    BY <1>0, <1>2, <1>4, <2>1, MadeKept DEF Flight
  <2>3. AwaitedIsLast'
    BY <1>1, <2>1 DEF AwaitedIsLast
  <2>4. SettledIsQuiet'
    BY <1>1, <2>1 DEF SettledIsQuiet
  <2>5. CallsInv'
    BY <1>1, <1>2, <1>7, <2>1 DEF CallsInv
  <2> QED
    BY <1>6, <2>2, <2>3, <2>4, <2>5 DEF Flight
<1>12. CASE ListenStart(c, p, <<p>>)
  <2> DEFINE id == <<c, 1>>
  <2>1. id \in StartIds /\ id # NoStart /\ p \in Ports
    BY <1>1, <1>12, CommandFacts DEF ListenStart, StartIds
  <2>2. /\ calls'[c].phase = "waiting" /\ calls'[c].start = id
        /\ starting' = id
        /\ moduleQ' = Append(moduleQ, StartCmd(id, p))
    BY <1>1, <1>8, <1>12 DEF ListenStart, Awaiting
  <2>3. ~Made(id)
    BY <1>0, <1>3 DEF Made, TypeOK, Cycles
  <2>4. Made(id)'
    <3>1. Len(calls'[c].tried) = 1
      BY <1>1
    <3>2. id[1] = c /\ id[2] = 1 /\ c <= enableCycle'
      BY <1>1 DEF Cycles
    <3>3. id[1] <= enableCycle' /\ id[2] <= Len(calls'[id[1]].tried)
      BY <3>1, <3>2
    <3> QED
      BY <3>3 DEF Made
  <2>5. StartCmd(id, p) \in Commands /\ StartCmd(id, p).id = id
    BY <2>1, CommandFacts
  <2> HIDE DEF id
  <2>6. NothingAfter(id)'
    <3>1. /\ \A i \in 1..Len(moduleQ) : ~IsStart(moduleQ[i], id)
          /\ \A i \in 1..Len(mainQ) : mainQ[i].id # id
          /\ \A i \in 1..Len(results) : results[i].id # id
      BY <1>0, <2>1, <2>3, NotMade DEF Flight
    <3>2. moduleQ \in Seq(Commands)
      BY <1>0 DEF TypeOK
    <3> QED
      BY <1>0, <1>2, <2>1, <2>2, <3>1, <3>2, StartIsLast
  <2>7. MadeInv'
    <3>1. /\ Len(moduleQ') = Len(moduleQ) + 1 /\ Len(moduleQ) \in Nat
          /\ \A i \in 1..Len(moduleQ) : moduleQ'[i] = moduleQ[i]
          /\ moduleQ'[Len(moduleQ) + 1].id = id
      BY <1>0, <2>2, <2>5, AppendFacts DEF TypeOK
    <3> QED
      BY <1>0, <1>2, <1>4, <2>1, <2>4, <3>1, MadeKept DEF Flight
  <2>8. AwaitedIsLast'
    BY <1>1, <2>2, <2>6 DEF AwaitedIsLast
  <2>9. SettledIsQuiet'
    BY <1>1, <2>2 DEF SettledIsQuiet
  <2>10. CallsInv'
    BY <1>1, <1>2, <1>7, <2>1, <2>2 DEF CallsInv
  <2> QED
    BY <1>6, <2>7, <2>8, <2>9, <2>10 DEF Flight
<1> QED
  BY <1>1, <1>9, <1>10, <1>11, <1>12

\* So does disableServer.
LEMMA DisableFlight ==
    ASSUME IInv, NEW cause \in {"none", "backgrounded"}, Disable(cause)
    PROVE  Flight'
<1>0. TypeOK /\ QueuesOK /\ Flight
  BY IInvParts
<1>c. PICK c \in Cycles : c = enableCycle + 1
  BY <1>0 DEF Disable, TypeOK, Cycles
<1>1. /\ c \in Cycles /\ enableCycle' = c /\ c > enableCycle
      /\ \A d \in Cycles : d > c => d > enableCycle
  BY <1>0, <1>c DEF Disable, TypeOK, Cycles
<1>2. /\ UNCHANGED <<calls, mainQ, results, nativePort>>
      /\ serverState'.status = "idle"
      /\ isRunning' = FALSE /\ starting' = NoStart
      /\ moduleQ' = moduleQ \o <<StopCmd>> \o << >>
  BY DEF Disable, BridgeStop, BridgeStopThen, native
<1>3. calls[c] = NoCall
  BY <1>0, <1>1 DEF Flight, CallsInv
<1>4. calls[c].phase = "none"
  BY <1>3 DEF NoCall
<1>5. \A id \in StartIds : Made(id) => Made(id)'
  <2>1. Next
    BY DEF Next
  <2> QED
    BY <1>0, <2>1, MadeGrows
<1>7. MadeInv'
  <2>1. moduleQ \o <<StopCmd>> \in Seq(Commands)
    BY <1>0, StopAppended
  <2>2. moduleQ' = moduleQ \o <<StopCmd>>
    BY <1>2, <2>1, ConcatEmptySeq
  <2>3. /\ Len(moduleQ) \in Nat /\ Len(moduleQ') = Len(moduleQ) + 1
        /\ \A i \in 1..Len(moduleQ) : moduleQ'[i] = moduleQ[i]
        /\ moduleQ'[Len(moduleQ) + 1].op = "stop"
    BY <1>0, <2>2, StopAppended
  <2> QED
    BY <1>0, <1>2, <1>5, <2>3, MadeKept DEF Flight
<1>8. AwaitedIsLast'
  BY <1>1, <1>2, <1>4 DEF AwaitedIsLast
<1>9. SettledIsQuiet'
  BY <1>1, <1>2, <1>4 DEF SettledIsQuiet
<1>10. CallsInv'
  BY <1>0, <1>1, <1>2, <1>4 DEF Flight, CallsInv
<1>11. FailedInv'
  BY <1>2 DEF FailedInv
<1> QED
  BY <1>7, <1>8, <1>9, <1>10, <1>11 DEF Flight

\* So does every continuation of an enable cycle.
LEMMA ContinueFlight ==
    ASSUME IInv, MaxRetries > 1, NEW c \in Cycles, Continue(c)
    PROVE  Flight'
<1>0. TypeOK /\ QueuesOK /\ Flight
  BY IInvParts
<1>1. calls[c].phase = "settled" /\ enableCycle' = enableCycle
  BY DEF Continue, ContinueStale, ContinueReady, ContinueRetry, ContinueFailed, Settled
<1>2. UNCHANGED <<mainQ, results, nativePort>>
  BY DEF Continue, ContinueStale, ContinueReady, ContinueRetry, ContinueFailed, native
<1>3. \A id \in StartIds : Made(id) => Made(id)'
  <2>1. Next
    BY DEF Next, Machinery
  <2> QED
    BY <1>0, <2>1, MadeGrows
<1>4. CASE Finish(c) /\ UNCHANGED <<isRunning, boundPort, starting, listener, moduleQ>>
           /\ \/ ~Current(c) /\ UNCHANGED serverState
              \/ Current(c) /\ serverState'.status = "ready"
  <2>1. /\ calls'[c].phase = "done"
        /\ \A d \in Cycles : d # c => calls'[d] = calls[d]
    BY <1>0, <1>4, FinishType
  <2>2. MadeInv'
    BY <1>0, <1>2, <1>3, <1>4, MadeKept DEF Flight
  <2>3. AwaitedIsLast'
    <3>1. \A id : NothingAfter(id) => NothingAfter(id)'
      BY <1>2, <1>4, SameQueues
    <3>2. calls'[c].phase # "waiting"
      BY <2>1
    <3> QED
      BY <1>0, <1>1, <1>4, <2>1, <3>1, <3>2 DEF Flight, AwaitedIsLast
  <2>4. SettledIsQuiet'
    <3>1. calls'[c].phase # "settled"
      BY <2>1
    <3>2. Quiet' <=> Quiet
      BY <1>2, <1>4 DEF Quiet
    <3> QED
      BY <1>0, <1>1, <2>1, <3>1, <3>2 DEF Flight, SettledIsQuiet
  <2>5. CallsInv'
    <3>1. ~(c > enableCycle)
      BY <1>0, <1>1 DEF Flight, CallsInv, NoCall
    <3>2. calls'[c].phase \in {"none", "done"}
      BY <2>1
    <3>3. serverState' = serverState \/ c = enableCycle
      BY <1>4 DEF Current
    <3> QED
      BY <1>0, <1>1, <1>4, <2>1, <3>1, <3>2, <3>3 DEF Flight, CallsInv
  <2>6. FailedInv'
    BY <1>0, <1>2, <1>4 DEF Flight, FailedInv
  <2> QED
    BY <2>2, <2>3, <2>4, <2>5, <2>6 DEF Flight
<1>5. CASE ContinueRetry(c)
  <2>1. PICK p \in Ports :
            LET id == <<c, Len(calls[c].tried) + 1>>
            IN  /\ id \in StartIds
                /\ starting' = id
                /\ isRunning' = FALSE
                /\ moduleQ' = moduleQ \o <<StopCmd>> \o <<StartCmd(id, p)>>
                /\ calls'[c].tried = Append(calls[c].tried, p)
                /\ calls'[c].phase = "waiting"
                /\ calls'[c].start = id
                /\ \A d \in Cycles : d # c => calls'[d] = calls[d]
    BY <1>0, <1>5, RetryStep
  <2>2. PICK id \in StartIds : id = <<c, Len(calls[c].tried) + 1>>
    BY <2>1
  <2>3. PICK q \in Seq(Commands) : q = moduleQ \o <<StopCmd>>
    BY <1>0, StopAppended
  <2>4. c = enableCycle /\ UNCHANGED serverState
    BY <1>5 DEF ContinueRetry, Current
  <2>5. calls[c].tried \in Seq(Ports \cup {BadPort})
    BY <1>0 DEF TypeOK, CallStates
  <2>6. Len(calls[c].tried) \in Nat /\ Len(calls'[c].tried) = Len(calls[c].tried) + 1
    BY <2>1, <2>5
  <2>7. id[1] = c /\ id[2] = Len(calls[c].tried) + 1 /\ c \in Nat
    BY <2>2 DEF Cycles
  <2>8. ~Made(id)
    BY <2>6, <2>7 DEF Made
  <2>9. Made(id)'
    BY <1>1, <2>4, <2>6, <2>7 DEF Made
  <2>10. StartCmd(id, p) \in Commands /\ StartCmd(id, p).id = id
    BY CommandFacts
  <2>11. moduleQ' = Append(q, StartCmd(id, p))
    BY <2>1, <2>2, <2>3, <2>10, AppendIsConcat
  <2>12. /\ Len(moduleQ) \in Nat /\ Len(q) = Len(moduleQ) + 1
         /\ \A i \in 1..Len(moduleQ) : q[i] = moduleQ[i]
         /\ q[Len(moduleQ) + 1].op = "stop"
    BY <1>0, <2>3, StopAppended
  <2>13. NothingAfter(id)'
    <3>1. /\ \A i \in 1..Len(moduleQ) : ~IsStart(moduleQ[i], id)
          /\ \A i \in 1..Len(mainQ) : mainQ[i].id # id
          /\ \A i \in 1..Len(results) : results[i].id # id
      BY <1>0, <2>8, NotMade DEF Flight
    <3>2. \A i \in 1..Len(q) : ~IsStart(q[i], id)
      BY <2>12, <3>1 DEF IsStart
    <3> QED
      BY <1>0, <1>2, <2>11, <3>1, <3>2, StartIsLast
  <2>14. MadeInv'
    <3>1. /\ Len(moduleQ') = Len(q) + 1 /\ Len(q) \in Nat
          /\ \A i \in 1..Len(q) : moduleQ'[i] = q[i]
          /\ moduleQ'[Len(q) + 1].id = id
      BY <2>10, <2>11, AppendFacts
    <3>2. ASSUME NEW i \in 1..Len(moduleQ'), moduleQ'[i].op = "start"
          PROVE  \/ \E j \in 1..Len(moduleQ) : moduleQ'[i] = moduleQ[j]
                 \/ moduleQ'[i].id = id
      BY <2>12, <3>1, <3>2
    <3> QED
      BY <1>0, <1>2, <1>3, <2>9, <3>2, MadeKept DEF Flight
  <2>15. starting' = id /\ calls'[c].start = id /\ calls'[c].phase = "waiting"
    BY <2>1, <2>2
  <2>16. AwaitedIsLast'
    BY <1>1, <2>4, <2>13, <2>15 DEF AwaitedIsLast
  <2>17. SettledIsQuiet'
    BY <1>1, <2>4, <2>15 DEF SettledIsQuiet
  <2>18. CallsInv'
    <3>1. id # NoStart
      BY CommandFacts
    <3>2. ~(c > enableCycle)
      BY <2>4, <2>7
    <3>3. serverState.status = "starting"
      BY <1>0, <1>1, <2>4 DEF Flight, CallsInv
    <3> QED
      BY <1>0, <1>1, <2>1, <2>4, <2>15, <3>1, <3>2, <3>3 DEF Flight, CallsInv
  <2>19. FailedInv'
    BY <1>0, <1>1, <2>4 DEF Flight, FailedInv, CallsInv
  <2> QED
    BY <2>14, <2>16, <2>17, <2>18, <2>19 DEF Flight
<1>6. CASE ContinueFailed(c)
  <2>1. /\ c = enableCycle /\ Finish(c) /\ calls[c].outcome = NoPort
        /\ Len(calls[c].tried) >= MaxRetries
        /\ isRunning' = FALSE /\ starting' = NoStart
        /\ moduleQ' = moduleQ \o <<StopCmd>> \o << >>
        /\ serverState'.status = "failed"
        /\ BridgeStopThen(<< >>)
    BY <1>6 DEF ContinueFailed, Current, BridgeStop, BridgeStopThen
  <2>2. /\ calls'[c].phase = "done"
        /\ \A d \in Cycles : d # c => calls'[d] = calls[d]
    BY <1>0, <2>1, FinishType
  <2>3. moduleQ = << >> /\ mainQ = << >> /\ results = << >>
    <3>1. Len(calls[c].tried) # 1
      <4>1. Len(calls[c].tried) \in Nat
        BY <1>0 DEF TypeOK, CallStates
      <4>2. Len(calls[c].tried) >= MaxRetries
        BY <2>1
      <4>3. MaxRetries \in Nat /\ MaxRetries > 1
        BY RetriesAssumption
      <4>4. \A n, m \in Nat : n >= m /\ m > 1 => n # 1
        OBVIOUS
      <4> QED
        BY <4>1, <4>2, <4>3, <4>4
    <3> QED
      BY <1>0, <1>1, <2>1, <3>1 DEF Flight, SettledIsQuiet, Quiet
  <2>4. moduleQ \o <<StopCmd>> \in Seq(Commands)
    BY <1>0, StopAppended
  <2>5. moduleQ' = moduleQ \o <<StopCmd>>
    BY <2>1, <2>4, ConcatEmptySeq
  <2>6. /\ Len(moduleQ) \in Nat /\ Len(moduleQ') = Len(moduleQ) + 1 /\ moduleQ' # << >>
        /\ \A i \in 1..Len(moduleQ) : moduleQ'[i] = moduleQ[i]
        /\ moduleQ'[Len(moduleQ) + 1].op = "stop"
    BY <1>0, <2>5, StopAppended
  <2>7. MadeInv'
    BY <1>0, <1>2, <1>3, <2>6, MadeKept DEF Flight
  <2>8. AwaitedIsLast'
    BY <1>1, <2>1, <2>2 DEF AwaitedIsLast
  <2>9. SettledIsQuiet'
    BY <1>1, <2>1, <2>2 DEF SettledIsQuiet
  <2>10. CallsInv'
    <3>1. ~(c > enableCycle)
      BY <2>1 DEF Cycles
    <3>2. calls'[c].phase \in {"none", "done"}
      BY <2>2
    <3> QED
      BY <1>0, <1>1, <2>1, <2>2, <3>1, <3>2 DEF Flight, CallsInv
  <2>11. FailedInv'
    <3>1. Len(moduleQ) = 0
      BY <2>3
    <3>2. \A i \in 1..Len(moduleQ') : moduleQ'[i].op = "stop"
      BY <2>6, <3>1
    <3>3. ~listener'
      BY <2>1 DEF BridgeStopThen
    <3> QED
      BY <1>2, <2>1, <2>3, <2>6, <3>2, <3>3 DEF FailedInv
  <2> QED
    BY <2>7, <2>8, <2>9, <2>10, <2>11 DEF Flight
<1>7. ContinueStale(c) \/ ContinueReady(c) =>
          /\ Finish(c) /\ UNCHANGED <<isRunning, boundPort, starting, listener, moduleQ>>
          /\ \/ ~Current(c) /\ UNCHANGED serverState
             \/ Current(c) /\ serverState'.status = "ready"
  BY DEF ContinueStale, ContinueReady, bridge
<1> QED
  BY <1>4, <1>5, <1>6, <1>7 DEF Continue

-----------------------------------------------------------------------------
(* The invariant, and what follows from it *)

\* The provider mounts in IInv.
LEMMA IInvInit == Init => IInv
<1> SUFFICES ASSUME Init PROVE IInv
  OBVIOUS
<1>1. TypeOK
  BY TypeInit
<1>2. Len(moduleQ) = 0 /\ Len(mainQ) = 0 /\ Len(results) = 0
  BY DEF Init
<1>3. MadeInv /\ QueuesOK
  BY <1>2 DEF MadeInv, QueuesOK, Init
<1>4. \A c \in Cycles : calls[c] = NoCall /\ calls[c].phase = "none"
  BY DEF Init, NoCall
<1>5. AwaitedIsLast /\ SettledIsQuiet
  BY <1>4 DEF AwaitedIsLast, SettledIsQuiet, Init
<1>6. CallsInv /\ FailedInv
  BY <1>4 DEF CallsInv, FailedInv, Init
<1> QED
  BY <1>1, <1>3, <1>5, <1>6 DEF IInv

\* IInv is inductive.
LEMMA IInvStep ==
    ASSUME IInv, MaxRetries > 1, [Next]_vars
    PROVE  IInv'
<1>0. TypeOK /\ QueuesOK /\ Flight
  BY IInvParts
<1>1. TypeOK' /\ QueuesOK'
  BY <1>0, TypeStep, QueuesStep
<1>2. Flight'
  <2>1. ASSUME NEW p \in Ports \cup {BadPort}, Enable(p) PROVE Flight'
    BY <2>1, EnableFlight
  <2>2. ASSUME NEW cause \in {"none", "backgrounded"}, Disable(cause) PROVE Flight'
    BY <2>2, DisableFlight
  <2>3. ASSUME NativeStep PROVE Flight'
    BY <2>3, NativeFlight
  <2>4. ASSUME Settle PROVE Flight'
    BY <2>4, SettleFlight
  <2>5. ASSUME NEW c \in Cycles, Continue(c) PROVE Flight'
    BY <2>5, ContinueFlight
  <2>6. ASSUME UNCHANGED vars PROVE Flight'
    BY <1>0, <2>6 DEF vars, Flight, MadeInv, Made, AwaitedIsLast, NothingAfter,
                      SettledIsQuiet, Quiet, CallsInv, FailedInv
  <2> QED
    BY <2>1, <2>2, <2>3, <2>4, <2>5, <2>6 DEF Next, Machinery
<1> QED
  BY <1>1, <1>2 DEF IInv, Flight

\* IInv holds in every reachable state.
LEMMA IInvCorrect ==
    ASSUME MaxRetries > 1
    PROVE  Spec => []IInv
<1>1. Init => IInv
  BY IInvInit
<1>2. IInv /\ [Next]_vars => IInv'
  BY IInvStep
<1> QED
  BY <1>1, <1>2, PTL DEF Spec

\* A cycle that gave up leaves no server behind: when serverState is 'failed', the
\* bridge is stopped, its listener removed, no start is in flight on either side, and
\* once the native calls have run nothing is bound (enableBridgeServer's exit from the
\* retry loop).  With a single attempt a refused port would be reported 'failed' ahead
\* of older commands; MAX_START_RETRIES is 3.
THEOREM FailedTheorem ==
    ASSUME MaxRetries > 1
    PROVE  Spec => []FailedIsStopped
<1>1. IInv => FailedIsStopped
  BY DEF IInv, FailedInv, FailedIsStopped
<1> QED
  BY <1>1, IInvCorrect, PTL

\* Only the call of the latest cycle, and only as it ends, moves serverState without
\* opening a new cycle: a superseded start's outcome is never published.
LEMMA StaleStep ==
    ASSUME TypeOK, [Next]_vars, serverState' # serverState, enableCycle' = enableCycle
    PROVE  /\ enableCycle > 0
           /\ calls[enableCycle].phase = "settled"
           /\ calls'[enableCycle].phase = "done"
<1>1. enableCycle # enableCycle + 1
  BY DEF TypeOK
<1>2. PICK c \in Cycles : ContinueReady(c) \/ ContinueFailed(c)
  BY <1>1 DEF Next, Machinery, Enable, Disable, Settle, Continue, ContinueStale,
              ContinueRetry, NativeStep, NativeStop, NativeStart, MainQueueBind,
              manager, vars
<1>3. c = enableCycle /\ calls[c].phase = "settled" /\ Finish(c)
  BY <1>2 DEF ContinueReady, ContinueFailed, Settled, Current
<1>4. calls'[c].phase = "done"
  BY <1>3, FinishType
<1>5. c > 0
  BY DEF Cycles
<1> QED
  BY <1>3, <1>4, <1>5

\* The continuation of a superseded enable cycle never writes the readiness store: the
\* generation check after every await is enough, for any interleaving of calls.
THEOREM StaleTheorem == Spec => StaleNeverPublishes
<1>1. TypeOK /\ [Next]_vars =>
        [ (serverState' # serverState /\ enableCycle' = enableCycle) =>
              /\ enableCycle > 0
              /\ calls[enableCycle].phase = "settled"
              /\ calls'[enableCycle].phase = "done" ]_vars
  BY StaleStep
<1> QED
  BY <1>1, TypeCorrect, PTL DEF Spec, StaleNeverPublishes

-----------------------------------------------------------------------------
(* The lifecycle implements the readiness it promises *)

\* A cycle to come has no call, and outside "starting" the latest call is over.
Booked ==
    /\ \A c \in Cycles : c > enableCycle => calls[c].phase = "none"
    /\ \A c \in Cycles :
          (c = enableCycle /\ serverState.status # "starting") =>
              calls[c].phase \in {"none", "done"}

\* disableBridgeServer leaves a stop as the last native call.
LEMMA DisableFacts ==
    ASSUME TypeOK, NEW cause, Disable(cause)
    PROVE  /\ moduleQ' = Append(moduleQ, StopCmd)
           /\ ~listener' /\ ~isRunning' /\ starting' = NoStart
           /\ serverState'.status = "idle"
           /\ stoppedByBackground' = (cause = "backgrounded")
           /\ enableCycle' = enableCycle + 1
           /\ UNCHANGED <<calls, mainQ, results, nativePort>>
<1>1. StopCmd \in Commands /\ moduleQ \in Seq(Commands)
  BY CommandFacts DEF TypeOK
<1>2. moduleQ' = moduleQ \o <<StopCmd>> \o << >>
  BY DEF Disable, BridgeStop, BridgeStopThen
<1>3. moduleQ' = Append(moduleQ, StopCmd)
  BY <1>1, <1>2
<1> QED BY <1>3 DEF Disable, BridgeStop, BridgeStopThen, native

\* The calls keep their books whoever uses the bridge.
LEMMA BookedStep ==
    ASSUME TypeOK, Booked, [Next]_vars
    PROVE  Booked'
<1>0. enableCycle \in Nat /\ \A c \in Cycles : c \in Nat
  BY DEF TypeOK, Cycles
<1>1. ASSUME NEW p \in Ports \cup {BadPort}, Enable(p) PROVE Booked'
  <2>1. /\ enableCycle' = enableCycle + 1
        /\ serverState'.status = "starting"
        /\ \A c \in Cycles : c # enableCycle' => calls'[c] = calls[c]
    BY <1>1 DEF Enable, Listen, ListenRunning, ListenJoin, ListenRefused, ListenStart, TypeOK
  <2> QED BY <1>0, <2>1 DEF Booked
<1>2. ASSUME NEW cause, Disable(cause) PROVE Booked'
  BY <1>0, <1>2, DisableFacts DEF Booked
<1>3. CASE NativeStep
  BY <1>3 DEF NativeStep, NativeStop, NativeStart, MainQueueBind, manager, Booked
<1>4. CASE Settle
  <2>1. /\ UNCHANGED <<enableCycle, serverState>>
        /\ \A c \in Cycles : calls[c].phase # "waiting" => calls'[c] = calls[c]
    BY <1>4 DEF Settle
  <2> QED BY <2>1 DEF Booked
<1>5. ASSUME NEW c \in Cycles, Continue(c) PROVE Booked'
  <2>1. enableCycle' = enableCycle /\ calls[c].phase = "settled"
    BY <1>5 DEF Continue, ContinueStale, ContinueReady, ContinueRetry, ContinueFailed, Settled
  <2>2. \A d \in Cycles : d # c => calls'[d] = calls[d]
    BY <1>5 DEF Continue, ContinueStale, ContinueReady, ContinueRetry, ContinueFailed,
                Finish, TypeOK
  <2>3. CASE ContinueRetry(c)
    BY <1>0, <2>1, <2>2, <2>3 DEF ContinueRetry, Current, Booked
  <2>4. CASE ~ContinueRetry(c)
    <3>1. calls'[c].phase = "done"
      BY <1>5, <2>4 DEF Continue, ContinueStale, ContinueReady, ContinueFailed, Finish,
                        TypeOK, CallStates
    <3>2. c = enableCycle \/ serverState' = serverState
      BY <1>5, <2>4 DEF Continue, ContinueStale, ContinueReady, ContinueFailed, Current
    <3> QED BY <1>0, <2>1, <2>2, <3>1, <3>2 DEF Booked
  <2> QED BY <2>3, <2>4
<1>6. CASE UNCHANGED vars
  BY <1>6 DEF vars, Booked
<1> QED BY <1>1, <1>2, <1>3, <1>4, <1>5, <1>6 DEF Next, Machinery

Opened == serverState.status # "idle" => enableCycle > 0

\* The store leaves "idle" only once a cycle has begun.
LEMMA OpenedStep ==
    ASSUME TypeOK, Opened, [Next]_vars
    PROVE  Opened'
<1>1. enableCycle' = enableCycle + 1 \/ enableCycle' = enableCycle
  BY DEF Next, Machinery, Enable, Disable, Settle, Continue, ContinueStale,
         ContinueReady, ContinueRetry, ContinueFailed, NativeStep, NativeStop,
         NativeStart, MainQueueBind, manager, vars
<1>2. CASE enableCycle' = enableCycle + 1
  BY <1>2 DEF Opened, TypeOK
<1>3. CASE enableCycle' = enableCycle
  <2>1. serverState' = serverState \/ enableCycle > 0
    BY <1>3, StaleStep
  <2> QED
    BY <1>3, <2>1 DEF Opened
<1> QED
  BY <1>1, <1>2, <1>3

\* The mounted store is an initial state of ServerReadiness.
LEMMA ReadinessInit == Init => Readiness!Init
BY DEF Init, Readiness!Init, Readiness!Snapshot, Attempts

\* Every step is one of ServerReadiness or leaves the store alone.
LEMMA ReadinessStep ==
    ASSUME TypeOK, Booked, RetriesFreshAndBounded, Opened, [Next]_vars
    PROVE  [Readiness!Next]_(Readiness!vars)
<1>0. TypeOK
  OBVIOUS
<1>1. ASSUME NEW p \in Ports \cup {BadPort}, Enable(p)
      PROVE  Readiness!Request
  <2>1. /\ calls'[enableCycle'].tried = <<p>>
        /\ serverState' = [status |-> "starting", port |-> NoPort]
    BY <1>0, <1>1, EnableFacts DEF Enable
  <2>2. Attempts' = 1
    BY <2>1 DEF Attempts
  <2> QED
    BY <2>1, <2>2 DEF Readiness!Request, Readiness!Snapshot
<1>2. ASSUME NEW cause, Disable(cause)
      PROVE  Readiness!Cancel
  BY <1>2 DEF Disable, Attempts, Readiness!Cancel, Readiness!Snapshot
<1>3. ASSUME NEW c \in Cycles, Continue(c)
      PROVE  [Readiness!Next]_(Readiness!vars)
  <2>1. enableCycle' = enableCycle /\ calls[c].phase = "settled"
    BY <1>3 DEF Continue, ContinueStale, ContinueReady, ContinueRetry, ContinueFailed, Settled
  <2>2. c = enableCycle => serverState.status = "starting"
    BY <1>0, <2>1 DEF Booked
  <2>3. Finish(c) => calls'[enableCycle].tried = calls[enableCycle].tried
    <3>1. enableCycle \in Cycles
      BY <1>0, <2>1 DEF Booked, TypeOK, Cycles
    <3> QED
      BY <1>0, <3>1, FinishType
  <2>4. CASE ContinueStale(c)
    BY <2>1, <2>3, <2>4 DEF ContinueStale, Attempts, Readiness!vars
  <2>5. CASE ContinueReady(c)
    <3>1. calls[c].outcome \in Ports
      BY <1>0, <2>5 DEF ContinueReady, TypeOK, CallStates
    <3>2. serverState.status = "starting" /\ Finish(c)
          /\ serverState' = [status |-> "ready", port |-> calls[c].outcome]
      BY <2>2, <2>5 DEF ContinueReady, Current
    <3>3. Attempts' = Attempts
      BY <2>1, <2>3, <3>2 DEF Attempts
    <3> QED
      BY <3>1, <3>2, <3>3 DEF Readiness!Next, Readiness!Confirm, Readiness!Snapshot
  <2>6. CASE ContinueRetry(c)
    <3>1. /\ c = enableCycle /\ serverState' = serverState
          /\ Len(calls[c].tried) < MaxRetries
      BY <2>6 DEF ContinueRetry, Current
    <3>2. PICK p \in Ports : calls'[c].tried = Append(calls[c].tried, p)
      BY <1>0, <2>6, RetryStep
    <3>3. calls[c].tried \in Seq(Ports \cup {BadPort})
      BY <1>0 DEF TypeOK, CallStates
    <3>4. Len(calls'[c].tried) = Len(calls[c].tried) + 1
      BY <3>2, <3>3
    <3>5. Attempts = Len(calls[c].tried) /\ Attempts' = Len(calls[c].tried) + 1
      BY <2>1, <2>2, <3>1, <3>4 DEF Attempts
    <3> QED
      BY <2>2, <3>1, <3>5 DEF Readiness!Next, Readiness!Retry
  <2>7. CASE ContinueFailed(c)
    <3>1. /\ c = enableCycle /\ Finish(c)
          /\ serverState' = [status |-> "failed", port |-> NoPort]
          /\ Len(calls[c].tried) >= MaxRetries
      BY <2>7 DEF ContinueFailed, Current
    <3>2. Len(calls[c].tried) = MaxRetries
      <4>1. Len(calls[c].tried) \in Nat
        BY <1>0 DEF TypeOK, CallStates
      <4>2. Len(calls[c].tried) <= MaxRetries
        BY DEF RetriesFreshAndBounded
      <4> QED
        BY <3>1, <4>1, <4>2
    <3>3. Attempts' = Attempts /\ Attempts = MaxRetries
      BY <2>1, <2>2, <2>3, <3>1, <3>2 DEF Attempts
    <3> QED
      BY <2>2, <3>1, <3>3 DEF Readiness!Next, Readiness!GiveUp, Readiness!Snapshot
  <2> QED
    BY <1>3, <2>4, <2>5, <2>6, <2>7 DEF Continue
<1>4. ASSUME Settle
      PROVE  UNCHANGED Readiness!vars
  <2>1. serverState' = serverState /\ enableCycle' = enableCycle
    BY <1>4 DEF Settle
  <2>2. enableCycle \in Cycles => calls'[enableCycle].tried = calls[enableCycle].tried
    BY <1>0, <1>4, SettleFacts
  <2>3. serverState.status # "idle" => enableCycle \in Cycles
    BY <1>0 DEF Opened, TypeOK, Cycles
  <2> QED
    BY <2>1, <2>2, <2>3 DEF Attempts, Readiness!vars
<1>5. ASSUME UNCHANGED <<enableCycle, serverState, calls>>
      PROVE  UNCHANGED Readiness!vars
  BY <1>5 DEF Attempts, Readiness!vars
<1>6. \/ \E p \in Ports \cup {BadPort} : Enable(p)
      \/ \E cause \in {"none", "backgrounded"} : Disable(cause)
      \/ \E c \in Cycles : Continue(c)
      \/ Settle
      \/ UNCHANGED <<enableCycle, serverState, calls>>
  BY DEF Next, Machinery, NativeStep, NativeStop, NativeStart, MainQueueBind,
         manager, vars
<1> QED
  BY <1>1, <1>2, <1>3, <1>4, <1>5, <1>6 DEF Readiness!Next

\* Every behaviour of the lifecycle is one ServerReadiness allows: what getServerState
\* reports opens, retries and closes a cycle as the readiness API promises.
THEOREM ReadinessTheorem == Spec => Readiness!Init /\ [][Readiness!Next]_(Readiness!vars)
<1>1. Init => Readiness!Init
  BY ReadinessInit
<1>2. /\ TypeOK /\ Booked /\ RetriesFreshAndBounded /\ Opened /\ [Next]_vars
      => [Readiness!Next]_(Readiness!vars)
  BY ReadinessStep
<1>3. Init => Opened /\ Booked
  BY DEF Init, NoCall, Opened, Booked
<1>4. TypeOK /\ Opened /\ [Next]_vars => Opened'
  BY OpenedStep
<1>5. TypeOK /\ Booked /\ [Next]_vars => Booked'
  BY BookedStep
<1> QED
  BY <1>1, <1>2, <1>3, <1>4, <1>5, TypeCorrect, RetriesTheorem, PTL DEF Spec

-----------------------------------------------------------------------------
(***************************************************************************)
(* The provider and the bridge, composed.                                  *)
(***************************************************************************)
Base == ProviderTypeOK /\ QueuesOK /\ Booked

\* The last native call made is a stop: nothing is bound once all have run.
Down ==
    /\ mainQ = << >>
    /\ moduleQ = << >> => nativePort = NoPort
    /\ moduleQ # << >> => moduleQ[Len(moduleQ)].op = "stop"

Backgrounded == effect = "background" \/ (effect = "none" /\ mounted /\ ~foreground)

BackInv ==
    /\ effect = "enable" => foreground
    /\ effect = "background" => ~foreground
    /\ Backgrounded =>
          /\ serverState.status = "idle"
          /\ ~listener
          /\ Down
          /\ effect = "none" => stoppedByBackground

\* An enable finds the bridge stopped ...
Enabling ==
    effect = "enable" => ~isRunning /\ starting = NoStart /\ serverState.status # "starting"

\* ... so that its call awaits its own start, whose result, once it is there, is what
\* the native side has bound, and what BridgeServer says once JS has seen it.
Own(c) ==
    /\ calls[c].phase = "waiting" =>
          /\ listener
          /\ \A i \in 1..Len(results) :
                results[i].id = calls[c].start => results[i].port = nativePort
    /\ calls[c].phase = "settled" =>
          /\ listener
          /\ calls[c].start # NoStart
          /\ calls[c].outcome # NoPort =>
                /\ isRunning
                /\ boundPort = calls[c].outcome
                /\ nativePort = calls[c].outcome

OwnStart == \A c \in Cycles : c = enableCycle => Own(c)

ReadyInv == serverState.status = "ready" => Quiet /\ ReadyIsServed

ReleaseInv == IInv /\ Enabling /\ OwnStart /\ ReadyInv

-----------------------------------------------------------------------------
(* A step of the provider and the bridge *)

\* Only a re-render in dev mode reaches past the bridge's own operations.
LEMMA BridgeStep ==
    ASSUME [PNext]_pvars, ~(devMode /\ (AppStateChange \/ Rerender))
    PROVE  [Next]_vars
<1>1. CASE AppStateChange
  BY <1>1 DEF AppStateChange, ConstructAgain, manager, bridge, native, vars
<1>2. CASE Rerender
  BY <1>2 DEF Rerender
<1>3. CASE Unmount
  BY <1>3 DEF Unmount, manager, bridge, native, vars
<1>4. CASE Commit
  BY <1>4 DEF Commit, Cleanup, EffectForeground, EffectBackground, Next
<1>5. CASE PSettle \/ PContinue \/ PNative
  BY <1>5 DEF PSettle, PContinue, PNative, Next, Machinery
<1>6. CASE UNCHANGED pvars
  BY <1>6 DEF pvars, vars
<1> QED BY <1>1, <1>2, <1>3, <1>4, <1>5, <1>6 DEF PNext

\* What the discarded BridgeServer of a re-render does: at most one more stop.
LEMMA ConstructFacts ==
    ASSUME TypeOK, devMode, heldStatic \in BOOLEAN, ConstructAgain
    PROVE  /\ listener' = FALSE
           /\ isRunning' \in BOOLEAN
           /\ boundPort' \in Ports \cup {NoPort}
           /\ starting' \in StartIds \cup {NoStart}
           /\ heldStatic' \in BOOLEAN
           /\ moduleQ' \in Seq(Commands)
           /\ moduleQ' = Append(moduleQ, StopCmd)
<1>1. StopCmd \in Commands /\ moduleQ \in Seq(Commands)
  BY CommandFacts DEF TypeOK
<1>2. listener' = FALSE /\ heldStatic' = FALSE
  <2>1. << >> # << >> <=> FALSE
    OBVIOUS
  <2> QED BY <2>1 DEF ConstructAgain, BridgeStop, BridgeStopThen
<1>3. /\ isRunning' = FALSE \/ isRunning' = isRunning
      /\ boundPort' = NoPort \/ boundPort' = boundPort
      /\ starting' = NoStart \/ starting' = starting
      /\ \/ moduleQ' = moduleQ \o <<StopCmd>> \o << >>
         \/ moduleQ' = Append(moduleQ, StopCmd)
  BY DEF ConstructAgain, BridgeStop, BridgeStopThen, bridge
<1>4. moduleQ' = Append(moduleQ, StopCmd)
  BY <1>1, <1>3
<1>5. moduleQ' \in Seq(Commands)
  BY <1>1, <1>4
<1>6. isRunning' \in BOOLEAN
  BY <1>3 DEF TypeOK
<1> QED BY <1>2, <1>3, <1>4, <1>5, <1>6 DEF TypeOK

-----------------------------------------------------------------------------
(* Type correctness, and what the calls say of the published state *)

\* Every step of the provider keeps the types.
LEMMA ProviderTypes ==
    ASSUME ProviderTypeOK, QueuesOK, [PNext]_pvars
    PROVE  ProviderTypeOK'
<1>1. TypeOK /\ heldStatic \in BOOLEAN
  BY DEF ProviderTypeOK
<1>2. TypeOK'
  <2>1. CASE devMode /\ (AppStateChange \/ Rerender)
    <3>1. ConstructAgain /\ UNCHANGED <<manager, native>>
      BY <2>1 DEF AppStateChange, Rerender
    <3> QED BY <1>1, <2>1, <3>1, ConstructFacts DEF manager, native, TypeOK
  <2>2. CASE ~(devMode /\ (AppStateChange \/ Rerender))
    BY <1>1, <2>2, BridgeStep, TypeStep
  <2> QED BY <2>1, <2>2
<1>3. /\ devMode' \in BOOLEAN /\ mounted' \in BOOLEAN
      /\ foreground' \in BOOLEAN /\ heldStatic' \in BOOLEAN
  BY DEF ProviderTypeOK, PNext, AppStateChange, Rerender, Unmount, Commit, Cleanup,
         EffectForeground, EffectBackground, PSettle, PContinue, PNative, provider, pvars,
         ConstructAgain
<1>4. effect' \in Effects
  BY DEF ProviderTypeOK, PNext, AppStateChange, Rerender, Unmount, Commit, Cleanup,
         EffectForeground, EffectBackground, PSettle, PContinue, PNative, provider, pvars,
         Effects
<1> QED BY <1>2, <1>3, <1>4 DEF ProviderTypeOK

\* The main queue holds starts only, and nothing on Android.
LEMMA ProviderQueues ==
    ASSUME ProviderTypeOK, QueuesOK, [PNext]_pvars
    PROVE  QueuesOK'
<1>1. CASE devMode /\ (AppStateChange \/ Rerender)
  BY <1>1 DEF AppStateChange, Rerender, native, QueuesOK
<1>2. CASE ~(devMode /\ (AppStateChange \/ Rerender))
  BY <1>2, BridgeStep, QueuesStep DEF ProviderTypeOK
<1> QED BY <1>1, <1>2

\* The first render of a foreground app.
LEMMA BaseInit == PInit => Base
<1> SUFFICES ASSUME PInit PROVE Base
  OBVIOUS
<1>1. TypeOK /\ QueuesOK
  BY TypeInit DEF PInit, QueuesOK, Init
<1>2. devMode \in BOOLEAN
  BY DevModesAssumption DEF PInit
<1>3. /\ mounted \in BOOLEAN /\ foreground \in BOOLEAN /\ heldStatic \in BOOLEAN
      /\ effect \in Effects
  BY DEF PInit, Effects
<1>4. Booked
  BY DEF PInit, Init, NoCall, Booked
<1> QED BY <1>1, <1>2, <1>3, <1>4 DEF Base, ProviderTypeOK

\* Base is inductive.
LEMMA BaseStep == Base /\ [PNext]_pvars => Base'
<1> SUFFICES ASSUME Base, [PNext]_pvars PROVE Base'
  OBVIOUS
<1>1. ProviderTypeOK' /\ QueuesOK'
  BY ProviderTypes, ProviderQueues DEF Base
<1>2. Booked'
  <2>1. CASE devMode /\ (AppStateChange \/ Rerender)
    BY <2>1 DEF AppStateChange, Rerender, manager, Base, Booked
  <2>2. CASE ~(devMode /\ (AppStateChange \/ Rerender))
    BY <2>2, BridgeStep, BookedStep DEF Base, ProviderTypeOK
  <2> QED BY <2>1, <2>2
<1> QED BY <1>1, <1>2 DEF Base

\* Every variable of the provider and of the bridge keeps to its type, re-renders in
\* dev mode included (CacheManagerProvider).
THEOREM ProviderTypeTheorem == PSpec => []ProviderTypeOK
<1>1. Base => ProviderTypeOK
  BY DEF Base
<1> QED BY <1>1, BaseInit, BaseStep, PTL DEF PSpec

-----------------------------------------------------------------------------
(* An app in the background *)

\* A step of the bridge below a backgrounded provider undoes nothing.
LEMMA DownKept ==
    ASSUME Base, Platform = "android", Down, serverState.status = "idle", ~listener,
           Settle \/ NativeStep \/ \E c \in Cycles : Continue(c)
    PROVE  /\ Down'
           /\ serverState'.status = "idle"
           /\ ~listener'
           /\ stoppedByBackground' = stoppedByBackground
<1>0. TypeOK /\ QueuesOK
  BY DEF Base, ProviderTypeOK
<1>1. CASE Settle
  BY <1>1 DEF Settle, Down
<1>2. ASSUME NEW c \in Cycles, Continue(c)
      PROVE  UNCHANGED <<serverState, stoppedByBackground, listener, moduleQ, native>>
  <2>1. ~(c = enableCycle /\ calls[c].phase = "settled")
    BY DEF Base, Booked
  <2> QED BY <1>2, <2>1 DEF Continue, ContinueStale, ContinueReady, ContinueRetry,
                            ContinueFailed, Settled, Current
<1>3. ASSUME NEW c \in Cycles, Continue(c) PROVE Down' /\ ~listener'
  BY <1>2, <1>3 DEF Down, native
<1>4. CASE NativeStep
  <2>1. UNCHANGED <<manager, listener>> /\ moduleQ # << >> /\ moduleQ' = Tail(moduleQ)
    BY <1>0, <1>4 DEF NativeStep, NativeStop, NativeStart, MainQueueBind, QueuesOK
  <2>2. moduleQ \in Seq(Commands)
    BY <1>0 DEF TypeOK
  <2>3. /\ Len(Tail(moduleQ)) = Len(moduleQ) - 1 /\ Len(moduleQ) >= 1 /\ Len(moduleQ) \in Nat
        /\ \A i \in 1..Len(Tail(moduleQ)) : Tail(moduleQ)[i] = moduleQ[i+1]
        /\ Len(moduleQ) = 1 => Tail(moduleQ) = << >>
    BY <2>1, <2>2, TailFacts
  <2>4. Tail(moduleQ) \in Seq(Commands)
    BY <2>1, <2>2, HeadTailProperties
  <2>5. Tail(moduleQ) # << >> => Len(Tail(moduleQ)) # 0
    BY <2>4, EmptySeq
  <2>6. moduleQ' # << >> => moduleQ'[Len(moduleQ')].op = "stop"
    <3> SUFFICES ASSUME moduleQ' # << >> PROVE moduleQ'[Len(moduleQ')].op = "stop"
      OBVIOUS
    <3>1. Len(Tail(moduleQ)) \in 1..Len(Tail(moduleQ))
      BY <2>1, <2>3, <2>5
    <3>2. moduleQ'[Len(moduleQ')] = moduleQ[Len(moduleQ)]
      BY <2>1, <2>3, <3>1
    <3> QED BY <2>1, <3>2 DEF Down
  <2>7. CASE NativeStop
    BY <2>1, <2>6, <2>7 DEF NativeStop, Down, manager
  <2>8. CASE NativeStart
    <3>1. Len(moduleQ) # 1
      BY <2>1, <2>8 DEF NativeStart, Down
    <3>2. Tail(moduleQ) # << >>
      <4>1. Len(Tail(moduleQ)) # 0
        BY <2>3, <3>1
      <4>2. Len(<< >>) = 0
        OBVIOUS
      <4> QED BY <4>1, <4>2
    <3>3. UNCHANGED mainQ
      BY <2>8 DEF NativeStart
    <3> QED BY <2>1, <2>6, <3>2, <3>3 DEF Down, manager
  <2>9. ~MainQueueBind
    BY <1>0 DEF MainQueueBind, QueuesOK
  <2> QED BY <1>4, <2>7, <2>8, <2>9 DEF NativeStep
<1> QED BY <1>1, <1>2, <1>3, <1>4 DEF Settle

\* One more stop keeps the server down.
LEMMA StopKeepsDown ==
    ASSUME TypeOK, QueuesOK, Platform = "android",
           moduleQ' = Append(moduleQ, StopCmd), UNCHANGED mainQ
    PROVE  Down'
<1>1. StopCmd \in Commands /\ StopCmd.op = "stop" /\ moduleQ \in Seq(Commands)
  BY CommandFacts DEF TypeOK
<1>2. /\ Len(moduleQ') = Len(moduleQ) + 1
      /\ moduleQ' # << >>
      /\ moduleQ'[Len(moduleQ) + 1] = StopCmd
  BY <1>1, AppendFacts
<1> QED BY <1>1, <1>2 DEF Down, QueuesOK

\* BackInv is inductive on Android.
LEMMA BackStep ==
    ASSUME Platform = "android", Base, BackInv, [PNext]_pvars
    PROVE  BackInv'
<1>0. TypeOK /\ QueuesOK
  BY DEF Base, ProviderTypeOK
<1>1. CASE AppStateChange \/ Unmount
  BY <1>1 DEF AppStateChange, Unmount, BackInv, Backgrounded
<1>2. CASE Rerender
  <2>1. /\ ConstructAgain /\ devMode /\ heldStatic \in BOOLEAN
        /\ UNCHANGED <<manager, native, mounted, foreground, effect>>
    BY <1>2 DEF Rerender, Base, ProviderTypeOK
  <2>2. listener' = FALSE /\ moduleQ' = Append(moduleQ, StopCmd)
    BY <1>0, <2>1, ConstructFacts
  <2>3. Down'
    BY <1>0, <2>1, <2>2, StopKeepsDown DEF native
  <2> QED BY <2>1, <2>2, <2>3 DEF BackInv, Backgrounded, manager
<1>3. CASE Cleanup
  <2>1. Disable("none")
    BY <1>3 DEF Cleanup
  <2>2. /\ moduleQ' = Append(moduleQ, StopCmd) /\ ~listener'
        /\ serverState'.status = "idle" /\ UNCHANGED mainQ
    BY <1>0, <2>1, DisableFacts
  <2>3. Down'
    BY <1>0, <2>2, StopKeepsDown
  <2> QED BY <1>3, <2>2, <2>3 DEF Cleanup, BackInv, Backgrounded
<1>4. CASE EffectBackground
  <2>1. Disable("backgrounded")
    BY <1>4 DEF EffectBackground
  <2>2. /\ moduleQ' = Append(moduleQ, StopCmd) /\ ~listener'
        /\ serverState'.status = "idle" /\ UNCHANGED mainQ
        /\ stoppedByBackground'
    BY <1>0, <2>1, DisableFacts
  <2>3. Down'
    BY <1>0, <2>2, StopKeepsDown
  <2> QED BY <1>4, <2>2, <2>3 DEF EffectBackground, BackInv
<1>5. CASE EffectForeground
  BY <1>5 DEF EffectForeground, BackInv, Backgrounded
<1>6. CASE PSettle \/ PContinue \/ PNative
  <2>1. /\ Settle \/ NativeStep \/ \E c \in Cycles : Continue(c)
        /\ UNCHANGED provider
    BY <1>6 DEF PSettle, PContinue, PNative
  <2> QED BY <2>1, DownKept DEF BackInv, Backgrounded, provider
<1>7. CASE UNCHANGED pvars
  BY <1>7 DEF pvars, BackInv, Backgrounded, Down
<1> QED BY <1>1, <1>2, <1>3, <1>4, <1>5, <1>6, <1>7 DEF PNext, Commit

\* On Android an app in the background has neither a listener nor, once the native calls
\* made have run, a server, and the fallback names that cause, whatever the starts that
\* were in flight come to and however often a development build re-renders
\* (CacheManagerProvider's effect and its cleanup).  On iOS a start that a stop has
\* overtaken on the main queue may still bind.
THEOREM BackgroundTheorem ==
    ASSUME Platform = "android"
    PROVE  PSpec => []BackgroundIsStopped
<1>1. PInit => BackInv
  BY DEF PInit, BackInv, Backgrounded
<1>2. Base /\ BackInv /\ [PNext]_pvars => BackInv'
  BY BackStep
<1>3. BackInv => BackgroundIsStopped
  BY DEF BackInv, Backgrounded, Down, BackgroundIsStopped
<1> QED BY <1>1, <1>2, <1>3, BaseInit, BaseStep, PTL DEF PSpec

-----------------------------------------------------------------------------
(* A release build: 'ready' is a live proxy *)

\* Enabling as the provider does: the call of the new cycle awaits its own start.
LEMMA EnableOwn ==
    ASSUME ReleaseInv, NEW p \in Ports, Enable(p), ~isRunning, starting = NoStart
    PROVE  OwnStart' /\ ReadyInv'
<1>1. TypeOK /\ MadeInv
  BY DEF ReleaseInv, IInv
<1>2. enableCycle' \in Cycles /\ enableCycle' = enableCycle + 1 /\ enableCycle \in Nat
  BY <1>1, CycleAssumption DEF Enable, TypeOK, Cycles
<1>3. ListenStart(enableCycle', p, <<p>>)
  BY PortsAssumption DEF Enable, Listen, ListenRunning, ListenJoin, ListenRefused
<1>4. listener' /\ calls'[enableCycle'] = Awaiting(<<enableCycle', 1>>, <<p>>)
  BY <1>1, <1>2, <1>3 DEF ListenStart, TypeOK
<1>5. \A i \in 1..Len(results) : results[i].id # <<enableCycle', 1>>
  BY <1>1, <1>2 DEF MadeInv, Made
<1>6. results' = results
  BY DEF Enable, native
<1>7. OwnStart'
  BY <1>2, <1>4, <1>5, <1>6 DEF OwnStart, Own, Awaiting
<1>8. serverState'.status = "starting"
  BY DEF Enable
<1> QED BY <1>7, <1>8 DEF ReadyInv

\* Disabling closes the cycle: the new one has no call.
LEMMA DisableOwn ==
    ASSUME ReleaseInv, NEW cause, Disable(cause)
    PROVE  OwnStart' /\ ReadyInv'
<1>1. TypeOK /\ CallsInv
  BY DEF ReleaseInv, IInv
<1>2. /\ enableCycle' = enableCycle + 1 /\ serverState'.status = "idle"
      /\ calls' = calls /\ enableCycle \in Nat
  BY <1>1, DisableFacts DEF TypeOK
<1>3. \A c \in Cycles : c = enableCycle' => calls'[c] = NoCall
  BY <1>1, <1>2 DEF CallsInv, Cycles
<1> QED BY <1>2, <1>3 DEF OwnStart, Own, ReadyInv, NoCall

\* A result reaches JS with what the native side has bound.
LEMMA SettleOwn ==
    ASSUME ReleaseInv, Settle
    PROVE  OwnStart' /\ ReadyInv'
<1>1. TypeOK /\ AwaitedIsLast
  BY DEF ReleaseInv, IInv
<1>2. /\ results \in Seq(Results) /\ results # << >> /\ results' = Tail(results)
      /\ UNCHANGED <<enableCycle, serverState, listener, nativePort>>
  BY <1>1 DEF Settle, TypeOK
<1>3. /\ 1 \in 1..Len(results)
      /\ \A i \in 1..Len(results') : results'[i] = results[i+1] /\ i+1 \in 1..Len(results)
  BY <1>2, TailFacts
<1>4. ReadyInv'
  BY <1>2 DEF ReleaseInv, ReadyInv, Quiet
<1>5. ASSUME NEW c \in Cycles, c = enableCycle,
             calls[c].phase = "waiting", calls[c].start = Head(results).id
      PROVE  /\ calls'[c] = [calls[c] EXCEPT !.phase = "settled", !.outcome = Head(results).port]
             /\ listener /\ Head(results).port = nativePort
             /\ Head(results).port # NoPort =>
                   isRunning' /\ boundPort' = Head(results).port
  <2>1. calls'[c] = [calls[c] EXCEPT !.phase = "settled", !.outcome = Head(results).port]
    BY <1>5 DEF Settle
  <2>2. results[1].id = calls[c].start /\ Head(results) = results[1]
    BY <1>2, <1>5
  <2>3. listener /\ results[1].port = nativePort
    BY <1>3, <1>5, <2>2 DEF ReleaseInv, OwnStart, Own
  <2> QED BY <2>1, <2>2, <2>3 DEF Settle
<1>6. ASSUME NEW c \in Cycles, c = enableCycle,
             ~(calls[c].phase = "waiting" /\ calls[c].start = Head(results).id)
      PROVE  calls'[c] = calls[c] /\ calls[c].phase # "settled"
  BY <1>6 DEF Settle, Settled
<1>7. ASSUME NEW c \in Cycles, c = enableCycle, calls[c].phase = "waiting"
      PROVE  calls[c].start # NoStart /\ calls[c] \in CallStates
  BY <1>1, <1>7 DEF ReleaseInv, IInv, CallsInv, TypeOK
<1>8. ASSUME NEW c \in Cycles, c = enableCycle' PROVE Own(c)'
  <2>1. CASE calls[c].phase = "waiting" /\ calls[c].start = Head(results).id
    <3>1. c = enableCycle
      BY <1>2, <1>8
    <3>2. calls[c].start # NoStart /\ calls[c] \in CallStates
      BY <1>7, <2>1, <3>1
    <3>3. /\ calls'[c] = [calls[c] EXCEPT !.phase = "settled", !.outcome = Head(results).port]
          /\ listener /\ Head(results).port = nativePort
          /\ Head(results).port # NoPort =>
                isRunning' /\ boundPort' = Head(results).port
      BY <1>5, <2>1, <3>1
    <3>4. /\ calls'[c].phase = "settled" /\ calls'[c].start = calls[c].start
          /\ calls'[c].outcome = Head(results).port
      BY <3>2, <3>3 DEF CallStates
    <3> QED BY <1>2, <3>2, <3>3, <3>4 DEF Own
  <2>2. CASE ~(calls[c].phase = "waiting" /\ calls[c].start = Head(results).id)
    <3>1. c = enableCycle
      BY <1>2, <1>8
    <3>2. calls'[c] = calls[c] /\ calls[c].phase # "settled" /\ Own(c)
      BY <1>6, <2>2, <3>1 DEF ReleaseInv, OwnStart
    <3> QED BY <1>2, <1>3, <3>2 DEF Own
  <2> QED BY <2>1, <2>2
<1> QED BY <1>4, <1>8 DEF OwnStart

\* Only the call of the latest cycle publishes, and what it publishes is bound.
LEMMA ContinueOwn ==
    ASSUME ReleaseInv, NEW c \in Cycles, Continue(c)
    PROVE  OwnStart' /\ ReadyInv'
<1>0. /\ TypeOK /\ SettledIsQuiet /\ CallsInv
  BY DEF ReleaseInv, IInv
<1>1. /\ calls[c].phase = "settled" /\ enableCycle' = enableCycle /\ calls[c] \in CallStates
      /\ \A d \in Cycles : d # c => calls'[d] = calls[d]
  BY <1>0 DEF Continue, ContinueStale, ContinueReady, ContinueRetry, ContinueFailed,
              Settled, Finish, TypeOK
<1>2. CASE ContinueStale(c)
  <2>1. /\ c # enableCycle
        /\ UNCHANGED <<serverState, isRunning, boundPort, listener, results, mainQ, moduleQ,
                       nativePort>>
    BY <1>2 DEF ContinueStale, Current, bridge, native
  <2>2. \A d \in Cycles : d = enableCycle' => Own(d)'
    BY <1>1, <2>1 DEF ReleaseInv, OwnStart, Own
  <2> QED BY <2>1, <2>2 DEF OwnStart, ReadyInv, ReleaseInv, Quiet, ReadyIsServed
<1>3. CASE ContinueReady(c)
  <2>1. c = enableCycle /\ calls[c].outcome # NoPort
    BY <1>3 DEF ContinueReady, Current
  <2>2. Own(c) /\ Quiet
    BY <1>0, <1>1, <2>1 DEF ReleaseInv, OwnStart, Own, SettledIsQuiet
  <2>3. calls'[c].phase = "done"
    BY <1>0, <1>3 DEF ContinueReady, Finish, TypeOK, CallStates
  <2>4. /\ serverState' = [status |-> "ready", port |-> calls[c].outcome]
        /\ UNCHANGED <<isRunning, boundPort, listener, moduleQ, mainQ, results, nativePort>>
    BY <1>3 DEF ContinueReady, bridge, native
  <2>5. serverState'.port = calls[c].outcome
    BY <2>4
  <2>6. ReadyIsServed' /\ Quiet'
    BY <1>1, <2>1, <2>2, <2>4, <2>5 DEF Own, Quiet, ReadyIsServed
  <2>7. \A d \in Cycles : d = enableCycle' => Own(d)'
    BY <1>1, <2>1, <2>3 DEF Own
  <2> QED BY <2>6, <2>7 DEF OwnStart, ReadyInv
<1>4. CASE ContinueRetry(c)
  <2>1. c = enableCycle /\ Quiet /\ serverState' = serverState /\ results' = results
    BY <1>0, <1>1, <1>4 DEF ContinueRetry, Current, ReleaseInv, OwnStart, Own,
                            SettledIsQuiet, native
  <2>2. PICK p \in FreshPorts(calls[c].tried) :
           LET tried == Append(calls[c].tried, p)
               id    == <<c, Len(tried)>>
           IN  /\ BridgeStopThen(<<StartCmd(id, p)>>)
               /\ calls' = [calls EXCEPT ![c] = Awaiting(id, tried)]
    BY <1>4 DEF ContinueRetry
  <2> DEFINE tried == Append(calls[c].tried, p)
             id    == <<c, Len(tried)>>
  <2>3. listener' /\ calls'[c] = Awaiting(id, tried)
    BY <1>0, <2>2 DEF BridgeStopThen, TypeOK
  <2>4. Len(results') = 0
    BY <2>1 DEF Quiet
  <2>5. \A d \in Cycles : d = enableCycle' => Own(d)'
    BY <1>1, <2>1, <2>3, <2>4 DEF Own, Awaiting
  <2>6. serverState.status # "ready"
    BY <1>0, <1>1, <2>1 DEF CallsInv
  <2> QED BY <2>1, <2>5, <2>6 DEF OwnStart, ReadyInv
<1>5. CASE ContinueFailed(c)
  <2>1. /\ c = enableCycle /\ serverState'.status = "failed"
        /\ calls'[c].phase = "done"
    BY <1>0, <1>5 DEF ContinueFailed, Current, Finish, TypeOK, CallStates
  <2>2. \A d \in Cycles : d = enableCycle' => Own(d)'
    BY <1>1, <2>1 DEF Own
  <2> QED BY <2>1, <2>2 DEF OwnStart, ReadyInv
<1> QED BY <1>2, <1>3, <1>4, <1>5 DEF Continue

\* While a result of the awaited start is on its way, nothing else is.
LEMMA NativeOwn ==
    ASSUME ReleaseInv, NativeStep
    PROVE  OwnStart' /\ ReadyInv'
<1>0. TypeOK /\ QueuesOK /\ AwaitedIsLast /\ SettledIsQuiet
  BY DEF ReleaseInv, IInv
<1>1. UNCHANGED <<enableCycle, serverState, calls, isRunning, boundPort, listener>>
  BY DEF NativeStep, NativeStop, NativeStart, MainQueueBind, manager, bridge
<1>2. moduleQ # << >> \/ mainQ # << >>
  BY DEF NativeStep, NativeStop, NativeStart, MainQueueBind
<1>3. ReadyInv'
  BY <1>1, <1>2 DEF ReleaseInv, ReadyInv, Quiet
<1>4. results \in Seq(Results) /\ moduleQ \in Seq(Commands) /\ mainQ \in Seq(Commands)
  BY <1>0 DEF TypeOK
<1>5. \/ UNCHANGED <<results, nativePort>>
      \/ UNCHANGED results /\ moduleQ # << >>
      \/ \E id \in StartIds, p \in Ports \cup {NoPort} :
            /\ results' = Append(results, [id |-> id, port |-> p])
            /\ nativePort' = p
  <2>1. moduleQ # << >> => moduleQ[1] \in Commands
    BY <1>4, EmptySeq
  <2>2. mainQ # << >> => mainQ[1] \in Commands /\ mainQ[1].op = "start"
    BY <1>0, <1>4, TailFacts DEF QueuesOK
  <2>3. ASSUME NEW cmd \in Commands, cmd.op = "start", NEW p \in {cmd.port, NoPort}
        PROVE  cmd.id \in StartIds /\ p \in Ports \cup {NoPort}
    BY <2>3, CommandFacts
  <2>4. \/ UNCHANGED <<results, nativePort>>
        \/ UNCHANGED results /\ moduleQ # << >>
        \/ \E cmd \in {moduleQ[1], mainQ[1]} :
              /\ cmd \in Commands /\ cmd.op = "start"
              /\ \E p \in {cmd.port, NoPort} :
                    /\ nativePort' = p
                    /\ results' = Append(results, [id |-> cmd.id, port |-> p])
    <3>1. CASE NativeStop
      BY <3>1 DEF NativeStop
    <3>2. CASE NativeStart
      BY <1>4, <2>1, <3>2 DEF NativeStart, Bind
    <3>3. CASE MainQueueBind
      BY <1>4, <2>2, <3>3 DEF MainQueueBind, Bind
    <3> QED BY <3>1, <3>2, <3>3 DEF NativeStep
  <2> QED BY <2>3, <2>4
<1>6. ASSUME NEW c \in Cycles, c = enableCycle, calls[c].phase = "settled" PROVE FALSE
  BY <1>0, <1>2, <1>6 DEF ReleaseInv, OwnStart, Own, SettledIsQuiet, Quiet
<1>7. ASSUME NEW c \in Cycles, c = enableCycle, calls[c].phase = "waiting",
             NEW i \in 1..Len(results)
      PROVE  results[i].id # calls[c].start
  BY <1>0, <1>2, <1>7 DEF AwaitedIsLast, NothingAfter
<1>8. ASSUME NEW c \in Cycles, c = enableCycle, calls[c].phase = "waiting",
             NEW i \in 1..Len(results'), results'[i].id = calls[c].start
      PROVE  results'[i].port = nativePort'
  <2>1. CASE UNCHANGED results
    BY <1>7, <1>8, <2>1
  <2>2. ASSUME NEW id \in StartIds, NEW p \in Ports \cup {NoPort},
               results' = Append(results, [id |-> id, port |-> p]), nativePort' = p
        PROVE  results'[i].port = nativePort'
    <3>1. [id |-> id, port |-> p] \in Results
      BY DEF Results
    <3>2. /\ Len(results') = Len(results) + 1 /\ Len(results) \in Nat
          /\ \A j \in 1..Len(results) : results'[j] = results[j]
          /\ results'[Len(results) + 1] = [id |-> id, port |-> p]
      BY <1>4, <2>2, <3>1, AppendFacts
    <3>3. i \notin 1..Len(results)
      BY <1>7, <1>8, <3>2
    <3>4. i = Len(results) + 1
      BY <1>8, <3>2, <3>3
    <3> QED BY <2>2, <3>2, <3>4
  <2> QED BY <1>5, <2>1, <2>2
<1>9. OwnStart'
  BY <1>1, <1>6, <1>8 DEF ReleaseInv, OwnStart, Own
<1> QED BY <1>3, <1>9

\* The first effect finds the bridge stopped.
LEMMA ReleaseInit == PInit => ReleaseInv
<1> SUFFICES ASSUME PInit PROVE ReleaseInv
  OBVIOUS
<1>1. Init /\ effect = "enable"
  BY DEF PInit
<1>2. IInv
  BY <1>1, IInvInit
<1> QED BY <1>1, <1>2 DEF ReleaseInv, Init, Enabling, OwnStart, Cycles, ReadyInv

\* Effects that are not due leave Enabling with nothing to say.
LEMMA EnablingStep ==
    ASSUME ReleaseInv, Base, ~devMode, [PNext]_pvars
    PROVE  Enabling'
<1>1. CASE Cleanup
  BY <1>1, DisableFacts DEF Cleanup, Enabling, Base, ProviderTypeOK
<1>2. CASE AppStateChange \/ Unmount \/ EffectForeground \/ EffectBackground
  BY <1>2 DEF AppStateChange, Unmount, EffectForeground, EffectBackground, Enabling
<1>3. CASE Rerender
  BY <1>3 DEF Rerender
<1>4. CASE PSettle
  BY <1>4 DEF PSettle, provider, Enabling
<1>5. ASSUME NEW c \in Cycles, Continue(c), UNCHANGED provider PROVE Enabling'
  <2>1. ~(c = enableCycle /\ effect = "enable" /\ calls[c].phase = "settled")
    BY DEF ReleaseInv, Enabling, Base, Booked
  <2> QED BY <1>5, <2>1 DEF Continue, ContinueStale, ContinueReady, ContinueRetry,
             ContinueFailed, Settled, Current, bridge, provider, Enabling, ReleaseInv
<1>6. CASE PNative
  BY <1>6 DEF PNative, NativeStep, NativeStop, NativeStart, MainQueueBind, manager, bridge,
              provider, Enabling, ReleaseInv
<1>7. CASE UNCHANGED pvars
  BY <1>7 DEF pvars, Enabling, ReleaseInv
<1> QED BY <1>1, <1>2, <1>3, <1>4, <1>5, <1>6, <1>7 DEF PNext, Commit, PContinue

\* ReleaseInv is inductive outside dev mode.
LEMMA ReleaseStep ==
    ASSUME MaxRetries > 1, ReleaseInv, Base, ~devMode, [PNext]_pvars
    PROVE  ReleaseInv'
<1>1. IInv'
  BY BridgeStep, IInvStep DEF ReleaseInv
<1>2. OwnStart' /\ ReadyInv'
  <2>1. CASE EffectForeground
    <3>1. PICK p \in Ports : Enable(p)
      BY <2>1 DEF EffectForeground
    <3> QED BY <2>1, <3>1, EnableOwn DEF EffectForeground, ReleaseInv, Enabling
  <2>2. CASE Cleanup \/ EffectBackground
    BY <2>2, DisableOwn DEF Cleanup, EffectBackground
  <2>3. CASE PSettle \/ PContinue \/ PNative
    BY <2>3, SettleOwn, ContinueOwn, NativeOwn DEF PSettle, PContinue, PNative
  <2>4. CASE AppStateChange \/ Rerender \/ Unmount \/ UNCHANGED pvars
    <3>1. UNCHANGED vars
      BY <2>4 DEF AppStateChange, Rerender, Unmount, ConstructAgain, pvars, vars, manager,
                  bridge, native
    <3> QED BY <3>1 DEF vars, ReleaseInv, OwnStart, Own, ReadyInv, Quiet, ReadyIsServed
  <2> QED BY <2>1, <2>2, <2>3, <2>4 DEF PNext, Commit
<1>3. Enabling'
  BY EnablingStep
<1> QED BY <1>1, <1>2, <1>3 DEF ReleaseInv

\* ReleaseInv holds in every reachable state of a release build.
LEMMA ReleaseCorrect ==
    ASSUME MaxRetries > 1
    PROVE  PSpec => [](~devMode => ReleaseInv)
<1> DEFINE Inv == Base /\ (~devMode => ReleaseInv)
<1>1. PInit => Inv
  BY BaseInit, ReleaseInit
<1>2. Inv /\ [PNext]_pvars => Inv'
  <2>1. [PNext]_pvars => devMode' = devMode
    BY DEF PNext, AppStateChange, Rerender, Unmount, Commit, Cleanup, EffectForeground,
           EffectBackground, PSettle, PContinue, PNative, provider, pvars
  <2> QED BY <2>1, BaseStep, ReleaseStep
<1> QED BY <1>1, <1>2, PTL DEF PSpec

\* Outside dev mode 'ready' is a live proxy on either platform: BridgeServer agrees on
\* the port, JS listens for requests and the native server is bound there, whatever the
\* app state does to starts in flight (CacheManagerProvider's effect disables before it
\* enables).  FailedTheorem says why more than one attempt is assumed.
THEOREM ReleaseTheorem ==
    ASSUME MaxRetries > 1
    PROVE  PSpec => []ReleaseReadyIsServed
<1>1. (~devMode => ReleaseInv) => ReleaseReadyIsServed
  BY DEF ReleaseInv, ReadyInv, ReadyIsServed, ReleaseReadyIsServed
<1> QED BY <1>1, ReleaseCorrect, PTL

-----------------------------------------------------------------------------
(* What the bridge guarantees goes on holding under the provider *)

\* A dev-mode re-render touches neither the store nor the calls.
LEMMA ProviderMoves ==
    ASSUME [PNext]_pvars
    PROVE  [Next]_vars \/ UNCHANGED <<enableCycle, serverState, calls>>
<1>1. CASE devMode /\ (AppStateChange \/ Rerender)
  BY <1>1 DEF AppStateChange, Rerender, manager
<1>2. CASE ~(devMode /\ (AppStateChange \/ Rerender))
  BY <1>2, BridgeStep
<1> QED BY <1>1, <1>2

\* What the readiness of the bridge rests on, under the provider.
Kept == Base /\ Opened /\ RetriesFreshAndBounded

\* Kept is inductive in either kind of build.
LEMMA KeptCorrect == PSpec => []Kept
<1>1. PInit => Kept
  <2>1. PInit => Opened /\ RetriesFreshAndBounded
    BY DEF PInit, Init, NoCall, Opened, RetriesFreshAndBounded
  <2> QED BY <2>1, BaseInit DEF Kept
<1>2. Kept /\ [PNext]_pvars => Kept'
  <2> SUFFICES ASSUME Kept, [PNext]_pvars PROVE Kept'
    OBVIOUS
  <2>1. Base' /\ TypeOK
    BY BaseStep DEF Kept, Base, ProviderTypeOK
  <2>2. CASE [Next]_vars
    BY <2>1, <2>2, OpenedStep, RetriesStep DEF Kept
  <2>3. CASE UNCHANGED <<enableCycle, serverState, calls>>
    BY <2>1, <2>3 DEF Kept, Opened, RetriesFreshAndBounded
  <2> QED BY <2>2, <2>3, ProviderMoves
<1> QED BY <1>1, <1>2, PTL DEF PSpec

\* Flapping app states, unmounts and dev-mode re-renders included, an enable cycle asks for
\* at most MAX_START_RETRIES starts, each on a port of its own (enableBridgeServer).
THEOREM ProviderRetriesTheorem == PSpec => []RetriesFreshAndBounded
<1>1. Kept => RetriesFreshAndBounded
  BY DEF Kept
<1> QED BY <1>1, KeptCorrect, PTL

\* The outcome of a start that the provider has superseded is never published: on either
\* platform, in either kind of build (the generation check of enableBridgeServer).
THEOREM ProviderStaleTheorem == PSpec => StaleNeverPublishes
<1>1. Kept /\ [PNext]_pvars =>
        [ (serverState' # serverState /\ enableCycle' = enableCycle) =>
              /\ enableCycle > 0
              /\ calls[enableCycle].phase = "settled"
              /\ calls'[enableCycle].phase = "done" ]_vars
  BY ProviderMoves, StaleStep DEF Kept, Base, ProviderTypeOK
<1> QED BY <1>1, KeptCorrect, PTL DEF PSpec, StaleNeverPublishes

\* The provider and the bridge together implement ServerReadiness: what a component of the
\* application reads from getServerState under CacheManagerProvider is a history that the
\* readiness API allows, in dev mode too.
THEOREM ProviderReadinessTheorem ==
    PSpec => Readiness!Init /\ [][Readiness!Next]_(Readiness!vars)
<1>1. PInit => Readiness!Init
  BY ReadinessInit DEF PInit
<1>2. Kept /\ [PNext]_pvars => [Readiness!Next]_(Readiness!vars)
  <2> SUFFICES ASSUME Kept, [PNext]_pvars PROVE [Readiness!Next]_(Readiness!vars)
    OBVIOUS
  <2>1. CASE [Next]_vars
    BY <2>1, ReadinessStep DEF Kept, Base, ProviderTypeOK
  <2>2. CASE UNCHANGED <<enableCycle, serverState, calls>>
    BY <2>2 DEF Attempts, Readiness!vars
  <2> QED BY <2>1, <2>2, ProviderMoves
<1> QED BY <1>1, <1>2, KeptCorrect, PTL DEF PSpec

\* Outside dev mode a failed cycle leaves nothing behind, whatever the app state does
\* (enableBridgeServer's exit from its loop, under CacheManagerProvider).
THEOREM ReleaseFailedTheorem ==
    ASSUME MaxRetries > 1
    PROVE  PSpec => [](~devMode => FailedIsStopped)
<1>1. (~devMode => ReleaseInv) => (~devMode => FailedIsStopped)
  BY DEF ReleaseInv, IInv, FailedInv, FailedIsStopped
<1> QED BY <1>1, ReleaseCorrect, PTL
=============================================================================
