--------------------------- MODULE RequestDispatch ---------------------------
(***************************************************************************)
(* A player's request on its way through the bridge: the native server     *)
(* emits an event, BridgeServer's listener runs the registered callbacks,  *)
(* their handlers answer sooner or later, and respond() hands the answer   *)
(* to the native side, while the application enables and disables the      *)
(* server.                                                                 *)
(*                                                                         *)
(* Native calls of JS run one after the other; on iOS start is dispatched  *)
(* to the main queue.  A start succeeds, and its late result changes       *)
(* nothing (failures, retries and late results: BridgeLifecycle); a        *)
(* handler run answers once (AssetCache); request ids are distinct.        *)
(***************************************************************************)
EXTENDS Naturals, Sequences, FiniteSets

CONSTANTS
    Requests,     \* requests of players
    Start, Stop,  \* (values) the native calls besides the answers to requests
    MaxEnables,   \* bound: calls of enableBridgeServer
    MaxDisables   \* bound: calls of disableBridgeServer

ASSUME CommandsAssumption == Start # Stop /\ Start \notin Requests /\ Stop \notin Requests
ASSUME BoundsAssumption == MaxEnables \in Nat /\ MaxDisables \in Nat

VARIABLES
    platform,     \* where the program runs
    \* JS
    enables, disables,  \* calls so far; every enable adds one callback
    on,           \* the bridge is running or starting
    listening,    \* a listener is subscribed to the request event
    pending,      \* request -> handler runs still to answer it
    \* between JS and native
    commands,     \* native calls not yet run
    starts,       \* iOS: starts dispatched to the main queue
    events,       \* requests whose event is not yet delivered
    \* native
    server,       \* instance of the running server, 0 if none
    instances,    \* servers started so far
    conn,         \* request -> its connection
    method,       \* request -> its HTTP method
    waiter,       \* requests with a serve() thread (Android), a completion block (iOS)
    home,         \* request -> the instance that took it
    responses,    \* Android: answers in the running server's map
    lost          \* (history) iOS: requests that a stop, or an event nobody heard, has cut off

js == <<enables, disables, on, listening, pending>>
channel == <<commands, starts, events>>
native == <<server, instances, conn, method, waiter, home, responses>>
vars == <<platform, js, channel, native, lost>>

-----------------------------------------------------------------------------
Callbacks == enables
Commands == Requests \union {Start, Stop}
Connections == {"none", "open", "answered", "reset"}
Methods == {"GET", "POST"}      \* POST stands for every other method

Init ==
    /\ platform \in {"android", "ios"}
    /\ enables = 0 /\ disables = 0 /\ on = FALSE /\ listening = FALSE
    /\ pending = [r \in Requests |-> 0]
    /\ commands = <<>> /\ starts = 0 /\ events = {}
    /\ server = 0 /\ instances = 0
    /\ conn = [r \in Requests |-> "none"] /\ method \in [Requests -> Methods]
    /\ waiter = {} /\ home = [r \in Requests |-> 0] /\ responses = {}
    /\ lost = {}

-----------------------------------------------------------------------------
(***************************************************************************)
(* JS: enabling and disabling.                                             *)
(***************************************************************************)

\* addRequestHandlers adds a callback; listen subscribes and starts, unless it runs already.
Enable ==
    /\ enables < MaxEnables
    /\ enables' = enables + 1
    /\ on' = TRUE /\ listening' = TRUE
    /\ commands' = IF on THEN commands ELSE Append(commands, Start)
    /\ UNCHANGED <<platform, disables, pending, starts, events, native, lost>>

\* (mutated) A bridge that is stopped removes its listeners and leaves the native server.
DisableListeners ==
    /\ disables < MaxDisables
    /\ disables' = disables + 1
    /\ on' = FALSE /\ listening' = FALSE
    /\ UNCHANGED <<platform, enables, pending, channel, native, lost>>

\* BridgeServer.stop: the native server is stopped, the listeners are removed, the callbacks
\* stay.
Disable ==
    /\ disables < MaxDisables
    /\ disables' = disables + 1
    /\ on' = FALSE /\ listening' = FALSE
    /\ commands' = Append(commands, Stop)
    /\ UNCHANGED <<platform, enables, pending, starts, events, native, lost>>

-----------------------------------------------------------------------------
(***************************************************************************)
(* The native module.                                                      *)
(***************************************************************************)
Waiting(i) == {r \in waiter : home[r] = i}

\* NanoHTTPD closes the connections of a server that stops; its serve() threads go on
\* spinning on a map that nothing fills any more.
AndroidStop ==
    /\ conn' = [r \in Requests |-> IF r \in Waiting(server) /\ server # 0 THEN "reset" ELSE conn[r]]
    /\ responses' = {}
    /\ UNCHANGED <<waiter, lost>>

\* GCDWebServer leaves connections open; their completion blocks are dropped, not called.
IosStop ==
    /\ waiter' = IF server = 0 THEN waiter ELSE {}
    /\ lost' = IF server = 0 THEN lost ELSE lost \union waiter
    /\ UNCHANGED <<conn, responses>>

NativeStop ==
    /\ commands # <<>> /\ Head(commands) = Stop
    /\ commands' = Tail(commands)
    /\ server' = 0
    /\ IF platform = "android" THEN AndroidStop ELSE IosStop
    /\ UNCHANGED <<platform, js, starts, events, instances, method, home>>

\* A start replaces a server that is still there; on iOS its completion blocks stay.
NewServer == instances' = instances + 1 /\ server' = instances + 1

AndroidStart ==
    /\ platform = "android"
    /\ commands # <<>> /\ Head(commands) = Start
    /\ commands' = Tail(commands)
    /\ NewServer
    /\ AndroidStop
    /\ UNCHANGED <<platform, js, starts, events, method, home>>

IosDispatchStart ==
    /\ platform = "ios"
    /\ commands # <<>> /\ Head(commands) = Start
    /\ commands' = Tail(commands)
    /\ starts' = starts + 1
    /\ UNCHANGED <<platform, js, events, native, lost>>

IosStart ==
    /\ starts > 0
    /\ starts' = starts - 1
    /\ NewServer
    /\ UNCHANGED <<platform, js, commands, events, conn, method, waiter, home, responses, lost>>

\* (mutated) respond() gives up on a body that does not decode.
AndroidRespondOrNot ==
    /\ platform = "android"
    /\ commands # <<>> /\ Head(commands) \in Requests
    /\ commands' = Tail(commands)
    /\ responses' \in {responses, responses \union {Head(commands)}}
    /\ UNCHANGED <<platform, js, starts, events, server, instances, conn, method, waiter, home, lost>>

\* respond() stores an answer whatever happens - an error page if need be - with the server
\* that runs now.
AndroidRespond ==
    /\ platform = "android"
    /\ commands # <<>> /\ Head(commands) \in Requests
    /\ commands' = Tail(commands)
    /\ responses' = IF server = 0 THEN responses ELSE responses \union {Head(commands)}
    /\ UNCHANGED <<platform, js, starts, events, server, instances, conn, method, waiter, home, lost>>

\* The first answer completes the request, others find no completion block.
IosRespond ==
    /\ platform = "ios"
    /\ commands # <<>> /\ Head(commands) \in Requests
    /\ commands' = Tail(commands)
    /\ LET r == Head(commands)
       IN  /\ waiter' = waiter \ {r}
           /\ conn' = IF r \in waiter THEN [conn EXCEPT ![r] = "answered"] ELSE conn
    /\ UNCHANGED <<platform, js, starts, events, server, instances, method, home, responses, lost>>

\* A player's request; on Android only a GET is forwarded.
Arrive(r) ==
    /\ server # 0 /\ conn[r] = "none"
    /\ conn' = [conn EXCEPT ![r] = "open"]
    /\ waiter' = waiter \union {r}
    /\ home' = [home EXCEPT ![r] = server]
    /\ events' = IF platform = "ios" \/ method[r] = "GET" THEN events \union {r} ELSE events
    /\ UNCHANGED <<platform, js, commands, starts, server, instances, method, responses, lost>>

\* Android: a GET whose headers or parameters cannot be put in a map is answered at once, 500.
Refuse(r) ==
    /\ platform = "android" /\ server # 0
    /\ method[r] = "GET" /\ conn[r] = "none"
    /\ conn' = [conn EXCEPT ![r] = "answered"]
    /\ UNCHANGED <<platform, js, channel, server, instances, method, home, waiter, responses, lost>>

\* Android: serve() looks again, and takes the answer out of its server's map.
Serve(r) ==
    /\ r \in waiter \intersect responses /\ home[r] = server
    /\ conn' = [conn EXCEPT ![r] = "answered"]
    /\ waiter' = waiter \ {r}
    /\ responses' = responses \ {r}
    /\ UNCHANGED <<platform, js, channel, server, instances, method, home, lost>>

-----------------------------------------------------------------------------
(***************************************************************************)
(* JS: the listener and the handlers.                                      *)
(***************************************************************************)

\* (mutated) The handlers of a request are run once more by a stale listener.
DeliverTwice(r) ==
    /\ r \in events
    /\ events' = events \ {r}
    /\ listening
    /\ pending' = [pending EXCEPT ![r] = IF method[r] = "GET" THEN 2 * Callbacks ELSE 0]
    /\ UNCHANGED <<platform, enables, disables, on, listening, commands, starts, native, lost>>

\* The listener runs the callbacks that match the method.  None is awaited until it has
\* answered, so that all of them start a handler, each with a Response of its own; only a
\* request with a malformed origin is answered at once, and once.  Nobody listening, the
\* event is gone.
Deliver(r) ==
    /\ r \in events
    /\ events' = events \ {r}
    /\ \/ /\ listening
          /\ pending' = [pending EXCEPT ![r] = IF method[r] = "GET" THEN Callbacks ELSE 0]
          /\ UNCHANGED <<commands, lost>>
       \/ /\ listening /\ method[r] = "GET"
          /\ commands' = Append(commands, r)
          /\ UNCHANGED <<pending, lost>>
       \/ /\ ~listening
          /\ lost' = IF platform = "ios" THEN lost \union {r} ELSE lost
          /\ UNCHANGED <<commands, pending>>
    /\ UNCHANGED <<platform, enables, disables, on, listening, starts, native>>

\* (mutated) A handler run answers more than once.
SendAgain(r) ==
    /\ conn[r] = "open" /\ listening
    /\ pending' = [pending EXCEPT ![r] = @ - 1]
    /\ commands' = Append(commands, r)
    /\ UNCHANGED <<platform, enables, disables, on, listening, starts, events, native, lost>>

\* Response.send, possibly long after the server was stopped.
Send(r) ==
    /\ pending[r] > 0
    /\ pending' = [pending EXCEPT ![r] = @ - 1]
    /\ commands' = Append(commands, r)
    /\ UNCHANGED <<platform, enables, disables, on, listening, starts, events, native, lost>>

-----------------------------------------------------------------------------
NativeStep ==
    NativeStop \/ AndroidStart \/ IosDispatchStart \/ IosStart \/ AndroidRespond \/ IosRespond

Next ==
    \/ Enable \/ Disable
    \/ NativeStep
    \/ \E r \in Requests : Arrive(r) \/ Refuse(r) \/ Deliver(r) \/ Send(r) \/ Serve(r)

\* Native calls and events get their turn, handlers answer, serve() polls.  Nothing makes a
\* player or the application act.
Fairness ==
    /\ WF_vars(NativeStep)
    /\ \A r \in Requests : WF_vars(Deliver(r)) /\ WF_vars(Send(r)) /\ WF_vars(Serve(r))

Spec == Init /\ [][Next]_vars /\ Fairness

-----------------------------------------------------------------------------
(***************************************************************************)
(* Properties.                                                             *)
(***************************************************************************)

\* Types of the variables; a server that runs is one that was started.
TypeOK ==
    /\ platform \in {"android", "ios"}
    /\ enables \in 0 .. MaxEnables /\ disables \in 0 .. MaxDisables
    /\ on \in BOOLEAN /\ listening \in BOOLEAN
    /\ pending \in [Requests -> Nat]
    /\ commands \in Seq(Commands) /\ starts \in Nat /\ events \subseteq Requests
    /\ server \in 0 .. instances /\ instances \in Nat
    /\ conn \in [Requests -> Connections] /\ method \in [Requests -> Methods]
    /\ waiter \subseteq Requests /\ home \in [Requests -> Nat]
    /\ responses \subseteq Requests /\ lost \subseteq Requests

\* While a native server takes requests, JS listens to them, or is about to stop it: no event
\* of a server in use is dropped.  (On iOS a stop may overtake its start: BridgeLifecycle.)
ServerIsHeard ==
    platform = "android" /\ server # 0 /\ ~listening =>
        \E i \in DOMAIN commands : commands[i] = Stop

\* Every GET ends, answered or reset, however the server is stopped and restarted and however
\* many handlers run for it; on iOS unless a stop dropped its completion block or came
\* before its event.
GetsEnd ==
    \A r \in Requests :
        conn[r] = "open" /\ method[r] = "GET" ~> conn[r] # "open" \/ r \in lost

\* Within the first enable cycle an answer in the server's map is one that a serve() of this
\* server is waiting for: no answer is stored for good.
AnswersAreAwaited ==
    enables <= 1 => \A r \in responses : r \in waiter /\ home[r] = server
=============================================================================
