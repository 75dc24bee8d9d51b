------------------------ MODULE RequestDispatchProofs ------------------------
(***************************************************************************)
(* Theorems about RequestDispatch, for any requests and any number of      *)
(* enables and disables.                                                   *)
(*                                                                         *)
(* The argument for ServerIsHeard: a bridge that does not listen has sent  *)
(* a stop after its last start (StopFollows).  The argument for            *)
(* AnswersAreAwaited: in the first cycle a request is in one place at a    *)
(* time on its way from event to answer (OnePlace), and its serve() waits  *)
(* for it there (Awaited).                                                 *)
(***************************************************************************)
EXTENDS RequestDispatch, SequenceTheorems, TLAPS

\* The calls between JS and the native side.
Sent == {commands[i] : i \in 1..Len(commands)}

\* Only a stop is queued twice.
NoRepeats ==
    \A i, j \in 1..Len(commands) : commands[i] = commands[j] /\ commands[i] # Stop => i = j

StopFollows ==
    ~listening =>
        \A i \in 1..Len(commands) :
            commands[i] = Start => \E j \in 1..Len(commands) : i < j /\ commands[j] = Stop

Heard == platform = "android" /\ server # 0 /\ ~listening => Stop \in Sent

\* What belongs to one platform only.
Platforms ==
    /\ on = listening
    /\ platform = "android" => starts = 0
    /\ platform = "ios" => responses = {}

HeardInv == StopFollows /\ Heard /\ Platforms

\* The first enable has made the first start, and no other.
OneStart ==
    /\ NoRepeats
    /\ instances <= 1
    /\ Start \in Sent => instances = 0
    /\ enables = 0 => instances = 0 /\ ~on /\ Start \notin Sent

\* A request is delivered, handled, answered or answered for, one after the other.
OnePlace ==
    \A r \in Requests :
        /\ pending[r] <= 1
        /\ r \in events => pending[r] = 0 /\ r \notin Sent /\ r \notin responses
        /\ pending[r] = 1 => r \notin Sent /\ r \notin responses
        /\ r \in Sent => r \notin responses

Awaited ==
    \A r \in Requests :
        /\ r \in waiter => conn[r] # "none"
        /\ r \in events \/ pending[r] = 1 \/ r \in Sent \/ r \in responses
              => r \in waiter /\ home[r] = 1 /\ instances = 1
        /\ r \in responses => server = 1

FirstInv == platform = "android" /\ enables <= 1 => OneStart /\ OnePlace /\ Awaited

IInv == TypeOK /\ HeardInv /\ FirstInv

-----------------------------------------------------------------------------
(* The queue of native calls *)

\* A call joins the queue.
LEMMA AppendSent ==
  ASSUME commands \in Seq(Commands), NEW c \in Commands, commands' = Append(commands, c)
  PROVE  /\ commands' \in Seq(Commands)
         /\ Sent' = Sent \union {c}
         /\ NoRepeats /\ (c \notin Sent \/ c = Stop) => NoRepeats'
<1>1. /\ commands' \in Seq(Commands) /\ Len(commands') = Len(commands) + 1
      /\ \A i \in 1..Len(commands) : commands'[i] = commands[i]
      /\ commands'[Len(commands) + 1] = c
  OBVIOUS
<1>2. \A i \in 1..Len(commands') : i \in 1..Len(commands) \/ i = Len(commands) + 1
  BY <1>1
<1>3. Len(commands) \in Nat
  OBVIOUS
<1> QED
  BY <1>1, <1>2, <1>3 DEF Sent, NoRepeats

\* The head leaves it.
LEMMA TailSent ==
  ASSUME commands \in Seq(Commands), commands # <<>>, commands' = Tail(commands)
  PROVE  /\ commands' \in Seq(Commands)
         /\ Sent' \subseteq Sent /\ Head(commands) \in Sent
         /\ \A c \in Sent : c # Head(commands) => c \in Sent'
         /\ NoRepeats => NoRepeats'
         /\ NoRepeats /\ Head(commands) # Stop => Head(commands) \notin Sent'
<1>1. /\ commands' \in Seq(Commands) /\ Len(commands') = Len(commands) - 1
      /\ \A i \in 1..Len(commands') : i + 1 \in 1..Len(commands) /\ commands'[i] = commands[i + 1]
      /\ Head(commands) = commands[1] /\ 1 \in 1..Len(commands) /\ Len(commands) \in Nat
  OBVIOUS
<1>2. \A i \in 1..Len(commands) : i = 1 \/ (i - 1 \in 1..Len(commands') /\ commands'[i - 1] = commands[i])
  BY <1>1
<1>3. Sent' \subseteq Sent /\ Head(commands) \in Sent
  BY <1>1 DEF Sent
<1>4. \A c \in Sent : c # Head(commands) => c \in Sent'
  BY <1>1, <1>2 DEF Sent
<1>5. NoRepeats => NoRepeats'
  BY <1>1 DEF NoRepeats
<1>6. NoRepeats /\ Head(commands) # Stop => Head(commands) \notin Sent'
  BY <1>1 DEF NoRepeats, Sent
<1> QED
  BY <1>1, <1>3, <1>4, <1>5, <1>6

\* The order of what stays in it does not change.
LEMMA AppendFollows ==
  ASSUME commands \in Seq(Commands), NEW c \in Commands \ {Start}, commands' = Append(commands, c),
         UNCHANGED listening, StopFollows
  PROVE  StopFollows'
<1>1. /\ Len(commands') = Len(commands) + 1 /\ Len(commands) \in Nat
      /\ \A i \in 1..Len(commands) : commands'[i] = commands[i]
      /\ commands'[Len(commands) + 1] = c
  OBVIOUS
<1> QED
  BY <1>1 DEF StopFollows

\* Serving the head keeps it, and a start served unheard has its stop still to come.
LEMMA TailFollows ==
  ASSUME commands \in Seq(Commands), commands # <<>>, commands' = Tail(commands),
         UNCHANGED listening, StopFollows
  PROVE  StopFollows' /\ (~listening /\ Head(commands) = Start => Stop \in Sent')
<1>1. /\ Len(commands') = Len(commands) - 1
      /\ \A i \in 1..Len(commands') : i + 1 \in 1..Len(commands) /\ commands'[i] = commands[i + 1]
      /\ Head(commands) = commands[1] /\ 1 \in 1..Len(commands) /\ Len(commands) \in Nat
  OBVIOUS
<1>2. \A i \in 1..Len(commands) : 1 < i => i - 1 \in 1..Len(commands') /\ commands'[i - 1] = commands[i]
  BY <1>1
<1>3. StopFollows'
  <2> SUFFICES ASSUME ~listening, NEW i \in 1..Len(commands'), commands'[i] = Start
               PROVE  \E j \in 1..Len(commands') : i < j /\ commands'[j] = Stop
    BY DEF StopFollows
  <2>1. PICK j \in 1..Len(commands) : i + 1 < j /\ commands[j] = Stop
    BY <1>1 DEF StopFollows
  <2> QED
    BY <1>1, <1>2, <2>1
<1>4. ~listening /\ Head(commands) = Start => Stop \in Sent'
  <2> SUFFICES ASSUME ~listening, commands[1] = Start PROVE Stop \in Sent'
    BY <1>1
  <2>1. PICK j \in 1..Len(commands) : 1 < j /\ commands[j] = Stop
    BY <1>1 DEF StopFollows
  <2> QED
    BY <1>2, <2>1 DEF Sent
<1> QED
  BY <1>3, <1>4

-----------------------------------------------------------------------------
(* JS *)

\* Enabling sends a start that the listener precedes.
LEMMA EnableInv ==
  ASSUME IInv, Enable
  PROVE  IInv'
<1>0. commands \in Seq(Commands) /\ Start \in Commands /\ enables \in 0 .. MaxEnables
  BY DEF IInv, TypeOK, Commands
<1>1. CASE on
  <2>1. UNCHANGED commands /\ enables' = enables + 1
    BY <1>1 DEF Enable
  <2>2. ~(platform = "android" /\ enables' <= 1)
    BY <1>0, <1>1, <2>1 DEF IInv, FirstInv, OneStart
  <2>3. TypeOK'
    BY <1>0, <2>1, BoundsAssumption DEF IInv, TypeOK, Enable, native
  <2>4. HeardInv'
    BY DEF IInv, HeardInv, StopFollows, Heard, Platforms, Enable, native
  <2> QED
    BY <2>2, <2>3, <2>4 DEF IInv, FirstInv, Enable
<1>2. CASE ~on
  <2>1. commands' = Append(commands, Start)
    BY <1>2 DEF Enable
  <2>2. TypeOK'
    BY <1>0, <2>1, AppendSent, BoundsAssumption DEF IInv, TypeOK, Enable, native
  <2>3. HeardInv'
    BY DEF IInv, HeardInv, StopFollows, Heard, Platforms, Enable, native
  <2>4. FirstInv'
    <3> SUFFICES ASSUME platform = "android", enables = 0
                 PROVE  OneStart' /\ OnePlace' /\ Awaited'
      BY <1>0 DEF FirstInv, Enable
    <3>1. OneStart /\ OnePlace /\ Awaited
      BY DEF IInv, FirstInv
    <3>2. Start # Stop /\ \A r \in Requests : r # Start
      BY CommandsAssumption
    <3>3. Sent' = Sent \union {Start} /\ NoRepeats'
      BY <1>0, <2>1, <3>1, <3>2, AppendSent DEF OneStart
    <3>4. instances = 0 /\ UNCHANGED <<instances, pending, events, responses, waiter, conn, home, server>>
          /\ enables' = 1
      BY <3>1 DEF OneStart, Enable, native
    <3> QED
      BY <3>1, <3>2, <3>3, <3>4 DEF OneStart, OnePlace, Awaited
  <2> QED
    BY <2>2, <2>3, <2>4 DEF IInv
<1> QED
  BY <1>1, <1>2

\* Disabling removes the listener and sends the stop that follows every start.
LEMMA DisableInv ==
  ASSUME IInv, Disable
  PROVE  IInv'
<1>0. commands \in Seq(Commands) /\ Stop \in Commands /\ commands' = Append(commands, Stop)
  BY DEF IInv, TypeOK, Commands, Disable
<1>1. Sent' = Sent \union {Stop} /\ (NoRepeats => NoRepeats') /\ commands' \in Seq(Commands)
  BY <1>0, AppendSent
<1>2. TypeOK'
  <2>1. disables' \in 0 .. MaxDisables
    BY BoundsAssumption DEF IInv, TypeOK, Disable
  <2> QED
    BY <1>1, <2>1 DEF IInv, TypeOK, Disable, native
<1>3. StopFollows'
  <2>1. /\ Len(commands') = Len(commands) + 1 /\ Len(commands) \in Nat
        /\ \A i \in 1..Len(commands) : commands'[i] = commands[i]
        /\ commands'[Len(commands) + 1] = Stop
    BY <1>0
  <2> QED
    BY <2>1, CommandsAssumption DEF StopFollows
<1>4. Heard' /\ Platforms'
  BY <1>1 DEF IInv, HeardInv, Heard, Platforms, Disable, native
<1>5. FirstInv'
  <2>1. \A r \in Requests : r # Stop
    BY CommandsAssumption
  <2> QED
    BY <1>1, <2>1, CommandsAssumption DEF IInv, FirstInv, OneStart, OnePlace, Awaited, Disable, native
<1> QED
  BY <1>2, <1>3, <1>4, <1>5 DEF IInv, HeardInv

\* An answer that was owed joins the queue.
LEMMA SendInv ==
  ASSUME IInv, NEW r \in Requests, Send(r)
  PROVE  IInv'
<1>0. /\ commands \in Seq(Commands) /\ r \in Commands \ {Start, Stop}
      /\ commands' = Append(commands, r)
      /\ pending \in [Requests -> Nat] /\ pending[r] > 0
  BY CommandsAssumption DEF IInv, TypeOK, Commands, Send
<1>1. Sent' = Sent \union {r} /\ commands' \in Seq(Commands)
      /\ (NoRepeats /\ r \notin Sent => NoRepeats')
  BY <1>0, AppendSent
<1>2. pending' \in [Requests -> Nat]
      /\ \A q \in Requests : pending'[q] = IF q = r THEN pending[r] - 1 ELSE pending[q]
  BY <1>0 DEF Send
<1>3. TypeOK'
  BY <1>1, <1>2 DEF IInv, TypeOK, Send, native
<1>4. HeardInv'
  BY <1>0, <1>1, AppendFollows DEF IInv, HeardInv, Heard, Platforms, Send, native
<1>5. FirstInv'
  <2> SUFFICES ASSUME platform = "android", enables <= 1
               PROVE  OneStart' /\ OnePlace' /\ Awaited'
    BY DEF FirstInv, Send
  <2>1. OneStart /\ OnePlace /\ Awaited
    BY DEF IInv, FirstInv
  <2>2. pending[r] = 1
    BY <1>0, <2>1 DEF OnePlace
  <2>3. UNCHANGED <<instances, enables, on, events, responses, waiter, conn, home, server>>
    BY DEF Send, native
  <2>4. OneStart'
    BY <1>0, <1>1, <2>1, <2>2, <2>3 DEF OneStart, OnePlace
  <2> QED
    BY <1>0, <1>1, <1>2, <2>1, <2>2, <2>3, <2>4 DEF OnePlace, Awaited
<1> QED
  BY <1>3, <1>4, <1>5 DEF IInv

\* An event answers once for each callback, and only while JavaScript listens.
LEMMA DeliverInv ==
  ASSUME IInv, NEW r \in Requests, Deliver(r)
  PROVE  IInv'
<1>0. /\ commands \in Seq(Commands) /\ r \in Commands \ {Start, Stop}
      /\ pending \in [Requests -> Nat] /\ enables \in Nat
      /\ r \in events /\ events' = events \ {r}
      /\ UNCHANGED <<platform, enables, disables, on, listening, starts, native>>
  BY CommandsAssumption DEF IInv, TypeOK, Commands, Deliver
<1>1. CASE UNCHANGED commands
  <2>1. Sent' = Sent
    BY <1>1 DEF Sent
  <2>2. pending' \in [Requests -> Nat]
        /\ \A q \in Requests : \/ pending'[q] = pending[q]
                               \/ q = r /\ pending'[q] \in {0, enables}
    <3>1. pending' = pending \/ pending' = [pending EXCEPT ![r] = IF method[r] = "GET" THEN enables ELSE 0]
      BY <1>0, <1>1 DEF Deliver, Callbacks
    <3> QED
      BY <1>0, <3>1
  <2>3. lost' \subseteq Requests
    BY <1>0 DEF Deliver, IInv, TypeOK
  <2>4. TypeOK'
    BY <1>0, <1>1, <2>2, <2>3 DEF IInv, TypeOK, native
  <2>5. HeardInv'
    BY <1>0, <1>1, <2>1 DEF IInv, HeardInv, StopFollows, Heard, Platforms, native
  <2>6. FirstInv'
    <3> SUFFICES ASSUME platform = "android", enables <= 1
                 PROVE  OneStart' /\ OnePlace' /\ Awaited'
      BY <1>0 DEF FirstInv
    <3>1. OneStart /\ OnePlace /\ Awaited
      BY DEF IInv, FirstInv
    <3> QED
      BY <1>0, <1>1, <2>1, <2>2, <3>1 DEF OneStart, NoRepeats, OnePlace, Awaited, native
  <2> QED
    BY <2>4, <2>5, <2>6 DEF IInv
<1>2. CASE commands' = Append(commands, r) /\ UNCHANGED <<pending, lost>>
  <2>1. Sent' = Sent \union {r} /\ commands' \in Seq(Commands)
        /\ (NoRepeats /\ r \notin Sent => NoRepeats')
    BY <1>0, <1>2, AppendSent
  <2>2. TypeOK'
    BY <1>0, <1>2, <2>1 DEF IInv, TypeOK, native
  <2>3. HeardInv'
    BY <1>0, <1>2, <2>1, AppendFollows DEF IInv, HeardInv, Heard, Platforms, native
  <2>4. FirstInv'
    <3> SUFFICES ASSUME platform = "android", enables <= 1
                 PROVE  OneStart' /\ OnePlace' /\ Awaited'
      BY <1>0 DEF FirstInv
    <3>1. OneStart /\ OnePlace /\ Awaited
      BY DEF IInv, FirstInv
    <3>2. OneStart'
      BY <1>0, <2>1, <3>1 DEF OneStart, OnePlace, native
    <3> QED
      BY <1>0, <1>2, <2>1, <3>1, <3>2 DEF OnePlace, Awaited, native
  <2> QED
    BY <2>2, <2>3, <2>4 DEF IInv
<1> QED
  BY <1>1, <1>2 DEF Deliver

-----------------------------------------------------------------------------
(* The native module *)

\* A server that stops, or that another replaces, resets what waits at it and answers
\* nothing any more.
LEMMA AndroidStopKeeps ==
  ASSUME TypeOK, AndroidStop
  PROVE  /\ conn' \in [Requests -> Connections]
         /\ \A r \in Requests : conn[r] # "none" => conn'[r] # "none"
         /\ responses' = {} /\ UNCHANGED <<waiter, lost>>
  BY DEF TypeOK, AndroidStop, Connections

\* A native stop leaves no server to hear.
LEMMA NativeStopInv ==
  ASSUME IInv, NativeStop
  PROVE  IInv'
<1>0. /\ commands \in Seq(Commands) /\ commands # <<>> /\ Head(commands) = Stop
      /\ commands' = Tail(commands) /\ server' = 0
      /\ UNCHANGED <<platform, js, starts, events, instances, method, home>>
  BY DEF IInv, TypeOK, NativeStop
<1>1. /\ commands' \in Seq(Commands) /\ Sent' \subseteq Sent
      /\ NoRepeats => NoRepeats'
  BY <1>0, TailSent
<1>2. /\ conn' \in [Requests -> Connections] /\ responses' \subseteq responses
      /\ waiter' \subseteq Requests /\ lost' \subseteq Requests
      /\ platform = "android" => responses' = {} /\ waiter' = waiter
                                 /\ \A r \in Requests : conn[r] # "none" => conn'[r] # "none"
  <2>1. CASE platform = "android"
    BY <2>1, AndroidStopKeeps DEF NativeStop, IInv, TypeOK
  <2>2. CASE platform # "android"
    BY <2>2 DEF NativeStop, IosStop, IInv, TypeOK
  <2> QED
    BY <2>1, <2>2
<1>3. TypeOK'
  BY <1>0, <1>1, <1>2 DEF IInv, TypeOK, js
<1>4. HeardInv'
  BY <1>0, <1>2, TailFollows DEF IInv, HeardInv, Heard, Platforms, js
<1>5. FirstInv'
  <2> SUFFICES ASSUME platform = "android", enables <= 1
               PROVE  OneStart' /\ OnePlace' /\ Awaited'
    BY <1>0 DEF FirstInv, js
  <2>1. OneStart /\ OnePlace /\ Awaited
    BY DEF IInv, FirstInv
  <2> QED
    BY <1>0, <1>1, <1>2, <2>1 DEF OneStart, OnePlace, Awaited, js
<1> QED
  BY <1>3, <1>4, <1>5 DEF IInv

\* A native start replaces the server and is heard or about to be stopped.
LEMMA AndroidStartInv ==
  ASSUME IInv, AndroidStart
  PROVE  IInv'
<1>0. /\ commands \in Seq(Commands) /\ commands # <<>> /\ Head(commands) = Start
      /\ commands' = Tail(commands) /\ instances \in Nat
      /\ instances' = instances + 1 /\ server' = instances + 1
      /\ UNCHANGED <<platform, js, starts, events, method, home>>
  BY DEF IInv, TypeOK, AndroidStart, NewServer
<1>1. /\ commands' \in Seq(Commands) /\ Sent' \subseteq Sent /\ Start \in Sent
      /\ NoRepeats => NoRepeats' /\ Start \notin Sent'
  BY <1>0, TailSent, CommandsAssumption
<1>2. /\ conn' \in [Requests -> Connections] /\ responses' = {} /\ UNCHANGED <<waiter, lost>>
      /\ \A r \in Requests : conn[r] # "none" => conn'[r] # "none"
  BY AndroidStopKeeps DEF AndroidStart, IInv
<1>3. TypeOK'
  BY <1>0, <1>1, <1>2 DEF IInv, TypeOK, js
<1>4. HeardInv'
  BY <1>0, <1>2, TailFollows DEF IInv, HeardInv, Heard, Platforms, js
<1>5. FirstInv'
  <2> SUFFICES ASSUME platform = "android", enables <= 1
               PROVE  OneStart' /\ OnePlace' /\ Awaited'
    BY <1>0 DEF FirstInv, js
  <2>1. OneStart /\ OnePlace /\ Awaited
    BY DEF IInv, FirstInv
  <2>2. instances = 0
    BY <1>1, <2>1 DEF OneStart
  <2>3. \A r \in Requests : r \notin events /\ pending[r] # 1 /\ r \notin Sent
    BY <2>1, <2>2 DEF Awaited
  <2> QED
    BY <1>0, <1>1, <1>2, <2>1, <2>2, <2>3 DEF OneStart, OnePlace, Awaited, js
<1> QED
  BY <1>3, <1>4, <1>5 DEF IInv

\* The main queue of iOS is no matter of the Android invariants.
LEMMA IosInv ==
  ASSUME IInv, IosDispatchStart \/ IosStart \/ IosRespond
  PROVE  IInv'
<1>0. platform = "ios" /\ UNCHANGED <<platform, js, responses>>
  BY DEF IInv, TypeOK, HeardInv, Platforms, IosDispatchStart, IosStart, IosRespond, native
<1>1. CASE IosStart
  <2>1. TypeOK'
    BY <1>0, <1>1 DEF IInv, TypeOK, IosStart, NewServer, js
  <2> QED
    BY <1>0, <1>1, <2>1 DEF IInv, HeardInv, StopFollows, Heard, Platforms, FirstInv, IosStart, js
<1>2. CASE IosDispatchStart \/ IosRespond
  <2>1. commands \in Seq(Commands) /\ commands # <<>> /\ commands' = Tail(commands)
    BY <1>2 DEF IInv, TypeOK, IosDispatchStart, IosRespond
  <2>2. commands' \in Seq(Commands)
    BY <2>1, TailSent
  <2>3. conn' \in [Requests -> Connections] /\ waiter' \subseteq Requests /\ starts' \in Nat
    <3>1. conn \in [Requests -> Connections] /\ waiter \subseteq Requests /\ starts \in Nat
      BY DEF IInv, TypeOK
    <3>2. CASE IosDispatchStart
      BY <3>1, <3>2 DEF IosDispatchStart, native
    <3>3. CASE IosRespond
      <4>1. "answered" \in Connections
        BY DEF Connections
      <4>2. conn' = conn \/ conn' = [conn EXCEPT ![Head(commands)] = "answered"]
        BY <3>3 DEF IosRespond
      <4> QED
        BY <3>1, <3>3, <4>1, <4>2 DEF IosRespond
    <3> QED
      BY <1>2, <3>2, <3>3
  <2>4. TypeOK'
    BY <1>0, <1>2, <2>2, <2>3 DEF IInv, TypeOK, IosDispatchStart, IosRespond, native, js
  <2> QED
    BY <1>0, <2>1, <2>4, TailFollows DEF IInv, HeardInv, Heard, Platforms, FirstInv, js
<1> QED
  BY <1>1, <1>2

\* A response goes to a request that a serve() awaits, in the first cycle.
LEMMA AndroidRespondInv ==
  ASSUME IInv, AndroidRespond
  PROVE  IInv'
<1> DEFINE r == Head(commands)
<1>0. /\ commands \in Seq(Commands) /\ commands # <<>> /\ commands' = Tail(commands)
      /\ r \in Requests /\ r # Stop /\ platform = "android"
      /\ responses' = IF server = 0 THEN responses ELSE responses \union {r}
      /\ UNCHANGED <<platform, js, starts, events, server, instances, conn, method, waiter, home, lost>>
  BY CommandsAssumption DEF IInv, TypeOK, AndroidRespond
<1> HIDE DEF r
<1>1. /\ commands' \in Seq(Commands) /\ Sent' \subseteq Sent /\ r \in Sent
      /\ \A c \in Sent : c # r => c \in Sent'
      /\ NoRepeats => NoRepeats' /\ r \notin Sent'
  BY <1>0, TailSent DEF r
<1>2. TypeOK'
  BY <1>0, <1>1 DEF IInv, TypeOK, js
<1>3. HeardInv'
  BY <1>0, <1>1, TailFollows DEF IInv, HeardInv, Heard, Platforms, js
<1>4. FirstInv'
  <2> SUFFICES ASSUME enables <= 1
               PROVE  OneStart' /\ OnePlace' /\ Awaited'
    BY <1>0 DEF FirstInv, js
  <2>1. OneStart /\ OnePlace /\ Awaited
    BY <1>0 DEF IInv, FirstInv
  <2>2. server # 0 => server = 1
    BY <2>1 DEF IInv, TypeOK, OneStart
  <2> QED
    BY <1>0, <1>1, <2>1, <2>2 DEF OneStart, OnePlace, Awaited, js
<1> QED
  BY <1>2, <1>3, <1>4 DEF IInv

\* A request arrives at the running server.
LEMMA ArriveInv ==
  ASSUME IInv, NEW r \in Requests, Arrive(r)
  PROVE  IInv'
<1>0. /\ UNCHANGED <<platform, js, commands, starts, server, instances, method, responses, lost>>
      /\ Sent' = Sent /\ server # 0 /\ waiter' = waiter \union {r}
      /\ events' \in {events, events \union {r}}
  BY DEF Arrive, Sent
<1>1. /\ conn \in [Requests -> Connections] /\ home \in [Requests -> Nat] /\ server \in Nat
      /\ conn' = [conn EXCEPT ![r] = "open"] /\ home' = [home EXCEPT ![r] = server]
      /\ conn[r] = "none"
  BY DEF IInv, TypeOK, Arrive
<1>2. TypeOK'
  BY <1>0, <1>1 DEF IInv, TypeOK, Connections, js
<1>3. HeardInv'
  BY <1>0 DEF IInv, HeardInv, StopFollows, Heard, Platforms, js
<1>4. FirstInv'
  <2> SUFFICES ASSUME platform = "android", enables <= 1
               PROVE  OneStart' /\ OnePlace' /\ Awaited'
    BY <1>0 DEF FirstInv, js
  <2>1. OneStart /\ OnePlace /\ Awaited
    BY DEF IInv, FirstInv
  <2>2. server = 1 /\ instances = 1
    BY <1>0, <2>1 DEF IInv, TypeOK, OneStart
  <2>3. r \notin events /\ pending[r] # 1 /\ r \notin Sent /\ r \notin responses
    BY <1>1, <2>1 DEF Awaited
  <2>4. pending[r] = 0
    BY <2>1, <2>3 DEF IInv, TypeOK, OnePlace
  <2>5. OneStart'
    BY <1>0, <2>1 DEF OneStart, NoRepeats, js
  <2>6. OnePlace'
    BY <1>0, <2>1, <2>3, <2>4 DEF OnePlace, js
  <2>7. Awaited'
    BY <1>0, <1>1, <2>1, <2>2 DEF Awaited, js
  <2> QED
    BY <2>5, <2>6, <2>7
<1> QED
  BY <1>2, <1>3, <1>4 DEF IInv

\* A request that is refused waits for nothing.
LEMMA RefuseInv ==
  ASSUME IInv, NEW r \in Requests, Refuse(r)
  PROVE  IInv'
<1>0. /\ UNCHANGED <<platform, js, commands, starts, events, server, instances, method, home,
                     waiter, responses, lost>>
      /\ Sent' = Sent
  BY DEF Refuse, Sent, channel
<1>1. conn \in [Requests -> Connections] /\ conn' = [conn EXCEPT ![r] = "answered"]
  BY DEF IInv, TypeOK, Refuse
<1>2. TypeOK'
  BY <1>0, <1>1 DEF IInv, TypeOK, Connections, js
<1>3. HeardInv'
  BY <1>0 DEF IInv, HeardInv, StopFollows, Heard, Platforms, js
<1>4. FirstInv'
  BY <1>0, <1>1 DEF IInv, FirstInv, OneStart, NoRepeats, OnePlace, Awaited, js
<1> QED
  BY <1>2, <1>3, <1>4 DEF IInv

\* serve() takes its response out of the map and goes.
LEMMA ServeInv ==
  ASSUME IInv, NEW r \in Requests, Serve(r)
  PROVE  IInv'
<1>0. /\ UNCHANGED <<platform, js, commands, starts, events, server, instances, method, home, lost>>
      /\ Sent' = Sent /\ responses' = responses \ {r} /\ waiter' = waiter \ {r}
      /\ r \in responses
  BY DEF Serve, Sent, channel
<1>1. conn \in [Requests -> Connections] /\ conn' = [conn EXCEPT ![r] = "answered"]
  BY DEF IInv, TypeOK, Serve
<1>2. TypeOK'
  BY <1>0, <1>1 DEF IInv, TypeOK, Connections, js
<1>3. HeardInv'
  BY <1>0 DEF IInv, HeardInv, StopFollows, Heard, Platforms, js
<1>4. FirstInv'
  BY <1>0, <1>1 DEF IInv, FirstInv, OneStart, NoRepeats, OnePlace, Awaited, js
<1> QED
  BY <1>2, <1>3, <1>4 DEF IInv

-----------------------------------------------------------------------------
(* The theorems *)

\* Nothing has been started, sent or asked.
LEMMA InitInv == Init => IInv
<1> SUFFICES ASSUME Init PROVE IInv
  OBVIOUS
<1>1. TypeOK
  <2>1. enables \in 0 .. MaxEnables /\ disables \in 0 .. MaxDisables /\ server \in 0 .. instances
    BY BoundsAssumption DEF Init
  <2>2. /\ commands \in Seq(Commands) /\ conn \in [Requests -> Connections]
        /\ pending \in [Requests -> Nat] /\ home \in [Requests -> Nat]
    BY DEF Init, Connections
  <2> QED
    BY <2>1, <2>2 DEF Init, TypeOK
<1>2. Len(commands) = 0 /\ Sent = {}
  BY DEF Init, Sent
<1>3. HeardInv
  <2>1. StopFollows /\ Heard
    BY <1>2 DEF Init, StopFollows, Heard
  <2>2. Platforms
    BY Zenon DEF Init, Platforms
  <2> QED
    BY <2>1, <2>2 DEF HeardInv
<1>4. OneStart
  BY <1>2 DEF Init, OneStart, NoRepeats
<1>5. OnePlace /\ Awaited
  BY <1>2 DEF Init, OnePlace, Awaited
<1> QED
  BY <1>1, <1>3, <1>4, <1>5 DEF IInv, FirstInv

\* IInv is inductive.
LEMMA NextInv == IInv /\ [Next]_vars => IInv'
<1> SUFFICES ASSUME IInv, [Next]_vars PROVE IInv'
  OBVIOUS
<1>1. CASE UNCHANGED vars
  <2>1. TypeOK' /\ HeardInv'
    BY <1>1 DEF vars, js, channel, native, IInv, TypeOK, HeardInv, StopFollows, Heard,
                Platforms, Sent
  <2>2. FirstInv'
    BY <1>1 DEF vars, js, channel, native, IInv, FirstInv, OneStart, NoRepeats, OnePlace,
                Awaited, Sent
  <2> QED
    BY <2>1, <2>2 DEF IInv
<1> QED
  BY <1>1, EnableInv, DisableInv, SendInv, DeliverInv, NativeStopInv, AndroidStartInv, IosInv,
     AndroidRespondInv, ArriveInv, RefuseInv, ServeInv DEF Next, NativeStep

\* Types hold, and a running server is one that was started.
THEOREM TypeTheorem == Spec => []TypeOK
  BY InitInv, NextInv, PTL DEF Spec, IInv

\* No Android server in use has its events dropped (BridgeServer.listen and stop), however
\* often the bridge is enabled and disabled and however slowly the native calls run.
THEOREM HeardTheorem == Spec => []ServerIsHeard
<1>1. IInv => ServerIsHeard
  BY DEF IInv, TypeOK, HeardInv, Heard, Sent, ServerIsHeard
<1> QED
  BY <1>1, InitInv, NextInv, PTL DEF Spec

\* In the first enable cycle no answer stays in Server.kt's map: a serve() waits for each,
\* for any number of requests and of disables.
THEOREM AwaitedTheorem == Spec => []AnswersAreAwaited
<1>1. IInv => AnswersAreAwaited
  BY DEF IInv, TypeOK, HeardInv, Platforms, FirstInv, Awaited, AnswersAreAwaited
<1> QED
  BY <1>1, InitInv, NextInv, PTL DEF Spec
=============================================================================
