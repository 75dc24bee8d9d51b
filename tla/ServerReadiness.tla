-------------------------- MODULE ServerReadiness --------------------------
(***************************************************************************)
(* What the readiness API (getServerState, subscribeServerState) promises  *)
(* its readers about the server, whatever happens below: a cycle opens     *)
(* with a start request, makes a bounded number of attempts, and closes as *)
(* ready, as failed once they are spent, or by a stop; what belongs to a   *)
(* closed cycle shows no more.                                             *)
(***************************************************************************)
EXTENDS Naturals

CONSTANTS Ports, NoPort, MaxRetries

VARIABLES
    state,      \* the published snapshot, [status, port]
    attempts    \* attempts made in the open cycle

vars == <<state, attempts>>

Snapshot(status, port) == [status |-> status, port |-> port]

Init == state = Snapshot("idle", NoPort) /\ attempts = 0

Request ==
    /\ state' = Snapshot("starting", NoPort)
    /\ attempts' = 1

Retry ==
    /\ state.status = "starting"
    /\ attempts < MaxRetries
    /\ attempts' = attempts + 1
    /\ UNCHANGED state

Confirm ==
    /\ state.status = "starting"
    /\ \E p \in Ports : state' = Snapshot("ready", p)
    /\ UNCHANGED attempts

GiveUp ==
    /\ state.status = "starting"
    /\ attempts = MaxRetries
    /\ state' = Snapshot("failed", NoPort)
    /\ UNCHANGED attempts

Cancel ==
    /\ state' = Snapshot("idle", NoPort)
    /\ attempts' = 0

Next == Request \/ Retry \/ Confirm \/ GiveUp \/ Cancel

\* An open cycle that nothing supersedes closes by itself.
Fairness == WF_vars(Retry \/ Confirm \/ GiveUp)

Spec == Init /\ [][Next]_vars /\ Fairness
=============================================================================
