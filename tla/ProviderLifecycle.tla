------------------------- MODULE ProviderLifecycle -------------------------
(***************************************************************************)
(* CacheManagerProvider (Hooks/useProxyCacheProvider.tsx) driving the      *)
(* bridge of BridgeLifecycle: one effect, keyed on useIsForeground(),      *)
(* enables the server in the foreground and disables it in the background, *)
(* and its cleanup disables it first.  The provider's body also runs       *)
(* `new CacheManager(..., devMode)` on every render; only the first        *)
(* instance is kept, but with devMode the constructor of BridgeServer      *)
(* stops whatever instance BridgeServer.server then holds.                 *)
(*                                                                         *)
(* A render, and the effects it commits, are tasks of their own; React     *)
(* runs pending effects before it renders again.                           *)
(***************************************************************************)
EXTENDS BridgeLifecycle

CONSTANTS
    DevModes,       \* the values of the provider's devMode prop to consider
    MaxPending      \* bound on native calls a re-render may leave queued

ASSUME DevModesAssumption == DevModes \subseteq BOOLEAN
ASSUME PendingAssumption == MaxPending \in Nat

VARIABLES
    devMode,        \* the devMode prop
    mounted,        \* the provider is in the tree
    foreground,     \* isForeground
    effect,         \* the part of the [isForeground] effect still to run
    heldStatic      \* BridgeServer.server is the kept manager's own instance

provider == <<devMode, mounted, foreground, effect, heldStatic>>
pvars    == <<enableCycle, serverState, stoppedByBackground, calls, handlers,
              isRunning, boundPort, starting, listener,
              moduleQ, mainQ, results, nativePort,
              devMode, mounted, foreground, effect, heldStatic>>

Effects == {"none", "cleanup", "enable", "background"}

ProviderTypeOK ==
    /\ TypeOK
    /\ devMode \in BOOLEAN
    /\ mounted \in BOOLEAN
    /\ foreground \in BOOLEAN
    /\ effect \in Effects
    /\ heldStatic \in BOOLEAN

\* The first render of a foreground app has been committed: no cleanup precedes
\* its effect.
PInit ==
    /\ Init
    /\ devMode \in DevModes
    /\ mounted = TRUE
    /\ foreground = TRUE
    /\ effect = "enable"
    /\ heldStatic = TRUE

AtRest == effect = "none" /\ \A c \in Cycles : ~Settled(c)

\* new BridgeServer(): in dev mode the instance on record is stopped (HttpProxy.stop
\* is global; the fields it resets are that instance's) and the new one recorded.
ConstructAgain ==
    IF devMode
    THEN /\ IF heldStatic THEN BridgeStop
            ELSE /\ listener' = FALSE
                 /\ moduleQ' = Append(moduleQ, StopCmd)
                 /\ UNCHANGED bridge
         /\ heldStatic' = FALSE
    ELSE UNCHANGED <<bridge, listener, moduleQ, heldStatic>>

\* AppState 'change': setIsForeground re-renders the provider and its effect is due.
AppStateChange ==
    /\ mounted /\ AtRest
    /\ enableCycle + 2 <= MaxCycle
    /\ foreground' = ~foreground
    /\ effect' = "cleanup"
    /\ ConstructAgain
    /\ UNCHANGED <<manager, native, devMode, mounted>>

\* The parent renders again; no effect of the provider depends on it.
Rerender ==
    /\ mounted /\ AtRest
    /\ devMode
    /\ Len(moduleQ) < MaxPending
    /\ ConstructAgain
    /\ UNCHANGED <<manager, native, devMode, mounted, foreground, effect>>

Unmount ==
    /\ mounted /\ AtRest
    /\ enableCycle < MaxCycle
    /\ mounted' = FALSE
    /\ effect' = "cleanup"
    /\ UNCHANGED <<manager, bridge, listener, moduleQ, native, devMode, foreground, heldStatic>>

Cleanup ==
    /\ effect = "cleanup"
    /\ Disable("none")
    /\ effect' = IF ~mounted THEN "none"
                 ELSE IF foreground THEN "enable" ELSE "background"
    /\ UNCHANGED <<devMode, mounted, foreground, heldStatic>>

EffectForeground ==
    /\ effect = "enable"
    /\ \E p \in Ports : Enable(p)
    /\ effect' = "none"
    /\ UNCHANGED <<devMode, mounted, foreground, heldStatic>>

EffectBackground ==
    /\ effect = "background"
    /\ Disable("backgrounded")
    /\ effect' = "none"
    /\ UNCHANGED <<devMode, mounted, foreground, heldStatic>>

\* Cleanup and effect share a task: nothing else of JS runs between them.
PSettle   == effect \notin {"enable", "background"} /\ Settle /\ UNCHANGED provider
PContinue == (\E c \in Cycles : Continue(c)) /\ UNCHANGED provider
PNative   == NativeStep /\ UNCHANGED provider
Commit    == Cleanup \/ EffectForeground \/ EffectBackground

PNext ==
    \/ AppStateChange
    \/ Rerender
    \/ Unmount
    \/ Commit
    \/ PSettle
    \/ PContinue
    \/ PNative

PFairness ==
    /\ WF_pvars(Commit)
    /\ WF_pvars(PNative /\ moduleQ' # moduleQ)
    /\ WF_pvars(PNative /\ mainQ' # mainQ)
    /\ WF_pvars(PSettle)
    /\ WF_pvars(PContinue)

PSpec == PInit /\ [][PNext]_pvars /\ PFairness

-----------------------------------------------------------------------------
(* What the provider must guarantee *)

\* Outside dev mode 'ready' is a live proxy at every moment, whatever the app state
\* does to starts in flight: each enable follows the disable of the cleanup.
ReleaseReadyIsServed == ~devMode => ReadyIsServed

\* An app that is in the background has neither a listener nor, once the native
\* calls made have run, a server ("cache server paused (app backgrounded)",
\* constants.ts:48), and the fallback names that cause.
BackgroundIsStopped ==
    (effect = "none" /\ mounted /\ ~foreground) =>
        /\ serverState.status = "idle"
        /\ stoppedByBackground
        /\ ~listener
        /\ (moduleQ = << >> /\ mainQ = << >>) => nativePort = NoPort

\* The last AppState change wins: an app left in the foreground comes to a ready
\* server, or to the failure that ends its retries, however often it flapped.
ForegroundIsServed ==
    (mounted /\ foreground) ~>
        (~mounted \/ ~foreground \/ serverState.status \in {"ready", "failed"})
=============================================================================
