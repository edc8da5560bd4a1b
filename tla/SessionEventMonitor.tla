------------------------- MODULE SessionEventMonitor -------------------------
(***************************************************************************)
(* The session event monitor of a monitor capture                          *)
(* (src/gpu/session_event_monitor.cpp): a window thread counts the lock,   *)
(* remote-session and power events, and the capture's worker looks whether *)
(* the count has changed.                                                  *)
(***************************************************************************)
EXTENDS Naturals

CONSTANT MaxEvents   \* bound: session events reported

ASSUME EventsAssumption == MaxEvents \in Nat

VARIABLES
    windowThread,   \* monitor_thread_main runs
    active,         \* active_
    generation      \* generation_

sessionVars == <<windowThread, active, generation>>

SessionInit ==
    windowThread = FALSE /\ active = FALSE /\ generation = 0

\* start creates the window thread, unless the event or the thread cannot be
\* created.
SessionStart ==
    /\ windowThread' \in BOOLEAN
    /\ UNCHANGED <<active, generation>>

\* report(0), once the notifications are registered.
SessionRegistered ==
    /\ windowThread /\ ~active
    /\ active' = TRUE
    /\ UNCHANGED <<windowThread, generation>>

\* The window class, the window or the registration cannot be had: the
\* monitor stays inert.
SessionInert ==
    /\ windowThread /\ ~active
    /\ windowThread' = FALSE
    /\ UNCHANGED <<active, generation>>

\* monitor_window_procedure calls report for an event.  The flags it stores
\* are read nowhere.
SessionEvent ==
    /\ windowThread /\ active
    /\ generation < MaxEvents
    /\ generation' = generation + 1
    /\ UNCHANGED <<windowThread, active>>

\* stop signals and joins the window thread, if there is one.
SessionStopped ==
    /\ windowThread' = FALSE
    /\ active' = (active /\ ~windowThread)
    /\ UNCHANGED generation
=============================================================================
