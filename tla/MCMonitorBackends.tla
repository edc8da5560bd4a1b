-------------------------- MODULE MCMonitorBackends --------------------------
(* Model-checking instance of MonitorBackends. *)
EXTENDS MonitorBackends

Plain == [backend |-> "output", heartbeat |-> FALSE, cursor |-> FALSE,
          nativeCursor |-> FALSE, scaled |-> FALSE, events |-> FALSE,
          lostLimit |-> 0, sessionLimit |-> 0, maxChanges |-> 1]

\* Frames without a cursor.
Pictures ==
    {[Plain EXCEPT !.events = TRUE],
     [Plain EXCEPT !.scaled = TRUE, !.heartbeat = TRUE],
     [Plain EXCEPT !.heartbeat = TRUE, !.lostLimit = 1, !.sessionLimit = 1],
     [Plain EXCEPT !.backend = "desktop", !.heartbeat = TRUE,
                   !.events = TRUE, !.maxChanges = 0],
     [Plain EXCEPT !.backend = "desktop", !.heartbeat = TRUE],
     [Plain EXCEPT !.backend = "desktop", !.scaled = TRUE]}

\* The cursor, over a desktop that stays as it is.
Cursors ==
    {[Plain EXCEPT !.cursor = TRUE, !.heartbeat = TRUE, !.maxChanges = 2],
     [Plain EXCEPT !.cursor = TRUE, !.nativeCursor = TRUE],
     [Plain EXCEPT !.backend = "desktop", !.cursor = TRUE],
     [Plain EXCEPT !.backend = "gdi", !.cursor = TRUE, !.maxChanges = 2]}

Everything == Pictures \cup Cursors
=============================================================================
