--------------------- MODULE DesktopDuplicationController ---------------------
(***************************************************************************)
(* Desktop Duplication of every output of an adapter                       *)
(* (src/gpu/desktop_duplication_controller.cpp).  The worker polls the     *)
(* outputs in turn, copies what they show into one texture of the whole    *)
(* desktop, and publishes that.  Each output is one column.                *)
(***************************************************************************)
EXTENDS MonitorCapture

VARIABLES
    polled,    \* the outputs polled, in an iteration
    compose,   \* compose_texture
    content,   \* the outputs with has_content
    anyFrame,  \* any_frame, in an iteration
    dirty,     \* pending_damage
    overflow,  \* pending_damage_overflow
    sent,      \* heartbeat_metadata_valid
    rebuilds   \* topology rebuilds so far

controllerVars == <<polled, compose, content, anyFrame, dirty,
                    overflow, sent, rebuilds>>

CONSTANT MaxRebuilds   \* bound: topology rebuilds

ASSUME RebuildsAssumption == MaxRebuilds \in Nat

Outputs == FrameColumns
Blank == -1

\* No image of an output yet.  The first frame of a session is taken to
\* report the whole output as dirty.
AllBlank == [o \in Outputs |-> Blank]

ControllerInit ==
    /\ polled = {}
    /\ compose = AllBlank /\ content = {}
    /\ anyFrame = FALSE /\ dirty = {} /\ overflow = FALSE
    /\ sent = FALSE /\ rebuilds = 0

-----------------------------------------------------------------------------
(* process_iteration.                                                      *)

\* Up to the first output.
Iterate ==
    /\ WorkerLoops("poll")
    /\ dirty' = {} /\ overflow' = FALSE
    /\ UNCHANGED <<polled, anyFrame, compose, content, sent, rebuilds>>

IterationEnds == worker' = "loop" /\ polled' = {} /\ anyFrame' = FALSE

\* The outputs are polled in order.
NextOutput == Cardinality(polled)
PollsOn == worker = "poll" /\ polled # Outputs

Polled == polled' = polled \cup {NextOutput}

PollTimeout ==
    /\ PollsOn /\ Polled
    /\ UNCHANGED <<captureVars, compose, content, anyFrame, dirty,
                   overflow, sent, rebuilds>>

\* One output's frame, copied into place and released.  Its dirty rectangles
\* and the destinations of its moves are collected; metadata that cannot be
\* read, or too much of it, is an overflow.
PollFrame ==
    /\ PollsOn /\ Polled
    /\ \E coalesced \in BOOLEAN : forceFull' = (forceFull \/ coalesced)
    /\ compose' = [compose EXCEPT ![NextOutput] = desktop[NextOutput]]
    /\ content' = content \cup {NextOutput}
    /\ anyFrame' = TRUE
    /\ LET reported == IF desktop[NextOutput] # compose[NextOutput]
                       THEN {NextOutput} ELSE {}
           fits == Cardinality(dirty \cup reported) <= MaxDirtyRects
       IN  /\ dirty' = IF fits THEN dirty \cup reported ELSE dirty
           /\ overflow' \in {overflow \/ ~fits, TRUE}
    /\ UNCHANGED <<lifeVars, worker, observed, previous, cursorVars, osVars,
                   busVars, sessionVars, sent, rebuilds>>

\* Any error of an acquisition other than an access loss.
PollFails ==
    /\ PollsOn
    /\ Fail("poll", "d3d_error") /\ UNCHANGED <<failUnchanged, controllerVars>>

PollLost ==
    /\ PollsOn /\ rebuilds < MaxRebuilds
    /\ rebuilds' = rebuilds + 1
    /\ worker' = "topology"
    /\ UNCHANGED <<lifeVars, observed, forceFull, previous, cursorVars,
                   osVars, busVars, sessionVars, polled, compose,
                   content, anyFrame, dirty, overflow, sent>>

-----------------------------------------------------------------------------
(* rebuild_topology.                                                       *)

\* The stop token during the first delay: the iteration ends well.
TopologyCancelled ==
    /\ worker = "topology" /\ stopToken
    /\ IterationEnds
    /\ UNCHANGED <<lifeVars, observed, forceFull, previous, cursorVars,
                   osVars, busVars, sessionVars, compose, content, dirty,
                   overflow, sent, rebuilds>>

\* The first delay passes.
TopologyDelayed ==
    /\ worker = "topology" /\ ~stopToken
    /\ worker' = "sessions"
    /\ UNCHANGED <<lifeVars, observed, forceFull, previous, cursorVars,
                   osVars, busVars, sessionVars, controllerVars>>

\* create_sessions: every session and the texture are new.
TopologyRebuilt ==
    /\ worker = "sessions"
    /\ compose' = AllBlank /\ content' = {}
    /\ forceFull' = TRUE
    /\ IterationEnds
    /\ UNCHANGED <<lifeVars, observed, previous, cursorVars, osVars, busVars,
                   sessionVars, dirty, overflow, sent, rebuilds>>

\* No output is left, the topology has changed, or a session cannot be
\* created.  While DXGI has none to give, a limit of zero waits for stop().
TopologyRefused ==
    /\ \E status \in {"target_closed", "not_supported", "d3d_error"} :
          Fail("sessions", status)
    /\ UNCHANGED <<failUnchanged, controllerVars>>

\* The stop token while DXGI has no session to give: an error like another.
SessionsCancelled ==
    /\ stopToken
    /\ Fail("sessions", "not_supported")
    /\ UNCHANGED <<failUnchanged, controllerVars>>

-----------------------------------------------------------------------------
(* publish_compose, for the frames of the iteration or as a heartbeat.     *)

PollsDone == worker = "poll" /\ polled = Outputs

NoPublish ==
    /\ PollsDone /\ ~anyFrame
    /\ IterationEnds
    /\ UNCHANGED <<lifeVars, observed, forceFull, previous, cursorVars,
                   osVars, busVars, sessionVars, compose, content, dirty,
                   overflow, sent, rebuilds>>

MayPublish == PollsDone /\ (anyFrame \/ (options.heartbeat /\ sent))

ComposeDamage ==
    IF forceFull \/ content # Outputs THEN FullDamage
    ELSE IF ~anyFrame THEN NoDamage
    ELSE IF overflow THEN FullDamage
    ELSE [full |-> FALSE, dirty |-> dirty, moves |-> {}, base |-> 0]

\* build_cursor.  GetCursorInfo may fail; a shape that cannot be extracted,
\* or not scaled, is not asked for again.
ComposeCursors ==
    IF ~options.cursor THEN {NoCursor}
    ELSE {NoCursor} \cup
         (IF cursorShape = NoShape \/ pointer # lastCursor
          THEN {CursorOf(NoShape, pointer), CursorOf(pointer, pointer)}
          ELSE {CursorOf(NoShape, lastCursor)})

\* Full damage is as large as the desktop: the bus refuses it for a scaled
\* frame.
Refused == options.scaled /\ ComposeDamage.full

PublishCompose ==
    /\ MayPublish /\ ~Refused
    /\ \E cursor \in ComposeCursors :
         /\ Commit(compose, 0, 1, ComposeDamage, cursor)
         /\ lastCursor' = cursor.sampled
    /\ forceFull' = FALSE
    /\ sent' = TRUE
    /\ dirty' = {} /\ overflow' = FALSE
    /\ polled' = {} /\ anyFrame' = FALSE
    /\ UNCHANGED <<lifeVars, observed, cursorShape, busShape, osVars,
                   sessionVars, compose, content, rebuilds>>

SkipCompose ==
    /\ MayPublish
    /\ IterationEnds
    /\ forceFull' = TRUE
    /\ UNCHANGED <<lifeVars, observed, previous, cursorVars, osVars, busVars,
                   sessionVars, compose, content, dirty, overflow, sent,
                   rebuilds>>

ComposeFails ==
    /\ MayPublish
    /\ Fail("poll", "d3d_error") /\ UNCHANGED <<failUnchanged, controllerVars>>

-----------------------------------------------------------------------------
\* What DXGI may put off for ever.
ControllerGranted == TopologyRebuilt \/ TopologyRefused

ControllerWorker ==
    \/ Iterate
    \/ PollTimeout \/ PollFrame \/ PollFails \/ PollLost
    \/ TopologyCancelled \/ TopologyDelayed \/ SessionsCancelled
    \/ NoPublish \/ PublishCompose \/ SkipCompose \/ ComposeFails
=============================================================================
