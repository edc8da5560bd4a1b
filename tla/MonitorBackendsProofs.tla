------------------------ MODULE MonitorBackendsProofs ------------------------
(***************************************************************************)
(* Proofs about the three captures of monitors, for every width of desktop *)
(* and frame, every set of options and any number of frames, access        *)
(* losses, rebuilds and session events.                                    *)
(***************************************************************************)
EXTENDS MonitorBackends, TLAPS
-----------------------------------------------------------------------------
\* The frames on the bus are numbered from 1, without gaps.
Numbered ==
  /\ last.sequence \in Nat /\ previous = last.sequence
  /\ last.sequence = 0 => last = NoFrame

\* The worker runs once the capture is started.
Unstarted == ~started => worker = "none" /\ last = NoFrame

-----------------------------------------------------------------------------
(* Cursor shapes.                                                          *)

\* What the worker remembers as published is.  A frame announces a shape, or
\* names none or the one published last.
ShapesInv ==
  /\ cursorShape = busShape
  /\ worker = "shape" =>
       /\ last # NoFrame
       /\ last.pending = pendingShape /\ pendingShape # NoShape
  /\ last # NoFrame /\ last.pending = NoShape =>
       last.shape \in {NoShape, busShape}
  /\ worker = "blitted" =>
       \/ blitted.cursor.pending # NoShape
       \/ blitted.cursor.named \in {NoShape, busShape}

-----------------------------------------------------------------------------
(* Session events.                                                         *)

\* A full frame is owed only while one will be forced.
RefreshInv == (owed => forceFull) /\ SessionRefresh

-----------------------------------------------------------------------------
(* Damage.                                                                 *)

\* Desktop Duplication of one output: the frame published last shows the
\* region as the session last delivered it.
OutputShown ==
  worker \in {"loop", "acquire", "heartbeat", "shape"} =>
    \A c \in FrameColumns : last.image[c] = surface[region + c]

\* The frame that is held differs from it where its metadata says so.
Delivered(c) ==
  \/ region + c \in held.dirty
  \/ \E m \in held.moves :
       /\ m.to = region + c
       /\ m.from - region \in FrameColumns =>
            held.image[region + c] = last.image[m.from - region]
  \/ held.image[region + c] = last.image[c]

OutputInv ==
  options.backend = "output" =>
    /\ region \in Offsets
    /\ worker = "frame" => held.image = surface
    /\ heartbeat # NoHeartbeat =>
         /\ last # NoFrame
         /\ heartbeat.image = last.image /\ heartbeat.region = last.region
    /\ ~forceFull /\ last # NoFrame =>
         /\ last.region = region
         /\ OutputShown
         /\ worker = "frame" => \A c \in FrameColumns : Delivered(c)

\* Desktop Duplication of every output: the frame published last is the
\* composition, but for the outputs that are dirty.  After a cancelled
\* rebuild nothing more is published.
Composed == \A o \in Outputs : compose[o] = last.image[o]

\* While the outputs are polled.
Collected ==
  /\ ~anyFrame => Composed
  /\ ~overflow =>
       \A o \in Outputs : o \in dirty \/ compose[o] = last.image[o]

ComposeInv ==
  options.backend = "desktop" =>
    /\ DOMAIN compose = Outputs
    /\ last # NoFrame => last.region = 0
    /\ last # NoFrame /\ ~forceFull =>
         /\ worker \in {"loop", "shape"} /\ ~stopToken => Composed
         /\ worker = "poll" => Collected

DamageInv == Numbered /\ OutputInv /\ ComposeInv /\ DamageComplete

-----------------------------------------------------------------------------
(* Steps.                                                                  *)

\* What a frame on the bus is, whichever capture commits it.
LEMMA CommitIs ==
  ASSUME Numbered, NEW image, NEW x, NEW generationOf, NEW damage, NEW cursor,
         Commit(image, x, generationOf, damage, cursor)
  PROVE  /\ Numbered' /\ last' # NoFrame /\ before' = last
         /\ last'.image = image /\ last'.region = x
         /\ last'.damage = damage
         /\ last'.sequence = last.sequence + 1
         /\ last'.shape = cursor.named /\ last'.pending = cursor.pending
         /\ last'.owes = owed' /\ owed' = (owed /\ ~damage.full)
         /\ pendingShape' = cursor.pending
         /\ worker' = IF cursor.pending = NoShape THEN "loop" ELSE "shape"
<1>1. last'.sequence = last.sequence + 1 /\ previous' = last.sequence + 1
  BY DEF Commit
<1>2. last' # NoFrame
  BY <1>1 DEF Numbered, NoFrame
<1> QED BY <1>1, <1>2 DEF Commit, Numbered

\* A cursor of a frame announces a shape, or names none or the one that is
\* remembered.
Announces(cursor) ==
  cursor.pending # NoShape \/ cursor.named \in {NoShape, cursorShape}

LEMMA CursorsAnnounce ==
  /\ \A native : \A cursor \in BuiltCursors(native) : Announces(cursor)
  /\ \A cursor \in ComposeCursors : Announces(cursor)
  /\ \A cursor \in GdiCursors : Announces(cursor)
<1>1. Announces(NoCursor)
  BY DEF Announces, NoCursor
<1>2. \A p, q : Announces(CursorOf(p, q))
  BY DEF Announces, CursorOf
<1> QED BY <1>1, <1>2 DEF BuiltCursors, ComposeCursors, GdiCursors

\* The steps that every capture has.
CommonStep ==
  \/ WorkerStops \/ WorkerEnds \/ PublishShape \/ PublishShapeFails
  \/ StopRelease \/ DesktopChanges \/ SessionRuns \/ Initialize \/ Start
  \/ StopBegin \/ UNCHANGED captureVars

LEMMA Steps ==
  ASSUME [Next]_allVars
  PROVE  \/ /\ options.backend = "output"
            /\ OutputWorker \/ OutputGranted
            /\ UNCHANGED <<controllerVars, blitted>>
         \/ /\ options.backend = "desktop"
            /\ ControllerWorker \/ ControllerGranted
            /\ UNCHANGED <<outputVars, blitted>>
         \/ /\ options.backend = "gdi" /\ GdiWorker
            /\ UNCHANGED <<outputVars, controllerVars>>
         \/ CommonStep /\ UNCHANGED backendVars
BY DEF Next, WorkerStep, GrantedStep, StopsCapture, CommonStep, allVars

OutputCommit == PublishFrame \/ Heartbeat

\* A full frame that is owed is still forced.
RefreshKept == owed' => forceFull' \/ (owed /\ (forceFull => forceFull'))

Untouched ==
  UNCHANGED <<options, started, before, last, previous, cursorShape,
              pendingShape, busShape, stopToken>>

LEMMA LoopsIs ==
  ASSUME NEW next, WorkerLoops(next)
  PROVE  Untouched /\ RefreshKept /\ worker = "loop" /\ worker' = next
<1>1. Untouched
  BY DEF WorkerLoops, Untouched, lifeVars
<1>2. RefreshKept
  BY DEF WorkerLoops, RefreshKept
<1> QED BY <1>1, <1>2 DEF WorkerLoops

LEMMA FailIs ==
  ASSUME NEW at, NEW status, Fail(at, status), UNCHANGED failUnchanged
  PROVE  Untouched /\ RefreshKept /\ worker = at /\ worker' = "ended"
BY DEF Fail, failUnchanged, Untouched, RefreshKept, cursorVars, busVars

LEMMA OutputSteps ==
  ASSUME OutputWorker \/ OutputGranted, ~OutputCommit
  PROVE  /\ Untouched /\ RefreshKept /\ worker # "none"
         /\ worker' \in {"acquire", "frame", "heartbeat", "backoff",
                         "rebuild", "loop", "ended"}
<1>1. CASE \/ WorkerLoops("acquire") \/ AcquireFails \/ RebuildGivesUp
           \/ FrameFails \/ HeartbeatFails \/ RebuildFails
  BY <1>1, LoopsIs, FailIs DEF AcquireFails, RebuildGivesUp, FrameFails,
     HeartbeatFails, RebuildFails
<1>2. CASE AcquireFrame
  BY <1>2 DEF AcquireFrame, ForcedBy, Untouched, RefreshKept, lifeVars,
     cursorVars, busVars
<1>3. CASE AcquireTimeout \/ Backoff \/ HeartbeatSkipped
  BY <1>3 DEF AcquireTimeout, Backoff, HeartbeatSkipped, Untouched,
     RefreshKept, lifeVars, cursorVars, busVars
<1>4. CASE AccessLost
  BY <1>4 DEF AccessLost, Fail, Untouched, RefreshKept, cursorVars, busVars
<1>5. CASE SkipFrame \/ Rebuild
  BY <1>5 DEF SkipFrame, Rebuild, Untouched, RefreshKept, lifeVars,
     cursorVars, busVars
<1> QED BY <1>1, <1>2, <1>3, <1>4, <1>5 DEF OutputWorker, OutputGranted,
           OutputCommit

LEMMA ControllerSteps ==
  ASSUME ControllerWorker \/ ControllerGranted, ~PublishCompose
  PROVE  /\ Untouched /\ RefreshKept /\ worker # "none"
         /\ worker' \in {"poll", "topology", "sessions", "loop", "ended"}
<1>1. CASE \/ Iterate \/ PollFails \/ TopologyRefused \/ SessionsCancelled
           \/ ComposeFails
  BY <1>1, LoopsIs, FailIs DEF Iterate, PollFails, TopologyRefused,
     SessionsCancelled, ComposeFails
<1>2. CASE PollTimeout \/ PollLost \/ TopologyDelayed
  BY <1>2 DEF PollTimeout, PollLost, PollsOn, TopologyDelayed, Untouched,
     RefreshKept, captureVars, lifeVars, workerVars, cursorVars, busVars
<1>3. CASE PollFrame
  BY <1>3 DEF PollFrame, PollsOn, Untouched, RefreshKept, lifeVars,
     cursorVars, busVars
<1>4. CASE TopologyCancelled \/ NoPublish
  BY <1>4 DEF TopologyCancelled, NoPublish, IterationEnds, PollsDone,
     Untouched, RefreshKept, lifeVars, cursorVars, busVars
<1>5. CASE TopologyRebuilt \/ SkipCompose
  BY <1>5 DEF TopologyRebuilt, SkipCompose, MayPublish, IterationEnds,
     PollsDone, Untouched, RefreshKept, lifeVars, cursorVars, busVars
<1> QED BY <1>1, <1>2, <1>3, <1>4, <1>5
        DEF ControllerWorker, ControllerGranted

LEMMA GdiSteps ==
  ASSUME GdiWorker, ~GdiPublish
  PROVE  /\ Untouched /\ RefreshKept /\ worker # "none"
         /\ worker' \in {"blit", "blitted", "loop", "ended"}
<1>1. CASE WorkerLoops("blit") \/ BlitFails \/ GdiPublishFails
  BY <1>1, LoopsIs, FailIs DEF BlitFails, GdiPublishFails
<1>2. CASE Blit \/ GdiSkip
  BY <1>2 DEF Blit, GdiSkip, Untouched, RefreshKept, lifeVars, cursorVars,
     busVars
<1> QED BY <1>1, <1>2 DEF GdiWorker

LEMMA CommonSteps ==
  ASSUME CommonStep
  PROVE  /\ UNCHANGED <<options, before, last, previous, owed, forceFull>>
         /\ \/ Start /\ UNCHANGED stopToken
            \/ StopBegin /\ UNCHANGED worker
            \/ UNCHANGED <<stopToken, started, worker>>
            \/ PublishShape /\ UNCHANGED <<stopToken, started>>
            \/ /\ worker # "none" /\ worker' \in {"ended", "done"}
               /\ UNCHANGED <<stopToken, started>>
         /\ UNCHANGED <<cursorShape, pendingShape, busShape>> \/ PublishShape
<1> USE DEF captureVars, lifeVars, workerVars, cursorVars, busVars
<1>1. CASE WorkerStops \/ WorkerEnds
  BY <1>1 DEF WorkerStops, WorkerEnds
<1>2. CASE PublishShape
  BY <1>2 DEF PublishShape
<1>3. CASE PublishShapeFails
  BY <1>3 DEF PublishShapeFails, Fail, failUnchanged
<1>4. CASE StopRelease \/ DesktopChanges \/ SessionRuns \/ Initialize
           \/ UNCHANGED captureVars
  BY <1>4 DEF StopRelease, DesktopChanges, SessionRuns, Initialize
<1>5. CASE Start \/ StopBegin
  BY <1>5 DEF Start, StopBegin
<1> QED BY <1>1, <1>2, <1>3, <1>4, <1>5 DEF CommonStep

-----------------------------------------------------------------------------
(* Cursor shapes and session events.                                       *)

\* The steps that commit a frame to the bus.
CommitStep ==
  \/ options.backend = "output" /\ OutputCommit
  \/ options.backend = "desktop" /\ PublishCompose
  \/ options.backend = "gdi" /\ GdiPublish

LEMMA CommitSteps ==
  ASSUME Numbered, CommitStep
  PROVE  /\ Numbered' /\ last' # NoFrame
         /\ UNCHANGED <<options, started, stopToken, cursorShape, busShape>>
         /\ worker # "none" /\ worker' \in {"loop", "shape"}
<1> USE DEF lifeVars
<1>1. CASE PublishFrame
  <2>1. PICK cursor :
          Commit(Mailbox(held.image), region, roi, BuildDamage, cursor)
    BY <1>1 DEF PublishFrame
  <2> QED BY <1>1, <2>1, CommitIs DEF PublishFrame
<1>2. CASE Heartbeat
  <2>1. PICK cursor :
          Commit(heartbeat.image, heartbeat.region, heartbeat.roi, NoDamage,
                 cursor)
    BY <1>2 DEF Heartbeat
  <2> QED BY <1>2, <2>1, CommitIs DEF Heartbeat
<1>3. CASE PublishCompose
  <2>1. PICK cursor : Commit(compose, 0, 1, ComposeDamage, cursor)
    BY <1>3 DEF PublishCompose
  <2> QED BY <1>3, <2>1, CommitIs DEF PublishCompose, MayPublish, PollsDone
<1>4. CASE GdiPublish
  BY <1>4, CommitIs DEF GdiPublish
<1> QED BY <1>1, <1>2, <1>3, <1>4 DEF CommitStep, OutputCommit

\* A step commits a frame, is another one of a back end, or a common one.
LEMMA Kinds ==
  ASSUME [Next]_allVars
  PROVE  \/ CommitStep
         \/ /\ ~CommitStep /\ Untouched /\ RefreshKept /\ worker # "none"
            /\ worker' \notin {"shape", "none"}
            /\ worker' = "blitted" => Blit
         \/ CommonStep /\ UNCHANGED backendVars
<1>1. CASE /\ options.backend = "output"
           /\ OutputWorker \/ OutputGranted
           /\ ~OutputCommit
  BY <1>1, OutputSteps DEF CommitStep
<1>2. CASE /\ options.backend = "desktop" /\ ~PublishCompose
           /\ ControllerWorker \/ ControllerGranted
  BY <1>2, ControllerSteps DEF CommitStep
<1>3. CASE options.backend = "gdi" /\ GdiWorker /\ ~GdiPublish
  <2>1. worker' = "blitted" => Blit
    BY <1>3 DEF GdiWorker, WorkerLoops, BlitFails, GdiSkip,
       GdiPublishFails, Fail
  <2> QED BY <1>3, <2>1, GdiSteps DEF CommitStep
<1> QED BY <1>1, <1>2, <1>3, Steps DEF CommitStep

LEMMA BasicsKept ==
  ASSUME Numbered, Unstarted, [Next]_allVars
  PROVE  Numbered' /\ Unstarted'
<1>1. CASE CommitStep
  BY <1>1, CommitSteps DEF Unstarted
<1>2. CASE Untouched /\ worker # "none"
  BY <1>2 DEF Untouched, Numbered, Unstarted
<1>3. CASE CommonStep
  <2>1. UNCHANGED <<last, previous>>
    BY <1>3, CommonSteps
  <2>2. Unstarted'
    <3>1. CASE Start \/ StopBegin
      BY <2>1, <3>1 DEF Start, StopBegin, workerVars, Unstarted
    <3>2. CASE PublishShape /\ UNCHANGED started
      BY <2>1, <3>2 DEF PublishShape, Unstarted
    <3>3. CASE UNCHANGED started /\ (UNCHANGED worker \/ worker # "none")
      BY <2>1, <3>3 DEF Unstarted
    <3> QED BY <1>3, <3>1, <3>2, <3>3, CommonSteps
  <2> QED BY <2>1, <2>2 DEF Numbered
<1> QED BY <1>1, <1>2, <1>3, Kinds

LEMMA ShapesCommitted ==
  ASSUME Numbered, ShapesInv, CommitStep
  PROVE  ShapesInv'
<1> DEFINE Committed(cursor) ==
      /\ Announces(cursor)
      /\ last'.shape = cursor.named /\ last'.pending = cursor.pending
      /\ pendingShape' = cursor.pending
      /\ worker' = IF cursor.pending = NoShape THEN "loop" ELSE "shape"
<1>1. \E cursor : Committed(cursor)
  <2>1. CASE PublishFrame
    <3>1. PICK cursor \in BuiltCursors(held.shape) :
            Commit(Mailbox(held.image), region, roi, BuildDamage, cursor)
      BY <2>1 DEF PublishFrame
    <3> QED BY <3>1, CommitIs, CursorsAnnounce
  <2>2. CASE Heartbeat
    <3>1. PICK cursor \in BuiltCursors(NoShape) :
            Commit(heartbeat.image, heartbeat.region, heartbeat.roi,
                   NoDamage, cursor)
      BY <2>2 DEF Heartbeat
    <3> QED BY <3>1, CommitIs, CursorsAnnounce
  <2>3. CASE PublishCompose
    <3>1. PICK cursor \in ComposeCursors :
            Commit(compose, 0, 1, ComposeDamage, cursor)
      BY <2>3 DEF PublishCompose
    <3> QED BY <3>1, CommitIs, CursorsAnnounce
  <2>4. CASE GdiPublish
    <3>1. Announces(blitted.cursor)
      BY <2>4 DEF GdiPublish, ShapesInv, Announces
    <3>2. Commit(blitted.image, 0, 1, GdiDamage, blitted.cursor)
      BY <2>4 DEF GdiPublish
    <3> QED BY <3>1, <3>2, CommitIs
  <2> QED BY <2>1, <2>2, <2>3, <2>4 DEF CommitStep, OutputCommit
<1>2. PICK cursor : Committed(cursor)
  BY <1>1
<1>3. last' # NoFrame /\ UNCHANGED <<cursorShape, busShape>>
  BY CommitSteps
<1> QED BY <1>2, <1>3 DEF ShapesInv, Announces

LEMMA ShapesKept ==
  ASSUME Numbered, Unstarted, ShapesInv, [Next]_allVars
  PROVE  ShapesInv'
<1>1. CASE CommitStep
  BY <1>1, ShapesCommitted
<1>2. CASE Untouched /\ worker' # "shape" /\ (worker' = "blitted" => Blit)
  <2>1. worker' = "blitted" =>
          Announces(blitted'.cursor)
    BY <1>2, CursorsAnnounce DEF Blit
  <2> QED BY <1>2, <2>1 DEF Untouched, ShapesInv, Announces
<1>3. CASE CommonStep /\ UNCHANGED backendVars
  <2>1. last' = last /\ blitted' = blitted
    BY <1>3, CommonSteps DEF backendVars
  <2>2. CASE PublishShape
    BY <2>1, <2>2 DEF PublishShape, ShapesInv
  <2>3. CASE ~PublishShape
    <3>1. UNCHANGED <<cursorShape, pendingShape, busShape>>
      BY <1>3, <2>3, CommonSteps
    <3>2. worker' = worker \/ worker' \in {"loop", "ended", "done"}
      BY <1>3, <2>3, CommonSteps DEF Start
    <3> QED BY <2>1, <3>1, <3>2 DEF ShapesInv
  <2> QED BY <2>2, <2>3
<1> QED BY <1>1, <1>2, <1>3, Kinds

LEMMA RefreshInvKept ==
  ASSUME Numbered, RefreshInv, [Next]_allVars
  PROVE  RefreshInv'
<1>1. CASE CommitStep
  <2> DEFINE Committed(damage) ==
        /\ last'.damage = damage /\ last'.owes = owed'
        /\ owed' = (owed /\ ~damage.full)
        /\ forceFull => damage.full \/ (damage = NoDamage /\ forceFull')
  <2>1. FullDamage.full
    BY DEF FullDamage
  <2>2. \E damage : Committed(damage)
    <3>1. CASE PublishFrame
      <4>1. PICK cursor :
              Commit(Mailbox(held.image), region, roi, BuildDamage, cursor)
        BY <3>1 DEF PublishFrame
      <4>2. forceFull => BuildDamage.full
        BY <2>1 DEF BuildDamage
      <4> HIDE DEF Committed
      <4>3. Committed(BuildDamage)
        BY <4>1, <4>2, CommitIs DEF Committed
      <4> QED BY <4>3
    <3>2. CASE Heartbeat
      <4>1. PICK cursor :
              Commit(heartbeat.image, heartbeat.region, heartbeat.roi,
                     NoDamage, cursor)
        BY <3>2 DEF Heartbeat
      <4>2. forceFull' = forceFull
        BY <3>2 DEF Heartbeat
      <4> HIDE DEF Committed
      <4>3. Committed(NoDamage)
        BY <4>1, <4>2, CommitIs DEF Committed
      <4> QED BY <4>3
    <3>3. CASE PublishCompose
      <4>1. PICK cursor : Commit(compose, 0, 1, ComposeDamage, cursor)
        BY <3>3 DEF PublishCompose
      <4>2. forceFull => ComposeDamage.full
        BY <2>1 DEF ComposeDamage
      <4> HIDE DEF Committed
      <4>3. Committed(ComposeDamage)
        BY <4>1, <4>2, CommitIs DEF Committed
      <4> QED BY <4>3
    <3>4. CASE GdiPublish
      <4>1. Commit(blitted.image, 0, 1, GdiDamage, blitted.cursor)
        BY <3>4 DEF GdiPublish
      <4>2. GdiDamage.full
        BY <2>1 DEF GdiDamage
      <4> HIDE DEF Committed
      <4>3. Committed(GdiDamage)
        BY <4>1, <4>2, CommitIs DEF Committed
      <4> QED BY <4>3
    <3> QED BY <1>1, <3>1, <3>2, <3>3, <3>4 DEF CommitStep, OutputCommit
  <2>3. PICK damage : Committed(damage)
    BY <2>2
  <2> QED BY <2>3 DEF RefreshInv, SessionRefresh
<1>2. CASE Untouched /\ RefreshKept
  BY <1>2 DEF Untouched, RefreshKept, RefreshInv, SessionRefresh
<1>3. CASE CommonStep
  BY <1>3, CommonSteps DEF RefreshInv, SessionRefresh
<1> QED BY <1>1, <1>2, <1>3, Kinds

-----------------------------------------------------------------------------
(* Damage of one output.                                                   *)

\* A heartbeat repeats the frame published last.
LEMMA HeartbeatRepeats ==
  ASSUME DamageInv, options.backend = "output", Heartbeat
  PROVE  DamageInv'
<1>1. PICK cursor :
        Commit(heartbeat.image, heartbeat.region, heartbeat.roi, NoDamage,
               cursor)
  BY DEF Heartbeat
<1>2. /\ Numbered' /\ last' # NoFrame /\ before' = last
      /\ last'.image = heartbeat.image /\ last'.region = heartbeat.region
      /\ last'.damage = NoDamage /\ worker' \in {"loop", "shape"}
  BY <1>1, CommitIs DEF DamageInv
<1>3. UNCHANGED <<options, region, surface, held, heartbeat, forceFull>>
  BY DEF Heartbeat, lifeVars, outputVars
<1>4. /\ heartbeat.image = last.image /\ heartbeat.region = last.region
      /\ last # NoFrame /\ region \in Offsets /\ worker = "heartbeat"
  BY DEF DamageInv, OutputInv, Heartbeat
<1>5. DamageComplete'
  BY <1>2, <1>4 DEF DamageComplete, Explains, NoDamage
<1>6. OutputInv'
  BY <1>2, <1>3, <1>4 DEF DamageInv, OutputInv, OutputShown
<1>7. ComposeInv'
  BY <1>3 DEF ComposeInv
<1> QED BY <1>2, <1>5, <1>6, <1>7 DEF DamageInv

\* What build_damage makes of the metadata of the frame that is held.
LEMMA DamageExplains ==
  ASSUME region \in Offsets, ~BuildDamage.full,
         NEW c \in FrameColumns, Delivered(c)
  PROVE  \/ c \in BuildDamage.dirty
         \/ \E m \in BuildDamage.moves :
              /\ m.to = c
              /\ held.image[region + c] = last.image[m.from]
              /\ m.from \in FrameColumns
         \/ held.image[region + c] = last.image[c]
<1> DEFINE moved == {m \in held.moves : m.to \in RegionColumns}
           replayed == {m \in moved : m.from \in RegionColumns}
           copied == (held.dirty \cap RegionColumns)
                       \cup {m.to : m \in moved \ replayed}
<1>1. /\ region \in Int /\ c \in Int /\ region + c \in RegionColumns
      /\ (region + c) - region = c /\ FrameWidth \in Int
  BY MonitorAssumption DEF Offsets, FrameColumns, RegionColumns
<1>2. /\ BuildDamage.dirty = {d - region : d \in copied}
      /\ BuildDamage.moves =
           {[from |-> m.from - region, to |-> m.to - region] :
              m \in replayed}
  BY DEF BuildDamage, FullDamage
<1> HIDE DEF copied, replayed
<1>3. CASE region + c \in copied
  BY <1>1, <1>2, <1>3
<1>4. CASE /\ region + c \notin copied
           /\ \E m \in held.moves :
                /\ m.to = region + c
                /\ m.from - region \in FrameColumns =>
                     held.image[region + c] = last.image[m.from - region]
  <2>1. PICK m \in held.moves :
          /\ m.to = region + c
          /\ m.from - region \in FrameColumns =>
               held.image[region + c] = last.image[m.from - region]
    BY <1>4
  <2>2. m \in moved
    BY <1>1, <2>1
  <2>3. m \in replayed /\ m.from \in RegionColumns
    BY <1>4, <2>1, <2>2 DEF copied, replayed
  <2>4. m.from - region \in FrameColumns
    BY <1>1, <2>3 DEF RegionColumns, FrameColumns
  <2>5. [from |-> m.from - region, to |-> m.to - region]
          \in BuildDamage.moves
    BY <1>2, <2>3
  <2> QED BY <1>1, <2>1, <2>4, <2>5
<1>5. CASE held.image[region + c] = last.image[c]
  BY <1>5
<1>6. CASE region + c \in held.dirty
  BY <1>1, <1>3, <1>6 DEF copied
<1> QED BY <1>3, <1>4, <1>5, <1>6 DEF Delivered

LEMMA FrameExplained ==
  ASSUME DamageInv, options.backend = "output", PublishFrame
  PROVE  DamageInv'
<1>1. PICK cursor :
        Commit(Mailbox(held.image), region, roi, BuildDamage, cursor)
  BY DEF PublishFrame
<1>2. /\ Numbered' /\ last' # NoFrame /\ before' = last
      /\ last'.sequence = last.sequence + 1
      /\ last'.image = Mailbox(held.image) /\ last'.region = region
      /\ last'.damage = BuildDamage /\ worker' \in {"loop", "shape"}
  BY <1>1, CommitIs DEF DamageInv
<1>3. UNCHANGED <<options, region, surface>> /\ ~forceFull'
  BY DEF PublishFrame, lifeVars
<1>4. /\ region \in Offsets /\ worker = "frame"
      /\ last.sequence \in Nat /\ previous = last.sequence
      /\ last.sequence = 0 => last = NoFrame
  BY DEF DamageInv, OutputInv, Numbered, PublishFrame
<1>5. \A c \in FrameColumns : last'.image[c] = held.image[region + c]
  BY <1>2 DEF Mailbox
<1>6. DamageComplete'
  <2> SUFFICES ASSUME last'.sequence > 1, ~last'.damage.full
               PROVE  /\ \A c \in FrameColumns : Explains(last.damage, c)'
                      /\ last'.damage.moves # {} =>
                           last'.damage.base = before'.sequence
    BY DEF DamageComplete
  <2>1. last # NoFrame
    BY <1>2, <1>4 DEF NoFrame
  <2>2. ~BuildDamage.full /\ ~forceFull
    BY <1>2 DEF BuildDamage, FullDamage
  <2>3. last.region = region /\ \A c \in FrameColumns : Delivered(c)
    BY <1>4, <2>1, <2>2 DEF DamageInv, OutputInv
  <2>4. ASSUME NEW c \in FrameColumns
        PROVE  Explains(last.damage, c)'
    BY <1>2, <1>4, <1>5, <2>2, <2>3, DamageExplains DEF Explains
  <2>5. BuildDamage.moves # {} => BuildDamage.base = previous
    BY <2>2 DEF BuildDamage, FullDamage
  <2> QED BY <1>2, <1>4, <2>4, <2>5
<1>7. OutputInv'
  <2>1. heartbeat' # NoHeartbeat =>
          heartbeat'.image = last'.image /\ heartbeat'.region = last'.region
    BY <1>2 DEF PublishFrame
  <2>2. OutputShown'
    BY <1>3, <1>4, <1>5 DEF OutputShown, DamageInv, OutputInv
  <2>3. surface = held.image
    BY <1>4 DEF DamageInv, OutputInv
  <2> QED BY <1>2, <1>3, <1>4, <2>1, <2>2, <2>3 DEF OutputInv
<1>8. ComposeInv'
  BY <1>3 DEF ComposeInv
<1> QED BY <1>2, <1>6, <1>7, <1>8 DEF DamageInv

\* AcquireNextFrame reports every column that differs.
LEMMA FrameDelivered ==
  ASSUME DamageInv, options.backend = "output", AcquireFrame
  PROVE  OutputInv'
<1>1. PICK moves \in MoveReports, coalesced \in BOOLEAN :
        /\ held' = [image |-> desktop, moves |-> moves,
                    dirty |-> Changed \ {m.to : m \in moves},
                    shape |-> NewShape]
        /\ forceFull' = ForcedBy(coalesced)
  BY DEF AcquireFrame
<1>2. /\ worker = "acquire" /\ worker' = "frame" /\ surface' = desktop
      /\ UNCHANGED <<options, region, heartbeat, last>>
  BY DEF AcquireFrame, lifeVars, busVars
<1>3. held'.image = desktop /\ held'.moves = moves
      /\ held'.dirty = Changed \ {m.to : m \in moves}
  BY <1>1
<1>4. ASSUME ~forceFull', last # NoFrame
      PROVE  last.region = region /\ \A c \in FrameColumns : Delivered(c)'
  <2>1. ~forceFull
    BY <1>1, <1>4 DEF ForcedBy
  <2>2. /\ last.region = region /\ region \in Offsets
        /\ \A c \in FrameColumns : last.image[c] = surface[region + c]
    BY <1>2, <1>4, <2>1 DEF DamageInv, OutputInv, OutputShown
  <2>3. ASSUME NEW c \in FrameColumns
        PROVE  Delivered(c)'
    <3>1. /\ region + c \in Columns /\ region \in Int
          /\ last.image[c] = surface[region + c]
      <4>1. DesktopWidth \in Int /\ FrameWidth \in Int
        BY MonitorAssumption
      <4>2. /\ region \in 0..(DesktopWidth - FrameWidth)
            /\ c \in 0..(FrameWidth - 1)
        BY <2>2 DEF Offsets, FrameColumns
      <4>3. region + c \in Columns
        BY <4>1, <4>2 DEF Columns
      <4> QED BY <2>2, <4>1, <4>2, <4>3
    <3>2. CASE desktop[region + c] = surface[region + c]
      BY <1>2, <1>3, <3>1, <3>2 DEF Delivered
    <3>3. CASE desktop[region + c] # surface[region + c]
      <4>1. region + c \in Changed
        BY <3>1, <3>3 DEF Changed
      <4>2. CASE \E m \in moves : m.to = region + c
        <5>1. PICK m \in moves : m.to = region + c
          BY <4>2
        <5>2. /\ m.from \in Columns
              /\ desktop[region + c] = surface[m.from]
          BY <5>1 DEF MoveReports
        <5>3. m.from - region \in FrameColumns =>
                last.image[m.from - region] = surface[m.from]
          <6>1. region + (m.from - region) = m.from
            BY <3>1, <5>2 DEF Columns
          <6> QED BY <2>2, <6>1
        <5> QED BY <1>2, <1>3, <5>1, <5>2, <5>3 DEF Delivered
      <4>3. CASE ~ \E m \in moves : m.to = region + c
        BY <1>2, <1>3, <4>1, <4>3 DEF Delivered
      <4> QED BY <4>2, <4>3
    <3> QED BY <3>2, <3>3
  <2> QED BY <2>2, <2>3
<1>5. heartbeat' # NoHeartbeat =>
        /\ last' # NoFrame
        /\ heartbeat'.image = last'.image /\ heartbeat'.region = last'.region
  BY <1>2 DEF DamageInv, OutputInv
<1> QED BY <1>2, <1>3, <1>4, <1>5 DEF DamageInv, OutputInv, OutputShown

\* The other steps force a full frame, end the capture, or leave what was
\* delivered alone.
LEMMA OutputQuiet ==
  ASSUME OutputInv, UNCHANGED <<options, last>>,
         options.backend = "output" =>
           /\ UNCHANGED heartbeat /\ region' \in Offsets
           /\ worker' = "frame" =>
                worker = "frame" /\ UNCHANGED <<held, surface>>
           /\ \/ forceFull'
              \/ last = NoFrame
              \/ /\ UNCHANGED <<region, surface>> /\ (forceFull => forceFull')
                 /\ worker' \in {"loop", "acquire", "heartbeat", "shape"} =>
                      worker \in {"loop", "acquire", "heartbeat", "shape"}
  PROVE  OutputInv'
BY DEF OutputInv, OutputShown, Delivered

LEMMA OutputKept ==
  ASSUME DamageInv, options.backend = "output", ~OutputCommit,
         OutputWorker \/ OutputGranted
  PROVE  OutputInv'
<1> USE DEF outputVars, sourceVars, lifeVars, busVars
<1>1. OutputInv /\ UNCHANGED <<options, last>>
  BY OutputSteps DEF DamageInv, Untouched
<1>2. region \in Offsets
  BY <1>1 DEF OutputInv
<1>3. CASE AcquireFrame
  BY <1>3, FrameDelivered
<1>4. CASE WorkerLoops("acquire") /\ UNCHANGED outputVars
  BY <1>1, <1>2, <1>4, OutputQuiet DEF WorkerLoops
<1>5. CASE AcquireTimeout \/ HeartbeatSkipped
  BY <1>1, <1>2, <1>5, OutputQuiet DEF AcquireTimeout, HeartbeatSkipped
<1>6. CASE \/ AcquireFails \/ RebuildGivesUp \/ FrameFails
           \/ HeartbeatFails \/ RebuildFails
  <2>1. /\ UNCHANGED <<outputVars, forceFull>> /\ worker' = "ended"
    BY <1>6 DEF AcquireFails, RebuildGivesUp, FrameFails, HeartbeatFails,
       RebuildFails, Fail, failUnchanged
  <2> QED BY <1>1, <1>2, <2>1, OutputQuiet
<1>7. CASE AccessLost \/ Backoff
  <2>1. /\ UNCHANGED <<region, surface, heartbeat, forceFull>>
        /\ worker' \in {"ended", "backoff", "rebuild"}
    BY <1>7 DEF AccessLost, Backoff, Fail
  <2> QED BY <1>1, <1>2, <2>1, OutputQuiet
<1>8. CASE SkipFrame \/ Rebuild
  <2>1. /\ UNCHANGED heartbeat /\ region' \in Offsets /\ forceFull'
        /\ worker' = "loop"
    BY <1>2, <1>8 DEF SkipFrame, Rebuild
  <2> QED BY <1>1, <2>1, OutputQuiet
<1> QED BY <1>3, <1>4, <1>5, <1>6, <1>7, <1>8 DEF OutputWorker,
           OutputGranted, OutputCommit

-----------------------------------------------------------------------------
(* Damage of every output.                                                 *)

\* The other steps force a full frame, end the capture, or leave what was
\* composed alone.
LEMMA ComposeQuiet ==
  ASSUME ComposeInv, UNCHANGED <<options, last, stopToken>>,
         options.backend = "desktop" =>
           /\ DOMAIN compose' = Outputs
           /\ \/ forceFull' \/ last = NoFrame
              \/ worker' \notin {"loop", "shape", "poll"}
              \/ stopToken /\ worker' # "poll"
              \/ /\ UNCHANGED <<compose, anyFrame, dirty, overflow>>
                 /\ forceFull => forceFull'
                 /\ \/ worker' \in {"loop", "shape"}
                         /\ worker \in {"loop", "shape"}
                    \/ worker' = worker
  PROVE  ComposeInv'
BY DEF ComposeInv, Composed, Collected

\* What a poll copies is dirty, or as it was.
LEMMA PollCollects ==
  ASSUME ComposeInv, options.backend = "desktop", PollFrame
  PROVE  ComposeInv'
<1> DEFINE k == NextOutput
           reported == IF desktop[k] # compose[k] THEN {k} ELSE {}
           fits == Cardinality(dirty \cup reported) <= MaxDirtyRects
<1>1. /\ worker' = "poll" /\ worker = "poll" /\ anyFrame' = TRUE
      /\ UNCHANGED <<options, last>> /\ (forceFull => forceFull')
  BY DEF PollFrame, PollsOn, lifeVars, busVars
<1>2. compose' = [compose EXCEPT ![k] = desktop[k]]
  BY DEF PollFrame
<1>3. /\ dirty' = IF fits THEN dirty \cup reported ELSE dirty
      /\ overflow' \in {overflow \/ ~fits, TRUE}
  BY DEF PollFrame
<1> HIDE DEF fits, k
<1>4. ~overflow' => ~overflow /\ fits
  BY <1>3
<1>5. DOMAIN compose = Outputs
  BY DEF ComposeInv
<1>6. ASSUME last # NoFrame, ~forceFull', ~overflow', NEW o \in Outputs
      PROVE  o \in dirty' \/ compose'[o] = last.image[o]
  <2>1. o \in dirty \/ compose[o] = last.image[o]
    BY <1>1, <1>4, <1>6 DEF ComposeInv, Collected
  <2>2. dirty' = dirty \cup reported
    BY <1>3, <1>4, <1>6
  <2>3. CASE o = k
    BY <1>2, <1>5, <2>1, <2>2, <2>3
  <2>4. CASE o # k
    BY <1>2, <1>5, <2>1, <2>2, <2>4
  <2> QED BY <2>3, <2>4
<1>7. last # NoFrame /\ ~forceFull' => Collected'
  BY <1>1, <1>6 DEF Collected
<1>8. DOMAIN compose' = Outputs
  BY <1>2, <1>5
<1>9. last # NoFrame => last.region = 0
  BY DEF ComposeInv
<1> QED BY <1>1, <1>7, <1>8, <1>9 DEF ComposeInv

LEMMA ComposeKept ==
  ASSUME ComposeInv, options.backend = "desktop", ~PublishCompose,
         ControllerWorker \/ ControllerGranted
  PROVE  ComposeInv'
<1> USE DEF lifeVars, busVars
<1>1. UNCHANGED <<options, last, stopToken>> /\ DOMAIN compose = Outputs
  BY ControllerSteps DEF Untouched, ComposeInv
<1>2. CASE Iterate
  <2>1. /\ worker = "loop" /\ ~stopToken /\ worker' = "poll"
        /\ dirty' = {} /\ overflow' = FALSE
        /\ UNCHANGED <<compose, anyFrame>> /\ (forceFull => forceFull')
    BY <1>2 DEF Iterate, WorkerLoops
  <2>2. last # NoFrame /\ ~forceFull' => Composed'
    BY <1>1, <2>1 DEF ComposeInv, Composed
  <2> QED BY <1>1, <2>1, <2>2 DEF ComposeInv, Composed, Collected
<1>3. CASE PollTimeout
  BY <1>1, <1>3, ComposeQuiet DEF PollTimeout, captureVars, workerVars
<1>4. CASE PollFrame
  BY <1>4, PollCollects
<1>5. CASE \/ PollFails \/ PollLost \/ TopologyDelayed \/ TopologyRefused
           \/ SessionsCancelled \/ ComposeFails
  <2>1. worker' \in {"ended", "topology", "sessions"} /\ UNCHANGED compose
    BY <1>5 DEF PollFails, PollLost, TopologyDelayed, TopologyRefused,
       SessionsCancelled, ComposeFails, Fail, controllerVars
  <2> QED BY <1>1, <2>1, ComposeQuiet
<1>6. CASE TopologyCancelled
  BY <1>1, <1>6, ComposeQuiet DEF TopologyCancelled, IterationEnds
<1>7. CASE NoPublish
  <2>1. /\ worker = "poll" /\ ~anyFrame /\ worker' = "loop"
        /\ UNCHANGED <<compose, forceFull>>
    BY <1>7 DEF NoPublish, PollsDone, IterationEnds
  <2> QED BY <1>1, <2>1 DEF ComposeInv, Collected, Composed
<1>8. CASE TopologyRebuilt
  <2>1. forceFull' /\ DOMAIN compose' = Outputs
    BY <1>8 DEF TopologyRebuilt, AllBlank
  <2> QED BY <1>1, <2>1, ComposeQuiet
<1>9. CASE SkipCompose
  <2>1. forceFull' /\ compose' = compose
    BY <1>9 DEF SkipCompose
  <2> QED BY <1>1, <2>1, ComposeQuiet
<1> QED BY <1>2, <1>3, <1>4, <1>5, <1>6, <1>7, <1>8, <1>9
        DEF ControllerWorker, ControllerGranted

\* A composition is published with the outputs that are dirty in it.
LEMMA ComposeExplained ==
  ASSUME DamageInv, options.backend = "desktop", PublishCompose
  PROVE  DamageInv'
<1>1. PICK cursor : Commit(compose, 0, 1, ComposeDamage, cursor)
  BY DEF PublishCompose
<1>2. /\ Numbered' /\ last' # NoFrame /\ before' = last
      /\ last'.sequence = last.sequence + 1
      /\ last'.image = compose /\ last'.region = 0
      /\ last'.damage = ComposeDamage /\ worker' \in {"loop", "shape"}
  BY <1>1, CommitIs DEF DamageInv
<1>3. UNCHANGED <<options, compose>> /\ worker = "poll"
  BY DEF PublishCompose, lifeVars, MayPublish, PollsDone
<1>4. /\ DOMAIN compose = Outputs
      /\ last # NoFrame => last.region = 0
      /\ last # NoFrame /\ ~forceFull => Collected
      /\ last.sequence \in Nat
  BY <1>3 DEF DamageInv, ComposeInv, Numbered
<1>5. ComposeInv'
  BY <1>2, <1>3, <1>4 DEF ComposeInv, Composed
<1>6. OutputInv'
  BY <1>3 DEF OutputInv
<1>7. DamageComplete'
  <2> SUFFICES ASSUME last'.sequence > 1, ~last'.damage.full
               PROVE  /\ \A c \in FrameColumns : Explains(last.damage, c)'
                      /\ last'.damage.moves = {}
    BY DEF DamageComplete
  <2>1. last # NoFrame
    BY <1>2, <1>4 DEF NoFrame
  <2>2. /\ ~forceFull /\ (~anyFrame => ComposeDamage = NoDamage)
        /\ anyFrame => ~overflow /\ ComposeDamage.dirty = dirty
        /\ ComposeDamage.moves = {}
    BY <1>2 DEF ComposeDamage, FullDamage, NoDamage
  <2>3. Collected /\ last.region = 0
    BY <1>4, <2>1, <2>2
  <2>4. ASSUME NEW c \in FrameColumns
        PROVE  Explains(last.damage, c)'
    <3>1. c \in ComposeDamage.dirty \/ compose[c] = last.image[c]
      BY <2>2, <2>3 DEF Collected, Composed, Outputs
    <3> QED BY <1>2, <2>3, <3>1 DEF Explains
  <2> QED BY <1>2, <2>2, <2>4
<1> QED BY <1>2, <1>5, <1>6, <1>7 DEF DamageInv

-----------------------------------------------------------------------------
(* The three together.                                                     *)

\* GDI's frames are full ones.
LEMMA BlitExplained ==
  ASSUME DamageInv, options.backend = "gdi", GdiPublish
  PROVE  DamageInv'
<1>1. Commit(blitted.image, 0, 1, GdiDamage, blitted.cursor)
  BY DEF GdiPublish
<1>2. Numbered' /\ last'.damage = FullDamage
  BY <1>1, CommitIs DEF DamageInv, GdiDamage
<1>3. options' = options
  BY DEF GdiPublish, lifeVars
<1>4. OutputInv' /\ ComposeInv'
  BY <1>3 DEF OutputInv, ComposeInv
<1>5. DamageComplete'
  BY <1>2 DEF DamageComplete, FullDamage
<1> QED BY <1>2, <1>4, <1>5 DEF DamageInv

\* What every capture does besides moves no frame.
LEMMA DamageCommon ==
  ASSUME DamageInv, Unstarted, CommonStep, UNCHANGED backendVars
  PROVE  DamageInv'
<1>1. UNCHANGED <<options, before, last, previous, forceFull>>
  BY CommonSteps
<1>2. UNCHANGED <<outputVars, controllerVars>>
  BY DEF backendVars
<1>3. OutputInv /\ ComposeInv
  BY DEF DamageInv
<1>4. Numbered' /\ DamageComplete'
  BY <1>1 DEF DamageInv, Numbered, DamageComplete, Explains
<1>5. CASE last = NoFrame
  <2>1. OutputInv'
    <3>1. worker' = "frame" => worker = "frame"
      BY CommonSteps DEF Start, PublishShape
    <3>2. UNCHANGED <<region, heartbeat, held, surface>>
      BY <1>2 DEF outputVars
    <3>3. region \in Offsets \/ options.backend # "output"
      BY <1>3 DEF OutputInv
    <3> QED BY <1>1, <1>3, <1>5, <3>1, <3>2, <3>3, OutputQuiet
  <2>2. ComposeInv'
    BY <1>1, <1>2, <1>3, <1>5 DEF ComposeInv, controllerVars
  <2> QED BY <1>4, <2>1, <2>2 DEF DamageInv
<1>6. CASE last # NoFrame
  <2>1. started
    BY <1>6 DEF Unstarted
  <2>2. \/ UNCHANGED <<stopToken, worker>>
        \/ stopToken' /\ UNCHANGED worker
        \/ worker = "shape" /\ worker' = "loop" /\ UNCHANGED stopToken
        \/ worker' \in {"ended", "done"} /\ UNCHANGED stopToken
    <3>1. CASE Start
      BY <2>1, <3>1 DEF Start
    <3>2. CASE StopBegin /\ UNCHANGED worker
      BY <2>1, <3>2 DEF StopBegin
    <3>3. CASE PublishShape /\ UNCHANGED stopToken
      BY <3>3 DEF PublishShape
    <3> QED BY <3>1, <3>2, <3>3, CommonSteps
  <2>3. OutputInv'
    <3>1. UNCHANGED <<region, heartbeat, held, surface>>
      BY <1>2 DEF outputVars
    <3>2. region \in Offsets \/ options.backend # "output"
      BY <1>3 DEF OutputInv
    <3> QED BY <1>1, <1>3, <2>2, <3>1, <3>2, OutputQuiet
  <2>4. ComposeInv'
    <3>1. UNCHANGED <<compose, anyFrame, dirty, overflow>>
      BY <1>2 DEF controllerVars
    <3> QED BY <1>1, <1>3, <2>2, <3>1 DEF ComposeInv, Composed, Collected
  <2> QED BY <1>4, <2>3, <2>4 DEF DamageInv
<1> QED BY <1>5, <1>6

LEMMA DamageInvKept ==
  ASSUME DamageInv, Unstarted, [Next]_allVars
  PROVE  DamageInv'
<1>1. CASE options.backend = "output" /\ OutputCommit
  BY <1>1, HeartbeatRepeats, FrameExplained DEF OutputCommit
<1>2. CASE options.backend = "desktop" /\ PublishCompose
  BY <1>2, ComposeExplained
<1>3. CASE options.backend = "gdi" /\ GdiPublish
  BY <1>3, BlitExplained
<1>4. CASE ~CommitStep /\ Untouched
  <2>1. Numbered' /\ DamageComplete' /\ options' = options
    BY <1>4 DEF DamageInv, Untouched, Numbered, DamageComplete, Explains
  <2>2. OutputInv' /\ ComposeInv'
    <3>1. CASE /\ options.backend = "output"
               /\ OutputWorker \/ OutputGranted
      BY <1>4, <2>1, <3>1, OutputKept DEF CommitStep, ComposeInv
    <3>2. CASE /\ options.backend = "desktop"
               /\ ControllerWorker \/ ControllerGranted
      BY <1>4, <2>1, <3>2, ComposeKept DEF CommitStep, OutputInv, DamageInv
    <3>3. CASE options.backend = "gdi"
      BY <2>1, <3>3 DEF OutputInv, ComposeInv
    <3>4. CASE CommonStep /\ UNCHANGED backendVars
      BY <3>4, DamageCommon DEF DamageInv
    <3> QED BY <3>1, <3>2, <3>3, <3>4, Steps
  <2> QED BY <2>1, <2>2 DEF DamageInv
<1>5. CASE CommonStep /\ UNCHANGED backendVars
  BY <1>5, DamageCommon
<1> QED BY <1>1, <1>2, <1>3, <1>4, <1>5, Kinds DEF CommitStep

LEMMA Initially ==
  ASSUME Init
  PROVE  Numbered /\ Unstarted /\ ShapesInv /\ RefreshInv /\ DamageInv
<1>1. /\ last = NoFrame /\ before = NoFrame /\ previous = 0 /\ ~started
      /\ worker = "none" /\ ~owed
      /\ cursorShape = NoShape /\ busShape = NoShape
  BY DEF Init, CaptureInit
<1>2. Numbered /\ Unstarted /\ ShapesInv /\ RefreshInv
  BY <1>1 DEF Numbered, Unstarted, ShapesInv, RefreshInv, SessionRefresh,
     NoFrame
<1>3. OutputInv
  <2>1. options.backend = "output" => region \in Offsets
    BY DEF Init, OutputInit
  <2>2. heartbeat = NoHeartbeat
    BY DEF Init, OutputInit
  <2> QED BY <1>1, <2>1, <2>2 DEF OutputInv
<1>4. ComposeInv
  BY <1>1 DEF Init, ControllerInit, AllBlank, ComposeInv
<1>5. DamageComplete
  BY <1>1 DEF DamageComplete, NoFrame
<1> QED BY <1>2, <1>3, <1>4, <1>5 DEF DamageInv

-----------------------------------------------------------------------------
(* Theorems.                                                               *)

\* A frame that names a cursor shape without announcing it names the one
\* published last, whichever capture it is of, also when shapes cannot be
\* extracted, frames find no slot and heartbeats repeat older frames
\* (build_cursor and publish_shared_frame_bus_cursor_shape).
THEOREM ShapesAnnounced == Spec => []ShapeAnnounced
<1>1. Init => Numbered /\ Unstarted /\ ShapesInv
  BY Initially
<1>2. Numbered /\ Unstarted /\ ShapesInv /\ [Next]_allVars
        => Numbered' /\ Unstarted' /\ ShapesInv'
  BY BasicsKept, ShapesKept
<1>3. ShapesInv => ShapeAnnounced
  BY DEF ShapesInv, ShapeAnnounced
<1> QED BY <1>1, <1>2, <1>3, PTL DEF Spec

\* No frame of new content is published between a session event that the
\* worker has noticed and the full frame that answers it, whatever is lost,
\* rebuilt or skipped in between (worker_main's force_full_next).
THEOREM EventsRefresh == Spec => []SessionRefresh
<1>1. Init => Numbered /\ Unstarted /\ RefreshInv
  BY Initially
<1>2. Numbered /\ Unstarted /\ RefreshInv /\ [Next]_allVars
        => Numbered' /\ Unstarted' /\ RefreshInv'
  BY BasicsKept, RefreshInvKept
<1>3. RefreshInv => SessionRefresh
  BY DEF RefreshInv
<1> QED BY <1>1, <1>2, <1>3, PTL DEF Spec

\* The damage of every frame on the bus tells all that differs from the frame
\* before it, and its moves start from that frame, through frames dropped for
\* want of a slot, access losses, rebuilds that move the region, cancelled
\* rebuilds of the topology, heartbeats and session events (build_damage,
\* publish_compose and publish_heartbeat).
THEOREM DamageTold == Spec => []DamageComplete
<1>1. Init => Numbered /\ Unstarted /\ DamageInv
  BY Initially
<1>2. Numbered /\ Unstarted /\ DamageInv /\ [Next]_allVars
        => Numbered' /\ Unstarted' /\ DamageInv'
  BY BasicsKept, DamageInvKept
<1>3. DamageInv => DamageComplete
  BY DEF DamageInv
<1> QED BY <1>1, <1>2, <1>3, PTL DEF Spec
=============================================================================
