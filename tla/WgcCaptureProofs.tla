-------------------------- MODULE WgcCaptureProofs --------------------------
(***************************************************************************)
(* Proofs about WgcCapture and WgcBusCapture for every number of slots,    *)
(* consumers and frames, every size and every mailbox and bus              *)
(* configuration.                                                          *)
(***************************************************************************)
EXTENDS WgcBusCapture, TLAPS, FiniteSetTheorems, WellFoundedInduction
-----------------------------------------------------------------------------
(* Types.                                                                  *)

SlotStates == {"free", "writing", "ready", "reading"}
Words == [generation : Nat, state : SlotStates]
Regions == [x : Int, width : Int]
Frames == [sequence : Nat, region : Regions]
Leases == [slot : Slots, token : Nat, frame : Frames]
Boxes == [config : MailboxConfigs, generation : Nat, available : BOOLEAN]
Damages == [base : Nat, full : BOOLEAN, overflow : BOOLEAN,
            discontinuity : BOOLEAN, dirty : SUBSET Int]
Pendings == [full : BOOLEAN, overflow : BOOLEAN, discontinuity : BOOLEAN,
             base : Nat, dirty : SUBSET Columns, count : Nat]

\* Where on_frame is in a capture with a ring, and in a bus-only one.
RingPoints == {"claim", "evict", "steal", "copy", "publish"}
CommitPoints == {"shape", "header", "data", "even", "finish"}

ClaimStates == [at : {"claim", "copy"}, slot : Slots]
EvictStates == [at : {"evict"}, preserve : BOOLEAN, attempt : Int]
StealStates == [at : {"steal"}, slot : Slots, seen : Words,
                preserve : BOOLEAN, attempt : Int]
PublishStates == [at : {"publish"}, slot : Slots, damage : Damages]
BeginStates == [at : {"idle", "begin"}]
DrainStates == [at : {"drain"}, next : {"begin", "wake", "worker"}]
FrameStates == [at : {"submit", "write"} \cup CommitPoints,
                scheduled : BOOLEAN]

WriterStates ==
  ClaimStates \cup EvictStates \cup StealStates \cup PublishStates
    \cup BeginStates \cup DrainStates \cup FrameStates

ReaderStates ==
  [at : {"idle", "lock", "check", "block", "wait"}]
    \cup [at : {"take"}, slot : Slots, seen : Words]
    \cup [at : {"purge"}, newest : Nat]

Typed ==
  /\ bus \in BusConfigs \cup {NoBus}
  /\ control \in [Slots -> Words]
  /\ slotMailbox \in [Slots -> Nat]
  /\ frame \in [Slots -> Frames]
  /\ sequence \in Nat
  /\ mailbox \in Boxes
  /\ poolSize \in 0 .. MaxSize /\ sourceSize \in 0 .. MaxSize
  /\ writer \in WriterStates
  /\ reader \in [Consumers -> ReaderStates]
  /\ lease \in [Consumers -> SUBSET Leases]
  /\ pending \in Pendings
  /\ changed \in SUBSET Columns
  /\ published \in [sequence : Nat, region : Regions, complete : BOOLEAN]

Readbacks == [sequence : Nat, base : Nat, from : Nat, to : Nat,
              discard : BOOLEAN, completed : BOOLEAN]
Submissions == [active : {TRUE}, scheduled : BOOLEAN, hasPrevious : BOOLEAN,
                previousSequence : Nat, lastSequence : Nat]
Engines == [initialized : {TRUE}, width : Int, source : [size : Int, x : Int],
            hasPrevious : BOOLEAN, previousSequence : Nat,
            lastSequence : Nat, hash : [current : Nat, previous : Nat],
            readbacks : Seq(Readbacks),
            submission : Submissions \cup {NotActive}]
Results == [sequence : Nat, base : Nat, from : Nat, to : Nat,
            failClosed : BOOLEAN]

MovesTyped ==
  /\ engine \in Engines \cup {NoEngine}
  /\ awaited \in SUBSET Nat
  /\ moveResult \in Results \cup {NoResult}

Entries == [base : Nat, shape : Nat, shapePending : BOOLEAN]
ShapeSlotStates == [commit : Nat, shape : Nat, data : Nat]
ShapeReaders ==
  [at : {"idle"}, result : [want : Nat, data : Nat]]
    \cup [at : {"before", "header", "data", "after"}, want : Nat,
          slot : ShapeSlotIds, attempt : Int, before : Nat, data : Nat,
          result : {NoShape}]

ShapesTyped ==
  /\ committed \in Seq(Entries) /\ cursorShape \in Nat
  /\ shapeSlots \in [ShapeSlotIds -> ShapeSlotStates]
  /\ shapeCommit \in Nat /\ shapeNext \in ShapeSlotIds
  /\ shapeReader \in ShapeReaders

-----------------------------------------------------------------------------
(* The private ring.                                                       *)

\* A ready slot shows the frame its control word names, in the present
\* generation of the mailbox.
ReadyShown ==
  \A s \in Slots : control[s].state = "ready" =>
    /\ frame[s].sequence = control[s].generation
    /\ slotMailbox[s] = mailbox.generation /\ mailbox.available

\* The callback's slot is nobody else's while it is written.
WriterOwns ==
  /\ writer.at \in {"copy", "publish"} =>
       control[writer.slot].state = "writing"
  /\ writer.at = "publish" =>
       /\ frame[writer.slot].sequence = sequence
       /\ slotMailbox[writer.slot] = mailbox.generation
  /\ writer.at = "steal" => writer.seen.state = "ready"
  /\ writer.at \in RingPoints => mailbox.available

\* A compare-exchange succeeds on a ready word only.
TakersSeeReady ==
  \A c \in Consumers : reader[c].at = "take" => reader[c].seen.state = "ready"

LeasesApart ==
  \A c, d \in Consumers : \A l \in lease[c], m \in lease[d] :
    l.slot = m.slot => c = d /\ l = m

RingInv ==
  /\ ReadyShown /\ WriterOwns /\ TakersSeeReady
  /\ LeaseIntact /\ LeasesApart

-----------------------------------------------------------------------------
(* Damage.                                                                 *)

\* What is pending is relative to the last frame published, except between
\* the commit of a frame to the bus and the end of its callback.
PendingKnows ==
  /\ writer.at \notin CommitPoints /\ ~pending.full =>
       /\ pending.base = published.sequence
       /\ published.region = Region
       /\ changed \subseteq pending.dirty
  /\ writer.at \in CommitPoints =>
       /\ published.sequence = sequence + 1
       /\ published.region = Region
       /\ changed = {}

DamageReady ==
  writer.at = "publish" =>
    /\ frame[writer.slot].region = Region
    /\ Rebuilds(writer.damage, Region, changed, published)

DamageInv == PendingKnows /\ DamageReady /\ DamageComplete

-----------------------------------------------------------------------------
(* Moves.                                                                  *)

MovesBus == bus.only /\ bus.moves

\* Every frame on the bus has a number; damage is pending since the last.
Numbered ==
  bus.only =>
    /\ pending.base = sequence
    /\ Len(committed) = IF writer.at \in CommitPoints THEN sequence + 1
                        ELSE sequence

\* A submission is provisional between BusSubmit and BusCommit.
SubmissionPlaced ==
  /\ engine.initialized => MovesBus
  /\ writer.at = "submit" => MovesBus
  /\ writer.at = "write" /\ MovesBus => engine.initialized
  /\ writer.at = "write" /\ bus.only /\ ~bus.moves => ~writer.scheduled
  /\ engine.initialized =>
       /\ engine.submission.active <=> writer.at = "write"
       /\ engine.submission.active =>
            engine.submission.scheduled = writer.scheduled

\* The last readback is the provisional submission's.
Provisional ==
  engine.submission.active /\ engine.submission.scheduled

\* The baseline is the last frame on the bus.
BaselineKept ==
  engine.initialized =>
    /\ ~engine.submission.active /\ engine.hasPrevious =>
         /\ engine.previousSequence = Len(committed)
         /\ engine.hash.previous = Len(committed)
    /\ engine.submission.active =>
         /\ engine.previousSequence = Len(committed) + 1
         /\ engine.hash.previous = Len(committed) + 1
         /\ engine.submission.hasPrevious =>
              /\ engine.submission.previousSequence = Len(committed)
              /\ engine.hash.current = Len(committed)

OfCommitted(r) ==
  /\ r.sequence \in 1 .. Len(committed)
  /\ r.base = committed[r.sequence].base
  /\ r.from = r.base /\ r.to = r.sequence

OfProvisional(r) ==
  /\ ~r.discard
  /\ r.sequence = Len(committed) + 1
  /\ r.base = Len(committed)
  /\ r.from = r.base /\ r.to = r.sequence

ReadbacksMatch ==
  engine.initialized =>
    /\ Provisional =>
         /\ engine.readbacks # <<>>
         /\ OfProvisional(engine.readbacks[Len(engine.readbacks)])
    /\ \A i \in 1 .. Len(engine.readbacks) :
         \/ Provisional /\ i = Len(engine.readbacks)
         \/ engine.readbacks[i].discard
         \/ OfCommitted(engine.readbacks[i])

ResultMatches ==
  moveResult # NoResult =>
    /\ moveResult.sequence \in 1 .. Len(committed)
    /\ moveResult.base = committed[moveResult.sequence].base
    /\ moveResult.from = moveResult.base
    /\ moveResult.to = moveResult.sequence

MovesInv ==
  /\ Numbered /\ SubmissionPlaced /\ BaselineKept /\ ReadbacksMatch
  /\ ResultMatches

\* The result of a frame is queued behind it.
ResultQueued(n) ==
  /\ engine.initialized
  /\ n <= Len(committed)
  /\ \E i \in 1 .. Len(engine.readbacks) :
       engine.readbacks[i].sequence = n /\ ~engine.readbacks[i].discard

StopQuiets ==
  /\ stopped => ~running
  /\ workerStop => stopped
  /\ running \in BOOLEAN

\* Nothing is awaited before start, nor in a capture with a ring.
Unawaited ==
  /\ ~started => writer.at = "idle" /\ worker = "none" /\ ~running
  /\ ~started \/ ~bus.only => awaited = {}

Queued == running => \A n \in awaited : ResultQueued(n)

\* The worker is awake or about to be woken while a result is awaited.
Awake ==
  running /\ awaited # {} =>
    \/ worker \in {"loop", "drain", "pause"} \/ workerWake = TRUE
    \/ writer.at \in CommitPoints /\ writer.scheduled
    \/ writer.at = "drain" /\ writer.next = "wake"

PursuitInv == StopQuiets /\ Unawaited /\ Queued /\ Awake

-----------------------------------------------------------------------------
(* Cursor shapes.                                                          *)

Storing == writer.at \in {"header", "data", "even"}

ShapeSlotSound(i) ==
  IF Storing /\ i = shapeNext
  THEN /\ shapeSlots[i].commit = shapeCommit + 1
       /\ writer.at \in {"data", "even"} => shapeSlots[i].shape = cursorShape
       /\ writer.at = "even" => shapeSlots[i].data = cursorShape
  ELSE /\ shapeSlots[i].commit <= shapeCommit
       /\ shapeSlots[i].commit % 2 = 0
       /\ shapeSlots[i].data = shapeSlots[i].shape

\* What a consumer has read is of the slot's present shape, unless the slot
\* has been written since.
ReadingSound ==
  shapeReader.at \in {"header", "data", "after"} =>
    /\ shapeReader.before % 2 = 0
    /\ shapeReader.before <= shapeCommit
    /\ shapeSlots[shapeReader.slot].commit = shapeReader.before =>
         /\ shapeReader.at \in {"data", "after"} =>
              shapeSlots[shapeReader.slot].shape = shapeReader.want
         /\ shapeReader.at = "after" => shapeReader.data = shapeReader.want

ShapesInv ==
  /\ shapeCommit % 2 = 0
  /\ \A i \in ShapeSlotIds : ShapeSlotSound(i)
  /\ ReadingSound
  /\ NoTornShape

-----------------------------------------------------------------------------
(* Lemmas about the operators.                                             *)

\* A set of naturals has a least element.
LEMMA Minimum ==
  ASSUME NEW S, S \subseteq Nat, S # {}
  PROVE  \E x \in S : \A y \in S : x <= y
<1> DEFINE Less == OpToRel(<, Nat)
<1>1. IsWellFoundedOn(Less, Nat)
  BY NatLessThanWellFounded
<1>2. \A x, y \in Nat : x < y => <<x, y>> \in Less
  BY DEF OpToRel
<1> HIDE DEF Less
<1>3. PICK x \in S : \A y \in S : ~ (<<y, x>> \in Less)
  BY <1>1, WFMin
<1>4. ASSUME NEW y \in S PROVE x <= y
  <2>1. x \in Nat /\ y \in Nat /\ ~ (y < x)
    BY <1>2, <1>3
  <2> QED BY <2>1
<1> QED BY <1>4

\* acquire_write_slot finds an oldest slot among some.
LEMMA OldestSlot ==
  ASSUME control \in [Slots -> Words], NEW S \in SUBSET Slots, S # {}
  PROVE  Oldest(S) \in S
<1> DEFINE G == {control[s].generation : s \in S}
<1>1. G \subseteq Nat /\ G # {}
  BY DEF Words
<1>2. PICK x \in G : \A y \in G : x <= y
  BY <1>1, Minimum
<1>3. PICK s \in S : x = control[s].generation
  OBVIOUS
<1>4. \A t \in S : control[t].generation >= control[s].generation
  <2> TAKE t \in S
  <2>1. control[t].generation \in G
    OBVIOUS
  <2>2. control[t].generation \in Nat /\ control[s].generation \in Nat
    BY DEF Words
  <2>3. control[s].generation <= control[t].generation
    BY <1>2, <1>3, <2>1
  <2> QED BY <2>2, <2>3
<1> QED BY <1>4 DEF Oldest

\* acquire_latest finds a newest slot among some: the one that fewest are
\* newer than.
LEMMA NewestSlot ==
  ASSUME control \in [Slots -> Words], NEW S \in SUBSET Slots, S # {}
  PROVE  Newest(S) \in S
<1> DEFINE gen(s) == control[s].generation
           Above(s) == {t \in S : gen(t) > gen(s)}
           T == {Above(s) : s \in S}
           Less == StrictSubsetOrdering(S)
<1>1. IsFiniteSet(S)
  <2>1. IsFiniteSet(1 .. SlotCount)
    BY CaptureAssumption, FS_Interval
  <2> QED BY <2>1, FS_Subset DEF Slots
<1>2. T \subseteq FiniteSubsetsOf(S) /\ T # {}
  <2>1. \A s \in S : Above(s) \in SUBSET S
    OBVIOUS
  <2>2. \A s \in S : IsFiniteSet(Above(s))
    BY <1>1, <2>1, FS_Subset
  <2>3. \A s \in S : Above(s) \in FiniteSubsetsOf(S)
    <3> HIDE DEF Above
    <3> QED BY <2>1, <2>2 DEF FiniteSubsetsOf
  <2> HIDE DEF Above
  <2> QED BY <2>3
<1>3. IsWellFoundedOn(Less, FiniteSubsetsOf(S))
  BY FS_StrictSubsetOrderingWellFounded
<1>4. \A s \in S : gen(s) \in Nat
  BY DEF Words
<1>5. \A s, t \in S : gen(t) > gen(s) => <<Above(t), Above(s)>> \in Less
  <2> SUFFICES ASSUME NEW s \in S, NEW t \in S, gen(t) > gen(s)
               PROVE  <<Above(t), Above(s)>> \in Less
    OBVIOUS
  <2>1. t \in Above(s) /\ t \notin Above(t)
    BY <1>4
  <2>2. Above(t) \subseteq Above(s)
    BY <1>4
  <2>3. Above(t) \in SUBSET S /\ Above(s) \in SUBSET S
    OBVIOUS
  <2>4. Above(t) # Above(s)
    BY <2>1
  <2> HIDE DEF Above
  <2> QED BY <2>2, <2>3, <2>4 DEF StrictSubsetOrdering
<1> HIDE DEF Less
<1>6. PICK A \in T : \A B \in T : ~ (<<B, A>> \in Less)
  <2> HIDE DEF T
  <2> QED BY <1>2, <1>3, WFMin
<1>7. PICK s \in S : A = Above(s)
  OBVIOUS
<1>8. \A t \in S : ~ (gen(t) > gen(s))
  <2> TAKE t \in S
  <2>1. Above(t) \in T
    OBVIOUS
  <2> HIDE DEF T, Above
  <2> QED BY <1>5, <1>6, <1>7, <2>1
<1>9. \A t \in S : gen(t) <= gen(s)
  BY <1>4, <1>8
<1> QED BY <1>9 DEF Newest

\* The region of a frame.
LEMMA RegionTyped ==
  ASSUME NEW config \in MailboxConfigs, NEW size \in 0 .. MaxSize
  PROVE  OutputRegion(config, size) \in Regions
<1>1. config \in ValidMailboxConfigs /\ size \in Int
  BY CaptureAssumption, DamageAssumption
<1>2. \/ config.mode = "full_frame"
      \/ config.x \in Int /\ config.width \in Int
  BY <1>1, DamageAssumption DEF ValidMailboxConfigs, FullFrame, Columns
<1>3. ResolveRegion(config, size) \in Regions
  BY <1>1, <1>2 DEF ResolveRegion, Regions, NoRegion
<1> QED BY <1>3 DEF OutputRegion, Regions, NoRegion

\* A change of configuration or size: all is damaged.
LEMMA FullTyped ==
  ASSUME NEW p \in Pendings, NEW discontinuity \in BOOLEAN
  PROVE  /\ ForceFullDamage(p, discontinuity) \in Pendings
         /\ ForceFullDamage(p, discontinuity).full
         /\ ForceFullDamage(p, discontinuity).base = p.base
<1> DEFINE b == p.discontinuity \/ discontinuity
           new == [p EXCEPT !.full = TRUE, !.dirty = {}, !.count = 0,
                            !.discontinuity = b]
<1>1. ForceFullDamage(p, discontinuity) = new
  BY DEF ForceFullDamage
<1>2. b \in BOOLEAN
  BY DEF Pendings
<1>3. {} \in SUBSET Columns
  OBVIOUS
<1> HIDE DEF b
<1>4. new \in Pendings /\ new.full /\ new.base = p.base
  BY <1>2, <1>3 DEF Pendings
<1> QED BY <1>1, <1>4

\* Collected damage is all there was and the frame's, or everything.
LEMMA CollectTyped ==
  ASSUME NEW p \in Pendings, NEW dirty \in SUBSET Columns,
         NEW native \in BOOLEAN,
         NEW q, q = CollectFrameDamage(p, dirty, native)
  PROVE  /\ q \in Pendings /\ q.base = p.base
         /\ ~q.full => /\ native /\ ~p.full
                       /\ q.dirty = p.dirty \cup dirty
<1>1. Cardinality(dirty) \in Nat
  <2>1. IsFiniteSet(Columns)
    BY DamageAssumption, FS_Interval DEF Columns
  <2> QED BY <2>1, FS_Subset, FS_CardinalityType
<1>2. /\ ForceFullDamage(p, FALSE) \in Pendings
      /\ ForceFullDamage(p, FALSE).full
      /\ ForceFullDamage(p, FALSE).base = p.base
  BY FullTyped
<1>3. CASE ~native
  BY <1>2, <1>3 DEF CollectFrameDamage
<1>4. CASE native /\ p.full
  BY <1>4 DEF CollectFrameDamage
<1>5. CASE native /\ ~p.full /\ p.count + Cardinality(dirty) > MaxDirtyRects
  <2> DEFINE f == ForceFullDamage(p, FALSE)
  <2>1. q = [f EXCEPT !.overflow = TRUE]
    BY <1>5 DEF CollectFrameDamage
  <2> HIDE DEF f
  <2>2. f \in Pendings /\ f.full /\ f.base = p.base
    BY <1>2 DEF f
  <2> QED BY <2>1, <2>2 DEF Pendings
<1>6. CASE /\ native /\ ~p.full
           /\ ~ (p.count + Cardinality(dirty) > MaxDirtyRects)
  <2>1. q = [p EXCEPT !.dirty = p.dirty \cup dirty,
                      !.count = p.count + Cardinality(dirty)]
    BY <1>6 DEF CollectFrameDamage
  <2>2. p.dirty \cup dirty \in SUBSET Columns
    BY DEF Pendings
  <2>3. p.count + Cardinality(dirty) \in Nat
    BY <1>1 DEF Pendings
  <2> QED BY <1>6, <2>1, <2>2, <2>3 DEF Pendings
<1> QED BY <1>3, <1>4, <1>5, <1>6

LEMMA PublishTyped ==
  ASSUME NEW p \in Pendings, NEW number \in Nat
  PROVE  CompleteDamagePublish(p, number) \in Pendings
BY DEF CompleteDamagePublish, Pendings

\* A frame's damage; it tells all that changed if what is pending does.
LEMMA DamageTyped ==
  ASSUME NEW p \in Pendings, NEW region \in Regions, NEW number \in Nat,
         NEW d, \/ d = CurrentDamage(p, region, number)
                \/ d = FullDamage(p, region, FALSE)
  PROVE  /\ d \in Damages
         /\ d.base = p.base
         /\ (~p.full => /\ p.base = published.sequence
                        /\ published.region = region
                        /\ changed \subseteq p.dirty)
              => Rebuilds(d, region, changed, published)
<1>1. Columns \subseteq Int
  BY DEF Columns
<1>2. \A b \in BOOLEAN : FullDamage(p, region, b) \in Damages
  <2> TAKE b \in BOOLEAN
  <2>1. 0 .. (region.width - 1) \in SUBSET Int
    BY DEF Regions
  <2> QED BY <2>1 DEF FullDamage, Damages, Pendings
<1>3. CASE \E b \in BOOLEAN : d = FullDamage(p, region, b)
  BY <1>2, <1>3 DEF FullDamage, Rebuilds
<1>4. CASE /\ ~p.full
           /\ d = [base |-> p.base, full |-> FALSE, overflow |-> p.overflow,
                   discontinuity |-> p.discontinuity,
                   dirty |-> {c - region.x :
                                c \in p.dirty \cap RegionColumns(region)}]
  <2> DEFINE D == {c - region.x : c \in p.dirty \cap RegionColumns(region)}
  <2>1. D \in SUBSET Int
    <3>1. p.dirty \subseteq Int /\ region.x \in Int
      BY <1>1 DEF Pendings, Regions
    <3>2. \A c \in p.dirty : c - region.x \in Int
      BY <3>1
    <3> QED BY <3>2
  <2>2. \A c \in p.dirty \cap RegionColumns(region) : c - region.x \in D
    OBVIOUS
  <2> HIDE DEF D
  <2>3. d = [base |-> p.base, full |-> FALSE, overflow |-> p.overflow,
             discontinuity |-> p.discontinuity, dirty |-> D]
    BY <1>4 DEF D
  <2>4. d \in Damages /\ d.base = p.base /\ d.dirty = D
    BY <2>1, <2>3 DEF Damages, Pendings
  <2>5. ASSUME p.base = published.sequence, published.region = region,
               changed \subseteq p.dirty
        PROVE  Rebuilds(d, region, changed, published)
    BY <2>2, <2>4, <2>5 DEF Rebuilds
  <2> QED BY <1>4, <2>4, <2>5
<1> QED BY <1>3, <1>4 DEF CurrentDamage

-----------------------------------------------------------------------------
(* Types are kept.                                                         *)

LEMMA WriterKinds ==
  ASSUME writer \in WriterStates
  PROVE  /\ writer.at \in {"claim", "copy"} => writer \in ClaimStates
         /\ writer.at = "evict" => writer \in EvictStates
         /\ writer.at = "steal" => writer \in StealStates
         /\ writer.at = "publish" => writer \in PublishStates
         /\ writer.at = "drain" => writer \in DrainStates
         /\ writer.at \in {"submit", "write"} \cup CommitPoints =>
              writer \in FrameStates
BY DEF WriterStates, ClaimStates, EvictStates, StealStates, PublishStates,
       BeginStates, DrainStates, FrameStates, CommitPoints

LEMMA IdleTyped ==
  Idle \in WriterStates /\ Idle.at = "idle" /\ Idle \in ReaderStates
BY DEF Idle, WriterStates, BeginStates, ReaderStates

\* event_cv.notify_all moves waiting consumers only.
LEMMA NotifyKeeps ==
  ASSUME reader \in [Consumers -> ReaderStates], reader' = Notify
  PROVE  /\ reader' \in [Consumers -> ReaderStates]
         /\ \A c \in Consumers :
              reader'[c].at = "take" => reader'[c] = reader[c]
<1>1. [at |-> "lock"] \in ReaderStates
  BY DEF ReaderStates
<1> QED BY <1>1 DEF Notify

LEMMA DiscardTyped ==
  ASSUME control \in [Slots -> Words], DiscardReadySlots
  PROVE  /\ control' \in [Slots -> Words]
         /\ \A s \in Slots :
              /\ control'[s].state # "ready"
              /\ control[s].state # "ready" => control'[s] = control[s]
<1>1. \A s \in Slots : DiscardReady(s) \in Words
  BY DEF DiscardReady, Words, SlotStates
<1>2. \A s \in Slots : /\ DiscardReady(s).state # "ready"
                       /\ control[s].state # "ready" =>
                            DiscardReady(s) = control[s]
  BY DEF DiscardReady, Words, SlotStates
<1> QED BY <1>1, <1>2 DEF DiscardReadySlots

\* A frame is drained from the pool.
LEMMA DrainedTyped ==
  ASSUME Typed, NEW dirty \in SUBSET Columns, NEW native \in BOOLEAN,
         FrameDrained(dirty, native)
  PROVE  /\ pending' \in Pendings /\ pending'.base = pending.base
         /\ changed' \in SUBSET Columns
         /\ ~pending'.full => /\ ~pending.full
                              /\ changed' = changed \cup dirty
                              /\ pending'.dirty = pending.dirty \cup dirty
         /\ writer = Idle /\ running
<1>1. /\ pending' = CollectFrameDamage(pending, dirty, native)
      /\ pending \in Pendings /\ changed \in SUBSET Columns
      /\ changed' = IF native THEN changed \cup dirty ELSE Columns
      /\ writer = Idle /\ running
  BY DEF FrameDrained, Typed
<1> QED BY <1>1, CollectTyped

LEMMA SomeDrained ==
  ASSUME Typed,
         \/ FrameDrained(Columns, FALSE)
         \/ \E dirty \in SUBSET Columns : FrameDrained(dirty, TRUE)
  PROVE  /\ pending' \in Pendings /\ pending'.base = pending.base
         /\ changed' \in SUBSET Columns
         /\ ~pending'.full =>
              /\ ~pending.full
              /\ changed \subseteq pending.dirty =>
                   changed' \subseteq pending'.dirty
         /\ writer = Idle /\ running
<1>1. PICK dirty \in SUBSET Columns, native \in BOOLEAN :
        FrameDrained(dirty, native)
  OBVIOUS
<1> QED BY <1>1, DrainedTyped

LEMMA SetMailboxTyped ==
  ASSUME Typed, NEW config \in MailboxConfigs, SetMailboxConfig(config)
  PROVE  Typed'
<1>1. /\ control' \in [Slots -> Words]
      /\ reader' \in [Consumers -> ReaderStates]
  BY DiscardTyped, NotifyKeeps DEF SetMailboxConfig, Typed
<1>2. mailbox' \in Boxes
  BY DEF SetMailboxConfig, Typed, Boxes
<1>3. pending' \in Pendings
  <2>1. ForceFullDamage(pending, TRUE) \in Pendings
    BY FullTyped DEF Typed
  <2> QED BY <2>1 DEF SetMailboxConfig, Typed, Pendings
<1> QED BY <1>1, <1>2, <1>3 DEF SetMailboxConfig, Typed, lifeVars

LEMMA ResizedTyped ==
  ASSUME Typed,
         FrameUnavailable \/ \E size \in Sizes : FrameResized(size)
  PROVE  Typed'
<1>1. pending' = ForceFullDamage(pending, TRUE) /\ changed' = Columns
  BY DEF FrameUnavailable, FrameResized
<1>2. pending' \in Pendings
  BY <1>1, FullTyped DEF Typed
<1>3. /\ control' \in [Slots -> Words]
      /\ reader' \in [Consumers -> ReaderStates]
  BY DiscardTyped, NotifyKeeps DEF FrameUnavailable, FrameResized, Typed
<1>4. Sizes \subseteq 0 .. MaxSize
  BY CaptureAssumption
<1>5. mailbox' \in Boxes /\ sourceSize' \in 0 .. MaxSize
      /\ poolSize' \in 0 .. MaxSize
  BY <1>4 DEF FrameUnavailable, FrameResized, Typed, Boxes
<1> QED BY <1>1, <1>2, <1>3, <1>5
           DEF FrameUnavailable, FrameResized, Typed, lifeVars

LEMMA CommonTyped ==
  ASSUME Typed, CommonStep
  PROVE  Typed'
<1>1. CASE OnClosed
  BY <1>1, NotifyKeeps DEF OnClosed, Typed, ringVars, boxVars, sourceVars
<1>2. CASE \E config \in MailboxConfigs : SetMailboxConfig(config)
  BY <1>2, SetMailboxTyped
<1>3. CASE FrameFails
  BY <1>3, SomeDrained DEF FrameFails, Typed, lifeVars, ringVars, boxVars
<1>4. CASE FrameUnavailable \/ \E size \in Sizes : FrameResized(size)
  BY <1>4, ResizedTyped
<1> QED BY <1>1, <1>2, <1>3, <1>4 DEF CommonStep

LEMMA RegionNow ==
  Typed => Region \in Regions
BY RegionTyped DEF Typed, Region, Boxes

LEMMA AcceptedTyped ==
  ASSUME Typed, NEW rest \in WriterStates, FrameAccepted(rest)
  PROVE  Typed'
<1>1. pending' \in Pendings /\ changed' \in SUBSET Columns
  BY SomeDrained DEF FrameAccepted
<1>2. mailbox' \in Boxes
  BY DEF FrameAccepted, Typed, Boxes
<1> QED BY <1>1, <1>2 DEF FrameAccepted, Typed, lifeVars, ringVars

LEMMA ClaimTyped ==
  ASSUME Typed, NEW s \in Slots, Claim(s)
  PROVE  control' \in [Slots -> Words] /\ writer' \in WriterStates
<1>1. [control[s] EXCEPT !.state = "writing"] \in Words
  BY DEF Typed, Words, SlotStates
<1>2. [at |-> "copy", slot |-> s] \in ClaimStates
  BY DEF ClaimStates
<1> QED BY <1>1, <1>2 DEF Claim, Typed, WriterStates

LEMMA ScanTyped ==
  ASSUME Typed, ScanFree \/ ScanReady \/ Steal
  PROVE  control' \in [Slots -> Words] /\ writer' \in WriterStates
<1> USE DEF Typed
<1>1. CASE ScanFree
  <2>1. writer \in ClaimStates /\ writer.slot \in Slots
    BY <1>1, WriterKinds DEF ScanFree, ClaimStates
  <2>2. CASE control[writer.slot].state = "free"
    BY <1>1, <2>1, <2>2, ClaimTyped DEF ScanFree
  <2>3. CASE control[writer.slot].state # "free" /\ writer.slot < SlotCount
    <3>1. writer.slot + 1 \in Slots
      BY <2>1, <2>3, CaptureAssumption DEF Slots
    <3>2. [writer EXCEPT !.slot = writer.slot + 1] \in ClaimStates
      BY <2>1, <3>1 DEF ClaimStates
    <3> QED BY <1>1, <2>3, <3>2 DEF ScanFree, WriterStates
  <2>4. CASE control[writer.slot].state # "free" /\ ~ (writer.slot < SlotCount)
    <3>1. ActiveAcquires \in BOOLEAN
      BY DEF ActiveAcquires
    <3>2. [at |-> "evict", preserve |-> ActiveAcquires, attempt |-> 1]
            \in EvictStates
      BY <3>1 DEF EvictStates
    <3> QED BY <1>1, <2>4, <3>2 DEF ScanFree, WriterStates
  <2> QED BY <2>2, <2>3, <2>4
<1>2. CASE ScanReady
  <2>1. writer \in EvictStates
    BY <1>2, WriterKinds DEF ScanReady
  <2>2. CASE writer' = Idle
    BY <1>2, <2>2, IdleTyped DEF ScanReady, ringVars
  <2>3. CASE writer' # Idle
    <3> DEFINE s == Oldest(InSlot("ready"))
    <3>1. InSlot("ready") # {} /\ InSlot("ready") \in SUBSET Slots
      BY <1>2, <2>3 DEF ScanReady, InSlot
    <3>2. s \in Slots /\ control[s] \in Words
      BY <3>1, OldestSlot
    <3> HIDE DEF s
    <3>3. writer' = [at |-> "steal", slot |-> s, seen |-> control[s],
                     preserve |-> writer.preserve,
                     attempt |-> writer.attempt]
      BY <1>2, <2>3 DEF ScanReady, s
    <3>4. writer' \in StealStates
      BY <2>1, <3>2, <3>3 DEF StealStates, EvictStates
    <3> QED BY <1>2, <3>4 DEF ScanReady, WriterStates, ringVars
  <2> QED BY <2>2, <2>3
<1>3. CASE Steal
  <2>1. writer \in StealStates
    BY <1>3, WriterKinds DEF Steal
  <2>2. CASE StealSucceeds
    BY <1>3, <2>1, <2>2, ClaimTyped DEF Steal, StealStates
  <2>3. CASE ~StealSucceeds
    <3>1. [at |-> "evict", preserve |-> writer.preserve,
           attempt |-> writer.attempt + 1] \in EvictStates
      BY <2>1 DEF StealStates, EvictStates
    <3> QED BY <1>3, <2>3, <3>1 DEF Steal, WriterStates
  <2> QED BY <2>2, <2>3
<1> QED BY <1>1, <1>2, <1>3

LEMMA FrameStepTyped ==
  ASSUME Typed, RingFrameStep
  PROVE  Typed'
<1>1. CASE ScanFree \/ ScanReady \/ Steal
  BY <1>1, ScanTyped DEF ScanFree, ScanReady, Steal, Typed, lifeVars,
     ringVars, boxVars, sourceVars
<1>2. CASE CopyFails
  <2>1. writer.slot \in Slots
    BY <1>2, WriterKinds DEF CopyFails, Typed, ClaimStates
  <2>2. [control[writer.slot] EXCEPT !.state = "free"] \in Words
    BY <2>1 DEF Typed, Words, SlotStates
  <2>3. control' \in [Slots -> Words]
    BY <1>2, <2>1, <2>2 DEF CopyFails, Typed
  <2> QED BY <1>2, <2>3, IdleTyped DEF CopyFails, Typed, lifeVars,
             boxVars, sourceVars
<1>3. CASE Copy
  <2>1. writer.slot \in Slots
    BY <1>3, WriterKinds DEF Copy, Typed, ClaimStates
  <2>2. Region \in Regions /\ sequence + 1 \in Nat
    BY RegionNow DEF Typed
  <2>3. [sequence |-> sequence + 1, region |-> Region] \in Frames
    BY <2>2 DEF Frames
  <2>4. CurrentDamage(pending, Region, sequence) \in Damages
    BY <2>2, DamageTyped DEF Typed
  <2>5. writer' \in PublishStates
    BY <1>3, <2>1, <2>4 DEF Copy, PublishStates
  <2>6. mailbox.generation \in Nat
    BY DEF Typed, Boxes
  <2> QED BY <1>3, <2>1, <2>2, <2>3, <2>5, <2>6
             DEF Copy, Typed, WriterStates, lifeVars, boxVars, sourceVars
<1>4. CASE Publish
  <2>1. writer.slot \in Slots
    BY <1>4, WriterKinds DEF Publish, Typed, PublishStates
  <2>2. Control(sequence, "ready") \in Words
    BY DEF Control, Words, SlotStates, Typed
  <2>3. control' \in [Slots -> Words]
    BY <1>4, <2>1, <2>2 DEF Publish, Typed
  <2>4. pending' \in Pendings
    BY <1>4, PublishTyped DEF Publish, Typed
  <2>5. frame[writer.slot].region \in Regions
    BY <2>1 DEF Typed, Frames
  <2>6. Rebuilds(writer.damage, frame[writer.slot].region, changed, published)
          \in BOOLEAN
    BY WriterKinds, <1>4 DEF Rebuilds, Publish, PublishStates, Damages, Typed
  <2>7. published' \in [sequence : Nat, region : Regions, complete : BOOLEAN]
        /\ changed' \in SUBSET Columns
    BY <1>4, <2>5, <2>6 DEF Publish, PublishesFrame, Typed
  <2>8. reader' \in [Consumers -> ReaderStates]
    BY <1>4, NotifyKeeps DEF Publish, Typed
  <2> QED BY <1>4, <2>3, <2>4, <2>7, <2>8, IdleTyped
             DEF Publish, Typed, lifeVars, boxVars
<1> QED BY <1>1, <1>2, <1>3, <1>4 DEF RingFrameStep

LEMMA AcquireTyped ==
  ASSUME Typed, NEW c \in Consumers,
         AcquireCall(c) \/ Acquiring(c) \/ AcquireTimeout(c)
  PROVE  Typed'
<1> USE DEF Typed
<1>1. ASSUME NEW r \in ReaderStates, Goto(c, r)
      PROVE  reader' \in [Consumers -> ReaderStates]
  BY <1>1 DEF Goto
<1>2. /\ Idle \in ReaderStates
      /\ \A a \in {"lock", "check", "block", "wait"} :
           [at |-> a] \in ReaderStates
  BY IdleTyped DEF ReaderStates
<1>3. CASE AcquireCall(c) \/ AcquireLock(c) \/ AcquireBlock(c)
           \/ AcquireTimeout(c)
  <2>1. \E r \in ReaderStates : Goto(c, r)
    BY <1>2, <1>3 DEF AcquireCall, AcquireLock, AcquireBlock, AcquireTimeout
  <2>2. reader' \in [Consumers -> ReaderStates]
    BY <1>1, <2>1
  <2> QED BY <1>3, <2>2 DEF AcquireCall, AcquireLock, AcquireBlock,
             AcquireTimeout, lifeVars, ringVars, boxVars, sourceVars
<1>4. CASE AcquireCheck(c)
  <2>1. CASE HasReadyFrame
    <3> DEFINE s == Newest(Current)
    <3>1. Current # {} /\ Current \in SUBSET Slots
      BY <2>1 DEF HasReadyFrame, Current, InSlot
    <3>2. s \in Slots /\ control[s] \in Words
      BY <3>1, NewestSlot
    <3> HIDE DEF s
    <3>3. [at |-> "take", slot |-> s, seen |-> control[s]] \in ReaderStates
      BY <3>2 DEF ReaderStates
    <3>4. Goto(c, [at |-> "take", slot |-> s, seen |-> control[s]])
      BY <1>4, <2>1 DEF AcquireCheck, s
    <3>5. reader' \in [Consumers -> ReaderStates]
      BY <1>1, <3>3, <3>4
    <3> QED BY <1>4, <3>5 DEF AcquireCheck, lifeVars, ringVars, boxVars,
               sourceVars
  <2>2. CASE ~HasReadyFrame
    <3>1. \E r \in ReaderStates : Goto(c, r)
      BY <1>2, <1>4, <2>2 DEF AcquireCheck
    <3>2. reader' \in [Consumers -> ReaderStates]
      BY <1>1, <3>1
    <3> QED BY <1>4, <3>2 DEF AcquireCheck, lifeVars, ringVars, boxVars,
               sourceVars
  <2> QED BY <2>1, <2>2
<1>5. CASE AcquireTake(c)
  <2> DEFINE s == reader[c].slot
             seen == reader[c].seen
             new == [slot |-> s, token |-> seen.generation,
                     frame |-> frame[s]]
  <2>1. s \in Slots /\ seen \in Words
    BY <1>5 DEF AcquireTake, ReaderStates
  <2>2. new \in Leases
    BY <2>1 DEF Leases, Words
  <2>3. [control[s] EXCEPT !.state = "reading"] \in Words
    BY <2>1 DEF Words, SlotStates
  <2>4. CASE control[s] = seen
    <3>1. [at |-> "purge", newest |-> seen.generation] \in ReaderStates
      BY <2>1 DEF ReaderStates, Words
    <3> HIDE DEF new
    <3>2. /\ control' = [control EXCEPT ![s].state = "reading"]
          /\ lease' = [lease EXCEPT ![c] = @ \cup {new}]
          /\ Goto(c, [at |-> "purge", newest |-> seen.generation])
      BY <1>5, <2>4 DEF AcquireTake, new
    <3>3. reader' \in [Consumers -> ReaderStates]
      BY <1>1, <3>1, <3>2
    <3>4. lease' \in [Consumers -> SUBSET Leases]
      BY <2>2, <3>2
    <3>5. control' \in [Slots -> Words]
      BY <2>1, <2>3, <3>2
    <3> QED BY <1>5, <3>3, <3>4, <3>5 DEF AcquireTake, lifeVars, boxVars,
               sourceVars
  <2>5. CASE control[s] # seen
    <3>1. reader' \in [Consumers -> ReaderStates]
      BY <1>1, <1>2, <1>5, <2>5 DEF AcquireTake
    <3> QED BY <1>5, <2>5, <3>1 DEF AcquireTake, lifeVars, boxVars,
               sourceVars
  <2> QED BY <2>4, <2>5
<1>6. CASE AcquirePurge(c)
  <2>1. \A s \in Slots : [control[s] EXCEPT !.state = "free"] \in Words
    BY DEF Words, SlotStates
  <2>2. control' \in [Slots -> Words]
    BY <1>6, <2>1 DEF AcquirePurge
  <2>3. reader' \in [Consumers -> ReaderStates]
    BY <1>1, <1>2, <1>6 DEF AcquirePurge
  <2> QED BY <1>6, <2>2, <2>3 DEF AcquirePurge, lifeVars, boxVars, sourceVars
<1> QED BY <1>3, <1>4, <1>5, <1>6 DEF Acquiring

LEMMA RingTyped ==
  ASSUME Typed, RingStep
  PROVE  Typed'
<1>1. CASE Start \/ StopBegin
  BY <1>1 DEF Start, StopBegin, Typed, ringVars, boxVars, sourceVars
<1>2. CASE StopNotify
  BY <1>2, NotifyKeeps DEF StopNotify, Typed, lifeVars, ringVars, boxVars,
     sourceVars
<1>3. CASE FrameAccepted([at |-> "claim", slot |-> 1])
  <2>1. [at |-> "claim", slot |-> 1] \in WriterStates
    BY CaptureAssumption DEF WriterStates, ClaimStates, Slots
  <2> QED BY <1>3, <2>1, AcceptedTyped
<1>4. CASE RingFrameStep
  BY <1>4, FrameStepTyped
<1>5. ASSUME NEW c \in Consumers,
             AcquireCall(c) \/ Acquiring(c) \/ AcquireTimeout(c)
      PROVE  Typed'
  BY <1>5, AcquireTyped
<1>6. ASSUME NEW c \in Consumers, NEW l \in lease[c], Release(c, l)
      PROVE  Typed'
  <2>1. l.slot \in Slots
    BY DEF Typed, Leases
  <2>2. [control[l.slot] EXCEPT !.state = "free"] \in Words
    BY <2>1 DEF Typed, Words, SlotStates
  <2>3. control' \in [Slots -> Words]
    BY <1>6, <2>1, <2>2 DEF Release, Typed
  <2> QED BY <1>6, <2>3 DEF Release, Typed, lifeVars, boxVars, sourceVars
<1> QED BY <1>1, <1>2, <1>3, <1>4, <1>5, <1>6 DEF RingStep

LEMMA BusDamageTyped ==
  ASSUME Typed
  PROVE  /\ BusDamage \in Damages
         /\ BusDamage.base = pending.base
         /\ (~pending.full => /\ pending.base = published.sequence
                              /\ published.region = Region
                              /\ changed \subseteq pending.dirty)
              => Rebuilds(BusDamage, Region, changed, published)
<1>1. /\ pending \in Pendings /\ Region \in Regions /\ sequence \in Nat
  BY RegionNow DEF Typed
<1>2. \/ BusDamage = CurrentDamage(pending, Region, sequence)
      \/ BusDamage = FullDamage(pending, Region, FALSE)
  BY DEF BusDamage
<1> HIDE DEF BusDamage
<1> QED BY <1>1, <1>2, DamageTyped

\* Where a drain that ends leaves the writer.
LEMMA DrainLeaves ==
  ASSUME DrainDone \/ DrainFails
  PROVE  /\ writer.at = "drain" /\ writer'.at \in {"idle", "begin"}
         /\ UNCHANGED cursorVars
<1>1. PICK left : DrainEnds(left)
  BY DEF DrainDone, DrainFails
<1>2. writer' = Idle \/ writer' = [at |-> "begin"]
  BY <1>1 DEF DrainEnds
<1>3. writer'.at \in {"idle", "begin"}
  BY <1>2, IdleTyped
<1> QED BY <1>1, <1>3 DEF DrainEnds

LEMMA DrainTyped ==
  ASSUME Typed, DrainOne \/ DrainDone \/ DrainFails
  PROVE  Typed'
<1>1. [at |-> "begin"] \in WriterStates
  BY DEF WriterStates, BeginStates
<1>2. CASE DrainOne
  BY <1>2 DEF DrainOne, Typed, vars, lifeVars, ringVars, boxVars, sourceVars
<1>3. CASE DrainDone \/ DrainFails
  <2>1. writer' \in WriterStates
    BY <1>1, <1>3, IdleTyped DEF DrainDone, DrainFails, DrainEnds
  <2>2. /\ UNCHANGED <<ringVars, boxVars, reader, lease, sourceVars,
                       published>>
        /\ bus' = bus
    BY <1>3 DEF DrainDone, DrainFails, DrainEnds, lifeVars
  <2> QED BY <2>1, <2>2 DEF Typed, ringVars, boxVars, sourceVars
<1> QED BY <1>2, <1>3

LEMMA BusFrameTyped ==
  ASSUME Typed, BusFrameStep
  PROVE  Typed'
<1>1. \A a \in {"submit", "write"} \cup CommitPoints, s \in BOOLEAN :
        [at |-> a, scheduled |-> s] \in WriterStates
  BY DEF WriterStates, FrameStates
<1>2. \A a \in {"submit", "write"} \cup CommitPoints :
        writer \in FrameStates => [writer EXCEPT !.at = a] \in WriterStates
  BY DEF WriterStates, FrameStates
<1>3. writer.at \in {"submit", "write"} \cup CommitPoints =>
        writer \in FrameStates
  BY WriterKinds DEF Typed
<1>4. CASE DrainOne \/ DrainDone \/ DrainFails
  BY <1>4, DrainTyped
<1>5. CASE \/ BusBeginFails \/ BusBegin \/ BusSubmitFails
           \/ BusCommitFails \/ BusShape
  <2>1. writer' \in WriterStates
    BY <1>1, <1>2, <1>3, <1>5, IdleTyped DEF BusBeginFails, BusBegin,
       BusSubmitFails, BusCommitFails, BusShape, CommitPoints
  <2>2. UNCHANGED <<busFrameUnchanged, sequence, pending, changed, published>>
    BY <1>5 DEF BusBeginFails, BusBegin, BusSubmitFails, BusCommitFails,
       BusShape
  <2> QED BY <2>1, <2>2 DEF Typed, busFrameUnchanged, boxVars
<1>6. CASE BusSubmit
  <2>1. \A overflow : Scheduled(BaselineReset, InferenceDirty, overflow)
                        \in BOOLEAN
    BY DEF Scheduled
  <2>2. writer' \in WriterStates
    <3> HIDE DEF Scheduled, BaselineReset, InferenceDirty
    <3> QED BY <1>1, <1>6, <2>1 DEF BusSubmit
  <2>3. UNCHANGED <<busFrameUnchanged, sequence, pending, changed, published>>
    BY <1>6 DEF BusSubmit
  <2> QED BY <2>2, <2>3 DEF Typed, busFrameUnchanged, boxVars
<1>7. CASE BusCommit
  <2>1. writer' \in WriterStates
    BY <1>2, <1>3, <1>7 DEF BusCommit, CommitPoints
  <2>2. BusDamage \in Damages /\ Region \in Regions
    BY BusDamageTyped, RegionNow
  <2>3. Rebuilds(BusDamage, Region, changed, published) \in BOOLEAN
    BY <2>2 DEF Rebuilds, Damages
  <2>4. published' \in [sequence : Nat, region : Regions, complete : BOOLEAN]
        /\ changed' \in SUBSET Columns
    BY <1>7, <2>2, <2>3 DEF BusCommit, PublishesFrame, Typed
  <2>5. UNCHANGED <<busFrameUnchanged, sequence, pending>>
    BY <1>7 DEF BusCommit
  <2> QED BY <2>1, <2>4, <2>5 DEF Typed, busFrameUnchanged, boxVars
<1>8. CASE BusFinish
  <2>1. Drain("wake") \in WriterStates
    BY DEF Drain, WriterStates, DrainStates
  <2>2. writer' \in WriterStates /\ sequence' \in Nat
    BY <1>8, <2>1, IdleTyped DEF BusFinish, Typed
  <2>3. pending' \in Pendings
    BY <1>8, PublishTyped DEF BusFinish, Typed
  <2>4. UNCHANGED <<busFrameUnchanged, changed, published>>
    BY <1>8 DEF BusFinish
  <2> QED BY <2>2, <2>3, <2>4 DEF Typed, busFrameUnchanged, boxVars
<1> QED BY <1>4, <1>5, <1>6, <1>7, <1>8 DEF BusFrameStep

LEMMA BusTyped ==
  ASSUME Typed, BusStep
  PROVE  Typed'
<1>1. Drain("begin") \in WriterStates /\ Drain("worker") \in WriterStates
      /\ [at |-> "begin"] \in WriterStates
  BY DEF Drain, WriterStates, DrainStates, BeginStates
<1>2. CASE BusStart \/ BusStopBegin
  BY <1>2 DEF BusStart, BusStopBegin, Start, StopBegin, Typed, ringVars,
     boxVars, sourceVars
<1>3. CASE BusFrameAccepted
  BY <1>1, <1>3, AcceptedTyped DEF BusFrameAccepted
<1>4. CASE BusFrameStep
  BY <1>4, BusFrameTyped
<1>5. CASE WorkerDrain
  BY <1>1, <1>5 DEF WorkerDrain, Typed, lifeVars, ringVars, boxVars,
     sourceVars
<1>6. CASE UNCHANGED vars
  BY <1>6 DEF Typed, vars, lifeVars, ringVars, boxVars, sourceVars
<1> QED BY <1>2, <1>3, <1>4, <1>5, <1>6 DEF BusStep, StopWorker, StopRelease,
           WorkerStep, WorkerCheck, WorkerBlock, WorkerPause, GpuCompletes

LEMMA TypedKept ==
  ASSUME Typed, [Next]_allVars
  PROVE  Typed'
<1>1. CASE UNCHANGED allVars
  BY <1>1 DEF Typed, allVars, vars, lifeVars, ringVars, boxVars, sourceVars
<1> QED BY <1>1, CommonTyped, RingTyped, BusTyped DEF Next

-----------------------------------------------------------------------------
(* The ring's invariant is kept.                                           *)

LEMMA LeasedReading ==
  ASSUME Typed, RingInv
  PROVE  \A c \in Consumers : \A l \in lease[c] :
           l \in Leases /\ l.slot \in Slots /\ control[l.slot].state = "reading"
<1> TAKE c \in Consumers
<1> TAKE l \in lease[c]
<1>1. l \in Leases
  BY DEF Typed
<1>2. control[l.slot] = Control(l.token, "reading")
  BY DEF RingInv, LeaseIntact
<1> QED BY <1>1, <1>2 DEF Leases, Control

\* Steps that leave the ring alone.
LEMMA RingQuiet ==
  ASSUME RingInv,
         UNCHANGED <<control, slotMailbox, frame, mailbox, lease>>,
         \/ writer' = writer /\ sequence' = sequence
         \/ writer'.at \notin RingPoints,
         \A c \in Consumers :
           reader'[c].at = "take" => reader'[c] = reader[c]
  PROVE  RingInv'
BY DEF RingInv, ReadyShown, WriterOwns, TakersSeeReady, LeaseIntact,
       LeasesApart, RingPoints

\* Steps that discard the frames that are ready.
LEMMA RingDiscarded ==
  ASSUME Typed, RingInv, DiscardReadySlots, reader' = Notify,
         writer = Idle, writer' = writer,
         UNCHANGED <<frame, lease>>
  PROVE  RingInv'
<1>1. \A s \in Slots : /\ control'[s].state # "ready"
                       /\ control[s].state # "ready" => control'[s] = control[s]
  BY DiscardTyped DEF Typed
<1>2. \A c \in Consumers : reader'[c].at = "take" => reader'[c] = reader[c]
  BY NotifyKeeps DEF Typed
<1>3. LeaseIntact'
  BY <1>1, LeasedReading DEF RingInv, LeaseIntact
<1>4. writer'.at = "idle"
  BY IdleTyped
<1> QED BY <1>1, <1>2, <1>3, <1>4 DEF RingInv, ReadyShown, WriterOwns,
           TakersSeeReady, LeasesApart, RingPoints

LEMMA RingAccepted ==
  ASSUME Typed, RingInv, NEW rest, FrameAccepted(rest),
         rest.at \notin {"copy", "publish", "steal"}
  PROVE  RingInv'
<1>1. /\ UNCHANGED <<control, slotMailbox, frame, lease, reader>>
      /\ writer' = rest
      /\ mailbox'.generation = mailbox.generation /\ mailbox'.available
  BY DEF FrameAccepted, ringVars, Typed, Boxes
<1> QED BY <1>1 DEF RingInv, ReadyShown, WriterOwns, TakersSeeReady,
           LeaseIntact, LeasesApart

LEMMA RingCommon ==
  ASSUME Typed, RingInv, CommonStep
  PROVE  RingInv'
<1>1. CASE OnClosed
  BY <1>1, RingQuiet, NotifyKeeps DEF OnClosed, Typed, ringVars, boxVars
<1>2. CASE FrameFails
  BY <1>2, RingQuiet DEF FrameFails, ringVars, boxVars
<1>3. CASE FrameUnavailable
  BY <1>3, RingDiscarded DEF FrameUnavailable
<1>4. ASSUME NEW size \in Sizes, FrameResized(size)
      PROVE  RingInv'
  BY <1>4, RingDiscarded DEF FrameResized
<1>5. ASSUME NEW config \in MailboxConfigs, SetMailboxConfig(config)
      PROVE  RingInv'
  BY <1>5, RingDiscarded DEF SetMailboxConfig
<1> QED BY <1>1, <1>2, <1>3, <1>4, <1>5 DEF CommonStep

\* The callback takes a slot that is free, or ready as it was seen.
LEMMA RingClaimed ==
  ASSUME Typed, RingInv, NEW s \in Slots, Claim(s),
         control[s].state \in {"free", "ready"}, mailbox.available,
         UNCHANGED <<slotMailbox, frame, mailbox, lease, reader>>
  PROVE  RingInv'
<1>1. /\ control'[s].state = "writing"
      /\ \A t \in Slots : t # s => control'[t] = control[t]
      /\ writer' = [at |-> "copy", slot |-> s]
  BY DEF Claim, Typed, Words
<1>2. LeaseIntact'
  BY <1>1, LeasedReading DEF RingInv, LeaseIntact
<1>3. ReadyShown'
  BY <1>1 DEF RingInv, ReadyShown
<1> QED BY <1>1, <1>2, <1>3 DEF RingInv, WriterOwns, TakersSeeReady,
           LeasesApart

LEMMA RingScanned ==
  ASSUME Typed, RingInv, ScanFree \/ ScanReady \/ Steal
  PROVE  RingInv'
<1> USE DEF RingInv, WriterOwns, RingPoints
<1>1. CASE ScanFree
  <2>1. writer.slot \in Slots
    BY <1>1, WriterKinds DEF ScanFree, ClaimStates, Typed
  <2>2. CASE control[writer.slot].state = "free"
    BY <1>1, <2>1, <2>2, RingClaimed DEF ScanFree, boxVars
  <2>3. CASE control[writer.slot].state # "free"
    <3>1. writer \in ClaimStates
      BY <1>1, WriterKinds DEF ScanFree, Typed
    <3>2. writer'.at \in {"claim", "evict"}
      BY <1>1, <2>3, <3>1 DEF ScanFree, ClaimStates
    <3> QED BY <1>1, <2>3, <3>2 DEF ScanFree, boxVars, ReadyShown,
               TakersSeeReady, LeaseIntact, LeasesApart
  <2> QED BY <2>2, <2>3
<1>2. CASE ScanReady
  <2>1. /\ writer'.at \in {"idle", "steal"}
        /\ writer'.at = "steal" => writer'.seen.state = "ready"
    <3>1. CASE InSlot("ready") = {} \/ writer' = Idle
      BY <1>2, <3>1, IdleTyped DEF ScanReady
    <3>2. CASE InSlot("ready") # {} /\ writer' # Idle
      <4> DEFINE s == Oldest(InSlot("ready"))
      <4>1. s \in InSlot("ready")
        BY <3>2, OldestSlot DEF InSlot, Typed
      <4>2. control[s].state = "ready"
        BY <4>1 DEF InSlot
      <4> HIDE DEF s
      <4>3. writer' = [at |-> "steal", slot |-> s, seen |-> control[s],
                       preserve |-> writer.preserve,
                       attempt |-> writer.attempt]
        BY <1>2, <3>2 DEF ScanReady, s
      <4> QED BY <4>2, <4>3
    <3> QED BY <3>1, <3>2
  <2> QED BY <1>2, <2>1 DEF ScanReady, ringVars, boxVars, ReadyShown,
             TakersSeeReady, LeaseIntact, LeasesApart
<1>3. CASE Steal
  <2>1. writer \in StealStates
    BY <1>3, WriterKinds DEF Steal, Typed
  <2>2. CASE StealSucceeds
    <3>1. control[writer.slot].state = "ready"
      BY <1>3, <2>2 DEF Steal, StealSucceeds
    <3>2. UNCHANGED <<slotMailbox, frame, mailbox, lease, reader>>
          /\ Claim(writer.slot) /\ mailbox.available
      BY <1>3, <2>2 DEF Steal, boxVars
    <3> QED BY <2>1, <3>1, <3>2, RingClaimed DEF StealStates
  <2>3. CASE ~StealSucceeds
    <3>1. writer'.at = "evict"
      BY <1>3, <2>3 DEF Steal
    <3> QED BY <1>3, <2>3, <3>1 DEF Steal, boxVars, ReadyShown,
               TakersSeeReady, LeaseIntact, LeasesApart
  <2> QED BY <2>2, <2>3
<1> QED BY <1>1, <1>2, <1>3

\* The callback gives its slot up, fills it, or publishes it.
LEMMA RingWritten ==
  ASSUME Typed, RingInv, CopyFails \/ Copy \/ Publish
  PROVE  RingInv'
<1>1. writer.slot \in Slots /\ control[writer.slot].state = "writing"
  BY WriterKinds DEF CopyFails, Copy, Publish, Typed, ClaimStates,
     PublishStates, RingInv, WriterOwns
<1>2. \A c \in Consumers : \A l \in lease[c] : l.slot # writer.slot
  BY <1>1, LeasedReading
<1>3. mailbox.available
  BY DEF RingInv, WriterOwns, CopyFails, Copy, Publish, RingPoints
<1>4. CASE CopyFails
  <2>1. /\ control'[writer.slot].state = "free"
        /\ \A s \in Slots : s # writer.slot => control'[s] = control[s]
        /\ writer'.at = "idle"
    BY <1>1, <1>4, IdleTyped DEF CopyFails, Typed, Words
  <2>2. LeaseIntact'
    BY <1>2, <1>4, <2>1, LeasedReading DEF CopyFails, RingInv, LeaseIntact
  <2>3. ReadyShown'
    BY <1>4, <2>1 DEF CopyFails, RingInv, ReadyShown, boxVars
  <2> QED BY <1>4, <2>1, <2>2, <2>3 DEF CopyFails, RingInv, WriterOwns,
             TakersSeeReady, LeasesApart, RingPoints
<1>5. CASE Copy
  <2> DEFINE new == [sequence |-> sequence + 1, region |-> Region]
  <2>1. /\ frame' = [frame EXCEPT ![writer.slot] = new]
        /\ new.sequence = sequence + 1
    BY <1>5 DEF Copy
  <2> HIDE DEF new
  <2>2. \A s \in Slots : s # writer.slot =>
          frame'[s] = frame[s] /\ slotMailbox'[s] = slotMailbox[s]
    BY <1>1, <1>5, <2>1 DEF Copy, Typed
  <2>3. /\ frame'[writer.slot].sequence = sequence'
        /\ slotMailbox'[writer.slot] = mailbox.generation
        /\ sequence' = sequence + 1
    BY <1>1, <1>5, <2>1 DEF Copy, Typed
  <2>4. /\ writer'.at = "publish" /\ writer'.slot = writer.slot
        /\ UNCHANGED <<control, mailbox, lease, reader>>
    BY <1>5 DEF Copy, boxVars
  <2>5. LeaseIntact'
    BY <1>2, <2>2, <2>4, LeasedReading DEF RingInv, LeaseIntact
  <2>6. ReadyShown'
    BY <1>1, <2>2, <2>4 DEF RingInv, ReadyShown
  <2>7. WriterOwns'
    BY <1>1, <1>3, <2>3, <2>4 DEF WriterOwns
  <2> QED BY <2>4, <2>5, <2>6, <2>7 DEF RingInv, TakersSeeReady, LeasesApart
<1>6. CASE Publish
  <2>1. /\ control'[writer.slot] = Control(sequence, "ready")
        /\ \A s \in Slots : s # writer.slot => control'[s] = control[s]
        /\ writer'.at = "idle" /\ reader' = Notify
        /\ UNCHANGED <<slotMailbox, frame, mailbox, lease>>
    BY <1>1, <1>6, IdleTyped DEF Publish, Typed, boxVars
  <2>2. LeaseIntact'
    BY <1>2, <2>1, LeasedReading DEF RingInv, LeaseIntact
  <2>3. /\ frame[writer.slot].sequence = sequence
        /\ slotMailbox[writer.slot] = mailbox.generation
    BY <1>6 DEF Publish, RingInv, WriterOwns
  <2>4. ReadyShown'
    BY <1>3, <2>1, <2>3 DEF RingInv, ReadyShown, Control
  <2>5. \A c \in Consumers : reader'[c].at = "take" => reader'[c] = reader[c]
    BY <2>1, NotifyKeeps DEF Typed
  <2> QED BY <2>1, <2>2, <2>4, <2>5 DEF RingInv, WriterOwns,
             TakersSeeReady, LeasesApart, RingPoints
<1> QED BY <1>4, <1>5, <1>6

\* Consumers outside the compare-exchange.
LEMMA RingWaited ==
  ASSUME Typed, RingInv, NEW c \in Consumers,
         \/ AcquireCall(c) \/ AcquireLock(c) \/ AcquireCheck(c)
         \/ AcquireBlock(c) \/ AcquireTimeout(c)
  PROVE  RingInv'
<1>1. /\ UNCHANGED <<control, slotMailbox, frame, mailbox, lease, writer,
                     sequence>>
      /\ \A d \in Consumers \ {c} : reader'[d] = reader[d]
  BY DEF AcquireCall, AcquireLock, AcquireCheck, AcquireBlock,
     AcquireTimeout, Goto, ringVars, boxVars, Typed
<1>2. reader'[c].at = "take" => reader'[c].seen.state = "ready"
  <2>1. CASE AcquireCall(c) \/ AcquireLock(c) \/ AcquireBlock(c)
             \/ AcquireTimeout(c) \/ ~HasReadyFrame
    BY <2>1, IdleTyped DEF AcquireCall, AcquireLock, AcquireCheck,
       AcquireBlock, AcquireTimeout, Goto, Typed
  <2>2. CASE AcquireCheck(c) /\ HasReadyFrame
    <3> DEFINE s == Newest(Current)
    <3>1. Current # {} /\ Current \in SUBSET Slots
      BY <2>2 DEF HasReadyFrame, Current, InSlot
    <3>2. s \in Current
      BY <3>1, NewestSlot DEF Typed
    <3>3. control[s].state = "ready"
      BY <3>2 DEF Current, InSlot
    <3> HIDE DEF s
    <3>4. Goto(c, [at |-> "take", slot |-> s, seen |-> control[s]])
      BY <2>2 DEF AcquireCheck, s
    <3> QED BY <3>3, <3>4 DEF Goto, Typed
  <2> QED BY <2>1, <2>2
<1> QED BY <1>1, <1>2 DEF RingInv, ReadyShown, WriterOwns, TakersSeeReady,
           LeaseIntact, LeasesApart

LEMMA RingTaken ==
  ASSUME Typed, RingInv, NEW c \in Consumers, AcquireTake(c)
  PROVE  RingInv'
<1> DEFINE s == reader[c].slot
           seen == reader[c].seen
           new == [slot |-> s, token |-> seen.generation,
                   frame |-> frame[s]]
<1>1. s \in Slots /\ seen \in Words /\ seen.state = "ready"
  BY DEF AcquireTake, Typed, ReaderStates, RingInv, TakersSeeReady
<1>2. UNCHANGED <<slotMailbox, frame, mailbox, writer, sequence>>
      /\ \A d \in Consumers \ {c} : reader'[d] = reader[d]
  BY DEF AcquireTake, Goto, boxVars, Typed
<1>3. reader'[c].at \in {"purge", "check", "idle"}
  BY IdleTyped DEF AcquireTake, Goto, Typed
<1>4. TakersSeeReady'
  BY <1>2, <1>3 DEF RingInv, TakersSeeReady
<1>5. CASE control[s] # seen
  BY <1>2, <1>4, <1>5 DEF AcquireTake, RingInv, ReadyShown, WriterOwns,
     LeaseIntact, LeasesApart
<1>6. CASE control[s] = seen
  <2>1. /\ control' = [control EXCEPT ![s].state = "reading"]
        /\ lease' = [lease EXCEPT ![c] = @ \cup {new}]
    BY <1>6 DEF AcquireTake
  <2>2. /\ control'[s] = Control(seen.generation, "reading")
        /\ \A t \in Slots : t # s => control'[t] = control[t]
    BY <1>1, <1>6, <2>1 DEF Typed, Words, Control
  <2>3. /\ new.slot = s /\ new.token = seen.generation
        /\ new.frame = frame[s] /\ frame[s].sequence = seen.generation
    BY <1>1, <1>6 DEF RingInv, ReadyShown
  <2>4. \A d \in Consumers : \A l \in lease[d] : l.slot # s
    BY <1>1, <1>6, LeasedReading
  <2> HIDE DEF new
  <2>5. \A d \in Consumers : \A l \in lease'[d] :
          l \in lease[d] \/ (d = c /\ l = new)
    <3>1. DOMAIN lease = Consumers
      BY DEF Typed
    <3>2. \A d \in Consumers :
            lease'[d] = IF d = c THEN lease[c] \cup {new} ELSE lease[d]
      BY <2>1, <3>1
    <3> TAKE d \in Consumers
    <3> TAKE l \in lease'[d]
    <3>3. CASE d = c
      BY <3>2, <3>3
    <3>4. CASE d # c
      BY <3>2, <3>4
    <3> QED BY <3>3, <3>4
  <2>6. LeaseIntact'
    <3> SUFFICES ASSUME NEW d \in Consumers, NEW l \in lease'[d]
                 PROVE  /\ control'[l.slot] = Control(l.token, "reading")
                        /\ frame'[l.slot] = l.frame
                        /\ l.frame.sequence = l.token
      BY DEF LeaseIntact
    <3>1. CASE l \in lease[d]
      BY <1>2, <2>2, <2>4, <3>1, LeasedReading DEF RingInv, LeaseIntact
    <3>2. CASE d = c /\ l = new
      BY <1>2, <2>2, <2>3, <3>2
    <3> QED BY <2>5, <3>1, <3>2
  <2>7. LeasesApart'
    BY <2>3, <2>4, <2>5 DEF RingInv, LeasesApart
  <2>8. ReadyShown'
    BY <1>2, <2>2 DEF RingInv, ReadyShown, Control
  <2>9. WriterOwns'
    <3>1. writer.at \in {"copy", "publish"} =>
            writer.slot \in Slots /\ writer.slot # s
      BY <1>1, <1>6, WriterKinds DEF RingInv, WriterOwns, Typed,
         ClaimStates, PublishStates
    <3> QED BY <1>2, <2>2, <3>1 DEF RingInv, WriterOwns
  <2> QED BY <1>4, <2>6, <2>7, <2>8, <2>9 DEF RingInv
<1> QED BY <1>5, <1>6

LEMMA RingPurged ==
  ASSUME Typed, RingInv, NEW c \in Consumers, AcquirePurge(c)
  PROVE  RingInv'
<1>1. \A s \in Slots :
        \/ control'[s] = control[s]
        \/ control[s].state = "ready" /\ control'[s].state = "free"
  BY DEF AcquirePurge, Typed, Words
<1>2. /\ UNCHANGED <<slotMailbox, frame, mailbox, lease, writer, sequence>>
      /\ \A d \in Consumers \ {c} : reader'[d] = reader[d]
      /\ reader'[c].at = "idle"
  BY IdleTyped DEF AcquirePurge, Goto, boxVars, Typed
<1>3. LeaseIntact'
  BY <1>1, <1>2, LeasedReading DEF RingInv, LeaseIntact
<1>4. WriterOwns'
  <2>1. writer.at \in {"copy", "publish"} => writer.slot \in Slots
    BY WriterKinds DEF Typed, ClaimStates, PublishStates
  <2> QED BY <1>1, <1>2, <2>1 DEF RingInv, WriterOwns
<1> QED BY <1>1, <1>2, <1>3, <1>4 DEF RingInv, ReadyShown, TakersSeeReady,
           LeasesApart

LEMMA RingReleased ==
  ASSUME Typed, RingInv, NEW c \in Consumers, NEW l \in lease[c],
         Release(c, l)
  PROVE  RingInv'
<1>1. l.slot \in Slots /\ control[l.slot] = Control(l.token, "reading")
  BY LeasedReading DEF RingInv, LeaseIntact
<1>2. /\ control'[l.slot].state = "free"
      /\ \A s \in Slots : s # l.slot => control'[s] = control[s]
  BY <1>1 DEF Release, Typed, Words
<1>3. /\ lease'[c] = lease[c] \ {l}
      /\ \A d \in Consumers \ {c} : lease'[d] = lease[d]
      /\ UNCHANGED <<slotMailbox, frame, mailbox, writer, reader, sequence>>
  BY DEF Release, Typed, boxVars
<1>4. \A d \in Consumers : \A m \in lease'[d] :
        m \in lease[d] /\ m.slot # l.slot
  BY <1>3 DEF RingInv, LeasesApart
<1>5. LeaseIntact'
  BY <1>2, <1>3, <1>4, LeasedReading DEF RingInv, LeaseIntact
<1>6. LeasesApart'
  BY <1>4 DEF RingInv, LeasesApart
<1>7. WriterOwns'
  <2>1. writer.at \in {"copy", "publish"} =>
          writer.slot \in Slots /\ writer.slot # l.slot
    BY <1>1, WriterKinds DEF RingInv, WriterOwns, Typed, Control,
       ClaimStates, PublishStates
  <2> QED BY <1>2, <1>3, <2>1 DEF RingInv, WriterOwns
<1>8. ReadyShown'
  BY <1>2, <1>3 DEF RingInv, ReadyShown
<1> QED BY <1>3, <1>5, <1>6, <1>7, <1>8 DEF RingInv, TakersSeeReady

LEMMA RingRingStep ==
  ASSUME Typed, RingInv, RingStep
  PROVE  RingInv'
<1>1. CASE Start \/ StopBegin
  BY <1>1, RingQuiet DEF Start, StopBegin, ringVars, boxVars
<1>2. CASE StopNotify
  BY <1>2, RingQuiet, NotifyKeeps DEF StopNotify, Typed, ringVars, boxVars
<1>3. CASE FrameAccepted([at |-> "claim", slot |-> 1])
  BY <1>3, RingAccepted
<1>4. CASE RingFrameStep
  BY <1>4, RingScanned, RingWritten DEF RingFrameStep
<1>5. ASSUME NEW c \in Consumers,
             AcquireCall(c) \/ Acquiring(c) \/ AcquireTimeout(c)
      PROVE  RingInv'
  BY <1>5, RingWaited, RingTaken, RingPurged DEF Acquiring
<1>6. ASSUME NEW c \in Consumers, NEW l \in lease[c], Release(c, l)
      PROVE  RingInv'
  BY <1>6, RingReleased
<1> QED BY <1>1, <1>2, <1>3, <1>4, <1>5, <1>6 DEF RingStep

\* A bus-only capture leaves its ring alone.
LEMMA RingBusStep ==
  ASSUME Typed, RingInv, BusStep
  PROVE  RingInv'
<1>1. CASE BusFrameAccepted
  <2>1. Drain("begin").at = "drain"
    BY DEF Drain
  <2> QED BY <1>1, <2>1, RingAccepted DEF BusFrameAccepted
<1>2. CASE BusFrameStep
  <2>1. CASE DrainOne
    BY <2>1, RingQuiet DEF DrainOne, vars, ringVars, boxVars
  <2>2. CASE DrainDone \/ DrainFails
    <3>1. writer'.at \in {"idle", "begin"}
      BY <2>2, DrainLeaves
    <3> QED BY <2>2, <3>1, RingQuiet DEF DrainDone, DrainFails, DrainEnds,
               ringVars, boxVars, RingPoints
  <2>3. CASE \/ BusBeginFails \/ BusBegin \/ BusSubmit \/ BusSubmitFails
             \/ BusCommitFails \/ BusCommit \/ BusShape \/ BusFinish
    <3>1. writer.at \in {"submit", "write"} \cup CommitPoints =>
            writer \in FrameStates
      BY WriterKinds DEF Typed
    <3>2. writer'.at \notin RingPoints
      <4>1. CASE BusCommit \/ BusShape
        <5>1. PICK a \in CommitPoints : writer' = [writer EXCEPT !.at = a]
          BY <4>1 DEF BusCommit, BusShape, CommitPoints
        <5>2. writer \in FrameStates
          BY <3>1, <4>1 DEF BusCommit, BusShape, CommitPoints
        <5> QED BY <5>1, <5>2 DEF FrameStates, CommitPoints, RingPoints
      <4>2. CASE \/ BusBeginFails \/ BusBegin \/ BusSubmit \/ BusSubmitFails
                 \/ BusCommitFails \/ BusFinish
        <5>1. \/ writer' = Idle
              \/ \E s : writer' = [at |-> "submit", scheduled |-> s]
              \/ \E s : writer' = [at |-> "write", scheduled |-> s]
              \/ writer' = Drain("wake")
          BY <4>2 DEF BusBeginFails, BusBegin, BusSubmit,
             BusSubmitFails, BusCommitFails, BusFinish
        <5> QED BY <5>1, IdleTyped DEF Drain, RingPoints
      <4> QED BY <2>3, <4>1, <4>2
    <3>3. UNCHANGED busFrameUnchanged
      BY <2>3 DEF BusBeginFails, BusBegin, BusSubmit, BusSubmitFails,
         BusCommitFails, BusCommit, BusShape, BusFinish
    <3> QED BY <3>2, <3>3, RingQuiet DEF busFrameUnchanged, boxVars
  <2> QED BY <1>2, <2>1, <2>2, <2>3 DEF BusFrameStep
<1>3. CASE BusStart \/ BusStopBegin
  BY <1>3, RingQuiet DEF BusStart, BusStopBegin, Start, StopBegin, ringVars,
     boxVars
<1>4. CASE WorkerDrain
  <2>1. writer'.at = "drain"
    BY <1>4 DEF WorkerDrain, Drain
  <2> QED BY <1>4, <2>1, RingQuiet DEF WorkerDrain, ringVars, boxVars,
             RingPoints
<1>5. CASE UNCHANGED vars
  BY <1>5, RingQuiet DEF vars, ringVars, boxVars
<1> QED BY <1>1, <1>2, <1>3, <1>4, <1>5 DEF BusStep, StopWorker, StopRelease,
           WorkerStep, WorkerCheck, WorkerBlock, WorkerPause, GpuCompletes

LEMMA RingKept ==
  ASSUME Typed, RingInv, [Next]_allVars
  PROVE  RingInv'
<1>1. CASE UNCHANGED allVars
  BY <1>1, RingQuiet DEF allVars, vars, ringVars, boxVars
<1> QED BY <1>1, RingCommon, RingRingStep, RingBusStep DEF Next

LEMMA Initially ==
  ASSUME Init
  PROVE  Typed /\ RingInv
<1>1. PICK config \in MailboxConfigs : CaptureInit(config)
  BY DEF Init, RingInit, BusInit
<1>2. bus \in BusConfigs \cup {NoBus}
  BY DEF Init, RingInit, BusInit
<1>3. Sizes \subseteq 0 .. MaxSize
  BY CaptureAssumption
<1>4. /\ Control(0, "free") \in Words /\ Control(0, "free").state = "free"
      /\ NoFrame \in Frames
      /\ NoRegion \in Regions
  BY DEF Control, Words, SlotStates, NoFrame, NoRegion, Frames, Regions
<1>5. mailbox \in Boxes
  BY <1>1 DEF CaptureInit, Boxes
<1>6. pending \in Pendings
  BY <1>1 DEF CaptureInit, InitialDamage, Pendings
<1>7. published \in [sequence : Nat, region : Regions, complete : BOOLEAN]
  BY <1>1, <1>4 DEF CaptureInit, Nothing
<1>8. Typed
  BY <1>1, <1>2, <1>3, <1>4, <1>5, <1>6, <1>7, IdleTyped
     DEF Typed, CaptureInit
<1>9. RingInv
  BY <1>1, <1>4, IdleTyped DEF CaptureInit, RingInv, ReadyShown, WriterOwns,
     TakersSeeReady, LeaseIntact, LeasesApart, RingPoints
<1> QED BY <1>8, <1>9

(* A leased frame is the caller's alone: whatever the callback, the other  *)
(* consumers, a mailbox change, a resize or stop do meanwhile, the slot    *)
(* stays marked as read under the lease's token and holds the very frame   *)
(* that was taken (acquire_write_slot, discard_ready_slots_locked,         *)
(* release_lease), for every number of slots and consumers.                *)
THEOREM LeasesHeld == Spec => []LeaseIntact
<1>1. Init => Typed /\ RingInv
  BY Initially
<1>2. Typed /\ RingInv /\ [Next]_allVars => (Typed /\ RingInv)'
  BY TypedKept, RingKept
<1>3. RingInv => LeaseIntact
  BY DEF RingInv
<1> QED BY <1>1, <1>2, <1>3, PTL DEF Spec

(* A slot that can be taken shows the present generation of the mailbox    *)
(* and a region that exists (set_mailbox_config, on_frame's resize         *)
(* branches).                                                              *)
THEOREM ReadyFramesCurrent == Spec => []ReadyIsCurrent
<1>1. Init => Typed /\ RingInv
  BY Initially
<1>2. Typed /\ RingInv /\ [Next]_allVars => (Typed /\ RingInv)'
  BY TypedKept, RingKept
<1>3. RingInv => ReadyIsCurrent
  BY DEF RingInv, ReadyShown, ReadyIsCurrent, InSlot
<1> QED BY <1>1, <1>2, <1>3, PTL DEF Spec

-----------------------------------------------------------------------------
(* Damage.                                                                 *)

\* Steps that leave the source, the mailbox and what is published alone.
LEMMA DamageQuiet ==
  ASSUME DamageInv,
         UNCHANGED <<pending, published, changed, mailbox, poolSize, bus>>,
         \/ writer' = writer /\ UNCHANGED <<frame, sequence>>
         \/ /\ writer'.at \notin CommitPoints \cup {"publish"}
            /\ writer.at \notin CommitPoints
         \/ /\ writer'.at \in CommitPoints /\ writer.at \in CommitPoints
            /\ sequence' = sequence
  PROVE  DamageInv'
<1>1. Region' = Region
  BY DEF Region, OutputRegion, BusOutputMatches
<1>2. "publish" \notin CommitPoints
  BY DEF CommitPoints
<1> QED BY <1>1, <1>2 DEF DamageInv, PendingKnows, DamageReady, DamageComplete

\* Steps after which everything is damaged.
LEMMA DamageFull ==
  ASSUME DamageInv, writer = Idle, writer' = writer, pending'.full,
         published' = published
  PROVE  DamageInv'
<1>1. writer.at = "idle"
  BY IdleTyped
<1> QED BY <1>1 DEF DamageInv, PendingKnows, DamageReady, DamageComplete,
           CommitPoints

\* A frame is drained.
LEMMA DamageDrained ==
  ASSUME Typed, DamageInv,
         \/ FrameDrained(Columns, FALSE)
         \/ \E dirty \in SUBSET Columns : FrameDrained(dirty, TRUE),
         UNCHANGED <<published, poolSize, bus, sequence>>,
         mailbox'.config = mailbox.config,
         writer'.at \notin CommitPoints \cup {"publish"}
  PROVE  DamageInv'
<1>1. /\ pending'.base = pending.base
      /\ ~pending'.full => /\ ~pending.full
                           /\ changed \subseteq pending.dirty =>
                                changed' \subseteq pending'.dirty
      /\ writer.at = "idle"
  BY SomeDrained, IdleTyped
<1>2. Region' = Region
  BY DEF Region, OutputRegion, BusOutputMatches
<1> QED BY <1>1, <1>2 DEF DamageInv, PendingKnows, DamageReady,
           DamageComplete, CommitPoints

LEMMA DamageCommon ==
  ASSUME Typed, DamageInv, CommonStep
  PROVE  DamageInv'
<1>1. CASE OnClosed
  BY <1>1, DamageQuiet DEF OnClosed, ringVars, boxVars, sourceVars
<1>2. CASE FrameFails
  <2>1. /\ \/ FrameDrained(Columns, FALSE)
           \/ \E dirty \in SUBSET Columns : FrameDrained(dirty, TRUE)
        /\ UNCHANGED <<lifeVars, ringVars, boxVars, writer, poolSize,
                       published>>
    BY <1>2 DEF FrameFails
  <2>2. writer.at = "idle"
    BY <2>1, SomeDrained, IdleTyped
  <2> QED BY <2>1, <2>2, DamageDrained DEF lifeVars, ringVars, boxVars,
             CommitPoints
<1>3. CASE FrameUnavailable
  BY <1>3, DamageFull, FullTyped DEF FrameUnavailable, Typed
<1>4. ASSUME NEW size \in Sizes, FrameResized(size)
      PROVE  DamageInv'
  BY <1>4, DamageFull, FullTyped DEF FrameResized, Typed
<1>5. ASSUME NEW config \in MailboxConfigs, SetMailboxConfig(config)
      PROVE  DamageInv'
  <2>1. ForceFullDamage(pending, TRUE) \in Pendings
        /\ ForceFullDamage(pending, TRUE).full
    BY FullTyped DEF Typed
  <2>2. pending'.full
    BY <1>5, <2>1 DEF SetMailboxConfig, Pendings
  <2> QED BY <1>5, <2>2, DamageFull DEF SetMailboxConfig
<1> QED BY <1>1, <1>2, <1>3, <1>4, <1>5 DEF CommonStep

LEMMA DamageAccepted ==
  ASSUME Typed, DamageInv, NEW rest, FrameAccepted(rest),
         rest.at \notin CommitPoints \cup {"publish"}
  PROVE  DamageInv'
<1>1. /\ \/ FrameDrained(Columns, FALSE)
         \/ \E dirty \in SUBSET Columns : FrameDrained(dirty, TRUE)
      /\ UNCHANGED <<lifeVars, ringVars, poolSize, published>>
      /\ writer' = rest /\ mailbox' = [mailbox EXCEPT !.available = TRUE]
  BY DEF FrameAccepted
<1>2. mailbox'.config = mailbox.config
  BY <1>1 DEF Typed, Boxes
<1> QED BY <1>1, <1>2, DamageDrained DEF lifeVars, ringVars

LEMMA DamageFrameStep ==
  ASSUME Typed, DamageInv, RingFrameStep
  PROVE  DamageInv'
<1>1. writer.at \in RingPoints /\ writer.at \notin CommitPoints
  BY DEF RingFrameStep, ScanFree, ScanReady, Steal, CopyFails, Copy,
     Publish, RingPoints, CommitPoints
<1>2. CASE ScanFree \/ ScanReady \/ Steal \/ CopyFails
  <2>1. writer'.at \in {"idle", "claim", "evict", "steal", "copy"}
    <3>1. CASE ScanFree
      <4>1. writer \in ClaimStates /\ writer.at = "claim"
        BY <3>1, WriterKinds DEF ScanFree, Typed
      <4>2. \A n : [writer EXCEPT !.slot = n].at = "claim"
        BY <4>1 DEF ClaimStates
      <4>3. \/ \E n : writer' = [writer EXCEPT !.slot = n]
            \/ writer' = [at |-> "copy", slot |-> writer.slot]
            \/ \E p : writer' = [at |-> "evict", preserve |-> p,
                               attempt |-> 1]
        BY <3>1 DEF ScanFree, Claim
      <4>4. CASE \E n : writer' = [writer EXCEPT !.slot = n]
        BY <4>2, <4>4
      <4>5. CASE \/ writer' = [at |-> "copy", slot |-> writer.slot]
                 \/ \E p : writer' = [at |-> "evict", preserve |-> p,
                                    attempt |-> 1]
        BY <4>5
      <4> QED BY <4>3, <4>4, <4>5
    <3>2. CASE ScanReady
      BY <3>2, IdleTyped DEF ScanReady
    <3>3. CASE Steal \/ CopyFails
      BY <3>3, IdleTyped DEF Steal, CopyFails, Claim
    <3> QED BY <1>2, <3>1, <3>2, <3>3
  <2>2. UNCHANGED <<pending, published, changed, mailbox, poolSize, bus>>
    BY <1>2 DEF ScanFree, ScanReady, Steal, CopyFails, lifeVars, boxVars,
       sourceVars
  <2> QED BY <1>1, <2>1, <2>2, DamageQuiet DEF CommitPoints
<1>3. CASE Copy
  <2>1. /\ writer'.at = "publish" /\ writer'.slot = writer.slot
        /\ writer'.damage = CurrentDamage(pending, Region, sequence)
        /\ UNCHANGED <<pending, published, changed, mailbox, poolSize, bus>>
        /\ frame' = [frame EXCEPT ![writer.slot] =
                        [sequence |-> sequence + 1, region |-> Region]]
    BY <1>3 DEF Copy, lifeVars, boxVars, sourceVars
  <2>2. writer.slot \in Slots
    BY <1>3, WriterKinds DEF Copy, Typed, ClaimStates
  <2>3. Region' = Region /\ Region \in Regions
    BY <2>1, RegionNow DEF Region, OutputRegion, BusOutputMatches
  <2>4. frame'[writer.slot].region = Region
    BY <2>1, <2>2 DEF Typed
  <2>5. Rebuilds(CurrentDamage(pending, Region, sequence), Region, changed,
                 published)
    BY <1>1, <2>3, DamageTyped DEF Typed, DamageInv, PendingKnows
  <2> QED BY <1>1, <2>1, <2>3, <2>4, <2>5 DEF DamageInv, PendingKnows,
             DamageReady, DamageComplete, CommitPoints
<1>4. CASE Publish
  <2>1. /\ frame[writer.slot].region = Region
        /\ Rebuilds(writer.damage, Region, changed, published)
    BY <1>4 DEF Publish, DamageInv, DamageReady
  <2>2. /\ published' = [sequence |-> sequence, region |-> Region,
                         complete |-> TRUE]
        /\ changed' = {}
    BY <1>4, <2>1 DEF Publish, PublishesFrame, Rebuilds
  <2>3. /\ pending' = CompleteDamagePublish(pending, sequence)
        /\ writer'.at = "idle"
        /\ UNCHANGED <<mailbox, poolSize, bus>>
    BY <1>4, IdleTyped DEF Publish, lifeVars, boxVars
  <2>4. Region' = Region
    BY <2>3 DEF Region, OutputRegion, BusOutputMatches
  <2> QED BY <2>2, <2>3, <2>4 DEF DamageInv, PendingKnows, DamageReady,
             DamageComplete, CompleteDamagePublish, CommitPoints
<1> QED BY <1>2, <1>3, <1>4 DEF RingFrameStep

LEMMA DamageRingStep ==
  ASSUME Typed, DamageInv, RingStep
  PROVE  DamageInv'
<1>1. CASE Start \/ StopBegin \/ StopNotify
  BY <1>1, DamageQuiet DEF Start, StopBegin, StopNotify, lifeVars, ringVars,
     boxVars, sourceVars
<1>2. CASE FrameAccepted([at |-> "claim", slot |-> 1])
  BY <1>2, DamageAccepted DEF CommitPoints
<1>3. CASE RingFrameStep
  BY <1>3, DamageFrameStep
<1>4. CASE \E c \in Consumers :
             \/ AcquireCall(c) \/ Acquiring(c) \/ AcquireTimeout(c)
             \/ \E l \in lease[c] : Release(c, l)
  <2>1. UNCHANGED <<pending, published, changed, mailbox, poolSize, bus,
                    writer, frame, sequence>>
    BY <1>4 DEF AcquireCall, Acquiring, AcquireLock, AcquireCheck,
       AcquireBlock, AcquireTake, AcquirePurge, AcquireTimeout, Release,
       lifeVars, ringVars, boxVars, sourceVars
  <2> QED BY <2>1, DamageQuiet
<1> QED BY <1>1, <1>2, <1>3, <1>4 DEF RingStep

LEMMA DamageBusFrame ==
  ASSUME Typed, DamageInv, BusFrameStep
  PROVE  DamageInv'
<1>1. CASE DrainOne
  BY <1>1, DamageQuiet DEF DrainOne, vars, lifeVars, ringVars, boxVars,
     sourceVars
<1>2. CASE DrainDone \/ DrainFails
  <2>1. writer'.at \in {"idle", "begin"} /\ writer.at = "drain"
    BY <1>2, DrainLeaves
  <2> QED BY <1>2, <2>1, DamageQuiet DEF DrainDone, DrainFails, DrainEnds,
             lifeVars, ringVars, boxVars, sourceVars, CommitPoints
<1>3. CASE \/ BusBeginFails \/ BusBegin \/ BusSubmit \/ BusSubmitFails
           \/ BusCommitFails
  <2>1. /\ writer'.at \in {"idle", "submit", "write"}
        /\ writer.at \in {"begin", "submit", "write"}
    <3>1. \/ writer' = Idle
          \/ \E s : writer' = [at |-> "submit", scheduled |-> s]
          \/ \E s : writer' = [at |-> "write", scheduled |-> s]
      BY <1>3 DEF BusBeginFails, BusBegin, BusSubmit, BusSubmitFails,
         BusCommitFails
    <3>2. writer.at \in {"begin", "submit", "write"}
      BY <1>3 DEF BusBeginFails, BusBegin, BusSubmit, BusSubmitFails,
         BusCommitFails
    <3> QED BY <3>1, <3>2, IdleTyped
  <2>2. UNCHANGED <<busFrameUnchanged, sequence, pending, changed, published>>
    BY <1>3 DEF BusBeginFails, BusBegin, BusSubmit, BusSubmitFails,
       BusCommitFails
  <2> QED BY <2>1, <2>2, DamageQuiet DEF busFrameUnchanged, boxVars,
             CommitPoints
<1>4. CASE BusCommit
  <2>1. writer.at \notin CommitPoints
    BY <1>4 DEF BusCommit, CommitPoints
  <2>2. Rebuilds(BusDamage, Region, changed, published)
    BY <2>1, BusDamageTyped DEF DamageInv, PendingKnows
  <2>3. /\ published' = [sequence |-> sequence + 1, region |-> Region,
                         complete |-> TRUE]
        /\ changed' = {}
    BY <1>4, <2>2 DEF BusCommit, PublishesFrame, Rebuilds
  <2>4. writer'.at \in CommitPoints
    <3>1. writer \in FrameStates
      BY <1>4, WriterKinds DEF BusCommit, Typed
    <3> QED BY <1>4, <3>1 DEF BusCommit, FrameStates, CommitPoints
  <2>5. UNCHANGED <<mailbox, poolSize, bus, sequence>>
    BY <1>4 DEF BusCommit, busFrameUnchanged, boxVars
  <2>6. Region' = Region
    BY <2>5 DEF Region, OutputRegion, BusOutputMatches
  <2> QED BY <2>3, <2>4, <2>5, <2>6 DEF DamageInv, PendingKnows,
             DamageReady, DamageComplete, CommitPoints
<1>5. CASE BusShape
  <2>1. writer.at \in CommitPoints
    BY <1>5 DEF BusShape, CommitPoints
  <2>2. PICK a \in CommitPoints : writer' = [writer EXCEPT !.at = a]
    BY <1>5 DEF BusShape, CommitPoints
  <2>3. writer'.at \in CommitPoints
    BY <2>1, <2>2, WriterKinds DEF Typed, FrameStates
  <2>4. UNCHANGED <<busFrameUnchanged, sequence, pending, changed, published>>
    BY <1>5 DEF BusShape
  <2> QED BY <2>1, <2>3, <2>4, DamageQuiet DEF busFrameUnchanged, boxVars
<1>6. CASE BusFinish
  <2>1. /\ published.sequence = sequence + 1 /\ published.region = Region
        /\ changed = {}
    BY <1>6 DEF BusFinish, DamageInv, PendingKnows, CommitPoints
  <2>2. writer'.at \in {"idle", "drain"}
    BY <1>6, IdleTyped DEF BusFinish, Drain
  <2>3. /\ UNCHANGED <<mailbox, poolSize, bus, published, changed>>
        /\ pending' = CompleteDamagePublish(pending, sequence + 1)
    BY <1>6 DEF BusFinish, busFrameUnchanged, boxVars
  <2>4. Region' = Region
    BY <2>3 DEF Region, OutputRegion, BusOutputMatches
  <2> QED BY <2>1, <2>2, <2>3, <2>4 DEF DamageInv, PendingKnows,
             DamageReady, DamageComplete, CompleteDamagePublish, CommitPoints
<1> QED BY <1>1, <1>2, <1>3, <1>4, <1>5, <1>6 DEF BusFrameStep

LEMMA DamageBusStep ==
  ASSUME Typed, DamageInv, BusStep
  PROVE  DamageInv'
<1>1. CASE BusFrameAccepted
  <2>1. Drain("begin").at = "drain"
    BY DEF Drain
  <2> QED BY <1>1, <2>1, DamageAccepted DEF BusFrameAccepted, CommitPoints
<1>2. CASE BusFrameStep
  BY <1>2, DamageBusFrame
<1>3. CASE BusStart \/ BusStopBegin
  BY <1>3, DamageQuiet DEF BusStart, BusStopBegin, Start, StopBegin,
     ringVars, boxVars, sourceVars
<1>4. CASE WorkerDrain
  <2>1. writer'.at = "drain" /\ writer.at = "idle"
    BY <1>4, IdleTyped DEF WorkerDrain, Drain
  <2> QED BY <1>4, <2>1, DamageQuiet DEF WorkerDrain, lifeVars, ringVars,
             boxVars, sourceVars, CommitPoints
<1>5. CASE UNCHANGED vars
  BY <1>5, DamageQuiet DEF vars, lifeVars, ringVars, boxVars, sourceVars
<1> QED BY <1>1, <1>2, <1>3, <1>4, <1>5 DEF BusStep, StopWorker, StopRelease,
           WorkerStep, WorkerCheck, WorkerBlock, WorkerPause, GpuCompletes

LEMMA DamageKept ==
  ASSUME Typed, DamageInv, [Next]_allVars
  PROVE  DamageInv'
<1>1. CASE UNCHANGED allVars
  BY <1>1, DamageQuiet DEF allVars, vars, lifeVars, ringVars, boxVars,
     sourceVars
<1> QED BY <1>1, DamageCommon, DamageRingStep, DamageBusStep DEF Next

(* The damage of a published frame is complete: patching the frame it      *)
(* names as base_sequence where it is dirty gives the frame, for every     *)
(* size, region and limit on dirty rectangles (collect_frame_damage,       *)
(* current_damage, complete_damage_publish).                               *)
THEOREM DamageTellsAll == Spec => []DamageComplete
<1>1. Init => Typed /\ DamageInv
  <2>1. Init => DamageInv
    BY IdleTyped DEF Init, RingInit, BusInit, CaptureInit, DamageInv,
       PendingKnows, DamageReady, DamageComplete, InitialDamage, Nothing,
       CommitPoints
  <2> QED BY <2>1, Initially
<1>2. Typed /\ DamageInv /\ [Next]_allVars => (Typed /\ DamageInv)'
  BY TypedKept, DamageKept
<1>3. DamageInv => DamageComplete
  BY DEF DamageInv
<1> QED BY <1>1, <1>2, <1>3, PTL DEF Spec

-----------------------------------------------------------------------------
(* Cursor shapes.                                                          *)

\* The frames on the bus and the cursor's shape, and every step of either
\* end of the shape ring.
LEMMA ShapesTypedKept ==
  ASSUME Typed, ShapesTyped, [Next]_allVars
  PROVE  ShapesTyped'
<1>1. ASSUME UNCHANGED <<shapeVars, committed>>, cursorShape' \in Nat
      PROVE  ShapesTyped'
  BY <1>1 DEF ShapesTyped, shapeVars, shapeRingVars
<1>2. CASE UNCHANGED <<shapeVars, committed, cursorShape>>
  BY <1>1, <1>2 DEF ShapesTyped
<1>3. CASE BusFrameAccepted
  <2>1. cursorShape' \in Nat
    BY <1>3, ShapesAssumption DEF BusFrameAccepted, SampleCursor, ShapesTyped
  <2> QED BY <1>1, <1>3, <2>1 DEF BusFrameAccepted
<1>4. CASE BusCommit
  <2>1. BusDamage.base \in Nat /\ ShapeUnpublished \in BOOLEAN
    BY BusDamageTyped DEF ShapeUnpublished, Typed, Pendings
  <2>2. [base |-> BusDamage.base, shape |-> cursorShape,
         shapePending |-> ShapeUnpublished] \in Entries
    BY <2>1 DEF ShapesTyped, Entries
  <2>3. committed' \in Seq(Entries)
    BY <1>4, <2>2 DEF BusCommit, ShapesTyped
  <2> QED BY <1>4, <2>3 DEF BusCommit, busFrameUnchanged, ShapesTyped,
             shapeVars, shapeRingVars
<1>5. CASE BusShape
  <2>1. shapeCommit + 1 \in Nat /\ shapeCommit + 2 \in Nat
        /\ OtherShapeSlot \in ShapeSlotIds
    BY DEF ShapesTyped, OtherShapeSlot, ShapeSlotIds
  <2>2. \A i \in ShapeSlotIds, n \in Nat :
          /\ [shapeSlots[i] EXCEPT !.commit = n] \in ShapeSlotStates
          /\ [shapeSlots[i] EXCEPT !.shape = n] \in ShapeSlotStates
          /\ [shapeSlots[i] EXCEPT !.data = n] \in ShapeSlotStates
    BY DEF ShapesTyped, ShapeSlotStates
  <2>3. shapeSlots' \in [ShapeSlotIds -> ShapeSlotStates]
    <3>1. /\ shapeSlots \in [ShapeSlotIds -> ShapeSlotStates]
          /\ 0 \in Nat /\ cursorShape \in Nat
      BY DEF ShapesTyped
    <3>2. \A i \in ShapeSlotIds : \A e \in ShapeSlotStates :
            [shapeSlots EXCEPT ![i] = e] \in [ShapeSlotIds -> ShapeSlotStates]
      BY <3>1
    <3> HIDE DEF ShapeSlotStates, ShapeSlotIds
    <3>3. CASE ShapeBegin
      BY <3>1, <3>2, <2>1, <2>2, <3>3 DEF ShapeBegin
    <3>4. CASE ShapeStoreHeader(cursorShape)
      BY <3>1, <3>2, <2>1, <2>2, <3>4 DEF ShapeStoreHeader
    <3>5. CASE ShapeStoreData(cursorShape)
      BY <3>1, <3>2, <2>1, <2>2, <3>5 DEF ShapeStoreData
    <3>6. CASE ShapeCommit
      BY <3>1, <3>2, <2>1, <2>2, <3>6 DEF ShapeCommit
    <3>7. CASE UNCHANGED shapeVars
      BY <3>1, <3>7 DEF shapeVars, shapeRingVars
    <3>8. \/ ShapeBegin \/ ShapeStoreHeader(cursorShape)
          \/ ShapeStoreData(cursorShape) \/ ShapeCommit \/ UNCHANGED shapeVars
      BY <1>5 DEF BusShape
    <3> QED BY <3>3, <3>4, <3>5, <3>6, <3>7, <3>8
  <2>4. shapeCommit' \in Nat /\ shapeNext' \in ShapeSlotIds
        /\ UNCHANGED <<shapeReader, committed, cursorShape>>
    BY <1>5, <2>1 DEF BusShape, ShapeBegin, ShapeStoreHeader,
       ShapeStoreData, ShapeCommit, ShapesTyped, shapeVars, shapeRingVars,
       busFrameUnchanged
  <2> QED BY <2>3, <2>4 DEF ShapesTyped
<1>6. CASE /\ \/ \E n \in 1 .. Len(committed) :
                    /\ committed[n].shape # 0
                    /\ ShapeReadCall(committed[n].shape)
              \/ ShapeReading
           /\ UNCHANGED <<cursorShape, committed>>
  <2>1. UNCHANGED shapeRingVars
    BY <1>6 DEF ShapeReadCall, ShapeReading, ShapeReadBefore,
       ShapeReadHeader, ShapeReadData, ShapeReadAfter
  <2>2. NoShape \in [want : Nat, data : Nat] /\ 0 \in ShapeSlotIds
        /\ 1 \in ShapeSlotIds /\ ShapeAttempts \in Int
    BY DEF NoShape, ShapeSlotIds, ShapeAttempts
  <2>3. ASSUME NEW n \in 1 .. Len(committed),
               ShapeReadCall(committed[n].shape)
        PROVE  shapeReader' \in ShapeReaders
    <3>1. committed[n].shape \in Nat
      <4>1. committed[n] \in Entries
        BY DEF ShapesTyped
      <4> QED BY <4>1 DEF Entries
    <3> QED BY <2>2, <2>3, <3>1 DEF ShapeReadCall, ShapeReaders
  <2>4. ASSUME ShapeReading
        PROVE  shapeReader' \in ShapeReaders
    <3> DEFINE Reading ==
          [at : {"before", "header", "data", "after"}, want : Nat,
           slot : ShapeSlotIds, attempt : Int, before : Nat, data : Nat,
           result : {NoShape}]
    <3>1. /\ shapeReader \in Reading /\ Reading \subseteq ShapeReaders
          /\ shapeSlots[shapeReader.slot] \in ShapeSlotStates
      BY <2>4 DEF ShapeReading, ShapeReadBefore, ShapeReadHeader,
         ShapeReadData, ShapeReadAfter, ShapesTyped, ShapeReaders
    <3>2. NextShapeSlot \in ShapeReaders
      <4>1. [at |-> "idle", result |-> NoShape] \in ShapeReaders
        BY <2>2 DEF ShapeReaders
      <4>2. \A i \in ShapeSlotIds, n \in Int :
              [shapeReader EXCEPT !.at = "before", !.slot = i, !.attempt = n]
                \in Reading
        BY <3>1
      <4>3. [shapeReader EXCEPT !.at = "before", !.slot = 1, !.attempt = 1]
              \in Reading
        <5>1. 1 \in Int
          OBVIOUS
        <5> HIDE DEF Reading
        <5> QED BY <2>2, <4>2, <5>1, Zenon
      <4> HIDE DEF Reading
      <4> QED BY <3>1, <4>1, <4>3 DEF NextShapeSlot
    <3>3. \A a \in {"before", "header", "data", "after"} :
            ShapeReaderAt(a) \in Reading
      BY <3>1 DEF ShapeReaderAt
    <3>4. CASE ShapeReadBefore
      <4>1. \A n \in Nat : [shapeReader EXCEPT !.at = "header",
                                               !.before = n] \in Reading
        BY <3>1
      <4> HIDE DEF Reading
      <4>2. shapeSlots[shapeReader.slot].commit \in Nat
        BY <3>1 DEF ShapeSlotStates
      <4>3. \/ shapeReader' = NextShapeSlot
            \/ shapeReader' = [shapeReader EXCEPT !.at = "header",
                  !.before = shapeSlots[shapeReader.slot].commit]
        BY <3>4 DEF ShapeReadBefore
      <4> QED BY <3>1, <3>2, <4>1, <4>2, <4>3
    <3>5. CASE ShapeReadHeader
      <4> HIDE DEF Reading
      <4> QED BY <3>1, <3>2, <3>3, <3>5 DEF ShapeReadHeader
    <3>6. CASE ShapeReadData
      <4>1. \A n \in Nat : [shapeReader EXCEPT !.at = "after", !.data = n]
                             \in Reading
        BY <3>1
      <4> HIDE DEF Reading
      <4>2. shapeSlots[shapeReader.slot].data \in Nat
        BY <3>1 DEF ShapeSlotStates
      <4> QED BY <3>1, <3>6, <4>1, <4>2 DEF ShapeReadData
    <3>7. CASE ShapeReadAfter
      <4>0. \A n \in Int : [shapeReader EXCEPT !.at = "before", !.attempt = n]
                             \in Reading
        BY <3>1
      <4>1. [shapeReader EXCEPT !.at = "before",
                                !.attempt = shapeReader.attempt + 1]
              \in Reading
        <5>1. shapeReader.attempt + 1 \in Int
          BY <3>1
        <5> HIDE DEF Reading
        <5> QED BY <4>0, <5>1
      <4>2. [at |-> "idle", result |-> [want |-> shapeReader.want,
                                        data |-> shapeReader.data]]
              \in ShapeReaders
        BY <3>1 DEF ShapeReaders
      <4> HIDE DEF Reading
      <4>3. \/ shapeReader' = NextShapeSlot
            \/ shapeReader' = [shapeReader EXCEPT !.at = "before",
                                  !.attempt = shapeReader.attempt + 1]
            \/ shapeReader' = [at |-> "idle",
                               result |-> [want |-> shapeReader.want,
                                           data |-> shapeReader.data]]
        BY <3>7 DEF ShapeReadAfter
      <4> QED BY <3>1, <3>2, <4>1, <4>2, <4>3
    <3> QED BY <2>4, <3>4, <3>5, <3>6, <3>7 DEF ShapeReading
  <2>5. shapeReader' \in ShapeReaders
    <3>1. CASE ShapeReading
      BY <2>4, <3>1
    <3>2. CASE \E n \in 1 .. Len(committed) :
                 ShapeReadCall(committed[n].shape)
      BY <2>3, <3>2
    <3> QED BY <1>6, <3>1, <3>2
  <2> QED BY <1>6, <2>1, <2>5 DEF ShapesTyped, shapeRingVars
<1>7. CASE (CommonStep \/ RingStep) /\ UNCHANGED busVars
  BY <1>2, <1>7 DEF busVars
<1>8. CASE BusStep
  BY <1>2, <1>3, <1>4, <1>5, <1>6, <1>8 DEF BusStep, BusStart, BusStopBegin,
     StopWorker, StopRelease, BusFrameStep, DrainOne, DrainDone, DrainFails,
     DrainEnds, BusBeginFails, BusBegin, BusSubmit, BusSubmitFails,
     BusCommitFails, BusFinish, WorkerStep, WorkerCheck, WorkerBlock,
     WorkerDrain, WorkerPause, GpuCompletes, cursorVars, busVars,
     busFrameUnchanged
<1> QED BY <1>2, <1>7, <1>8 DEF Next, allVars, busVars

\* Steps outside publish_cursor_shape and cursor_shape.
LEMMA ShapesQuiet ==
  ASSUME ShapesInv, UNCHANGED shapeVars,
         \/ UNCHANGED <<writer, cursorShape>>
         \/ ~Storing /\ ~Storing'
  PROVE  ShapesInv'
BY DEF ShapesInv, ShapeSlotSound, ReadingSound, NoTornShape, Storing,
       shapeVars, shapeRingVars

\* A store in the slot that is being written: its commit is odd, so nothing
\* read of it counts.
LEMMA ShapeStored ==
  ASSUME Typed, ShapesTyped, ShapesInv, BusShape
  PROVE  ShapesInv'
<1>1. /\ shapeSlots \in [ShapeSlotIds -> ShapeSlotStates]
      /\ shapeCommit \in Nat /\ shapeNext \in ShapeSlotIds
      /\ shapeSlots[shapeNext] \in ShapeSlotStates
  BY DEF ShapesTyped
<1>2. shapeReader.at \in {"header", "data", "after"} =>
        shapeReader.before \in Nat /\ shapeReader.slot \in ShapeSlotIds
  BY DEF ShapesTyped, ShapeReaders
<1>3. \A i \in ShapeSlotIds : shapeSlots[i].commit \in Nat
  BY <1>1 DEF ShapeSlotStates
<1>4. writer \in FrameStates
  BY WriterKinds DEF BusShape, CommitPoints, Typed
<1>5. \A a : [writer EXCEPT !.at = a].at = a
  BY <1>4 DEF FrameStates
<1>6. cursorShape' = cursorShape
  BY DEF BusShape, busFrameUnchanged
<1>7. CASE /\ writer.at = "shape" /\ UNCHANGED shapeVars
           /\ writer' = [writer EXCEPT !.at = "finish"]
  BY <1>5, <1>7, ShapesQuiet DEF Storing
<1>8. CASE /\ writer.at = "shape" /\ ShapeBegin
           /\ writer' = [writer EXCEPT !.at = "header"]
  <2>1. /\ shapeSlots'[shapeNext].commit = shapeCommit + 1
        /\ \A i \in ShapeSlotIds : i # shapeNext =>
              shapeSlots'[i] = shapeSlots[i]
        /\ UNCHANGED <<shapeCommit, shapeNext, shapeReader>>
    BY <1>1, <1>8 DEF ShapeBegin, ShapeSlotStates
  <2>2. ~Storing /\ writer'.at = "header"
    BY <1>5, <1>8 DEF Storing
  <2>3. \A i \in ShapeSlotIds : ShapeSlotSound(i)'
    BY <2>1, <2>2 DEF ShapesInv, ShapeSlotSound, Storing
  <2>4. ReadingSound'
    BY <1>1, <1>2, <2>1 DEF ShapesInv, ReadingSound
  <2> QED BY <2>1, <2>3, <2>4 DEF ShapesInv, NoTornShape
<1>9. CASE /\ writer.at = "header" /\ ShapeStoreHeader(cursorShape)
           /\ writer' = [writer EXCEPT !.at = "data"]
  <2>1. /\ shapeSlots'[shapeNext].commit = shapeSlots[shapeNext].commit
        /\ shapeSlots'[shapeNext].shape = cursorShape
        /\ \A i \in ShapeSlotIds : i # shapeNext =>
              shapeSlots'[i] = shapeSlots[i]
        /\ UNCHANGED <<shapeCommit, shapeNext, shapeReader>>
    BY <1>1, <1>9 DEF ShapeStoreHeader, ShapeSlotStates
  <2>2. Storing /\ writer'.at = "data"
    BY <1>5, <1>9 DEF Storing
  <2>3. \A i \in ShapeSlotIds : ShapeSlotSound(i)'
    BY <1>6, <2>1, <2>2 DEF ShapesInv, ShapeSlotSound, Storing
  <2>4. shapeSlots[shapeNext].commit = shapeCommit + 1
    BY <1>1, <2>2 DEF ShapesInv, ShapeSlotSound
  <2>5. ReadingSound'
    BY <1>1, <1>2, <2>1, <2>4 DEF ShapesInv, ReadingSound
  <2> QED BY <2>1, <2>3, <2>5 DEF ShapesInv, NoTornShape
<1>10. CASE /\ writer.at = "data" /\ ShapeStoreData(cursorShape)
            /\ writer' = [writer EXCEPT !.at = "even"]
  <2>1. /\ shapeSlots'[shapeNext].commit = shapeSlots[shapeNext].commit
        /\ shapeSlots'[shapeNext].shape = shapeSlots[shapeNext].shape
        /\ shapeSlots'[shapeNext].data = cursorShape
        /\ \A i \in ShapeSlotIds : i # shapeNext =>
              shapeSlots'[i] = shapeSlots[i]
        /\ UNCHANGED <<shapeCommit, shapeNext, shapeReader>>
    BY <1>1, <1>10 DEF ShapeStoreData, ShapeSlotStates
  <2>2. Storing /\ writer'.at = "even"
    BY <1>5, <1>10 DEF Storing
  <2>3. \A i \in ShapeSlotIds : ShapeSlotSound(i)'
    BY <1>6, <1>10, <2>1, <2>2 DEF ShapesInv, ShapeSlotSound, Storing
  <2>4. shapeSlots[shapeNext].commit = shapeCommit + 1
    BY <1>1, <2>2 DEF ShapesInv, ShapeSlotSound
  <2>5. ReadingSound'
    BY <1>1, <1>2, <2>1, <2>4 DEF ShapesInv, ReadingSound
  <2> QED BY <2>1, <2>3, <2>5 DEF ShapesInv, NoTornShape
<1>11. CASE /\ writer.at = "even" /\ ShapeCommit
            /\ writer' = [writer EXCEPT !.at = "finish"]
  <2>1. /\ shapeSlots'[shapeNext].commit = shapeCommit + 2
        /\ shapeSlots'[shapeNext].shape = shapeSlots[shapeNext].shape
        /\ shapeSlots'[shapeNext].data = shapeSlots[shapeNext].data
        /\ \A i \in ShapeSlotIds : i # shapeNext =>
              shapeSlots'[i] = shapeSlots[i]
        /\ shapeCommit' = shapeCommit + 2 /\ shapeReader' = shapeReader
    BY <1>1, <1>11 DEF ShapeCommit, ShapeSlotStates
  <2>2. Storing /\ ~Storing'
    BY <1>5, <1>11 DEF Storing
  <2>3. /\ shapeSlots[shapeNext].shape = cursorShape
        /\ shapeSlots[shapeNext].data = cursorShape
    BY <1>1, <1>11, <2>2 DEF ShapesInv, ShapeSlotSound
  <2>4. \A i \in ShapeSlotIds : i # shapeNext =>
          /\ shapeSlots[i].commit <= shapeCommit
          /\ shapeSlots[i].commit % 2 = 0
          /\ shapeSlots[i].data = shapeSlots[i].shape
    BY DEF ShapesInv, ShapeSlotSound
  <2>5. \A i \in ShapeSlotIds : ShapeSlotSound(i)'
    BY <1>1, <1>3, <2>1, <2>2, <2>3, <2>4 DEF ShapesInv, ShapeSlotSound
  <2>6. ReadingSound'
    BY <1>1, <1>2, <2>1 DEF ShapesInv, ReadingSound
  <2> QED BY <1>1, <2>1, <2>5, <2>6 DEF ShapesInv, NoTornShape
<1> QED BY <1>7, <1>8, <1>9, <1>10, <1>11 DEF BusShape

\* A load of cursor_shape.
LEMMA ShapeLoaded ==
  ASSUME ShapesTyped, ShapesInv, UNCHANGED <<writer, cursorShape>>,
         \/ \E n \in 1 .. Len(committed) :
              /\ committed[n].shape # 0
              /\ ShapeReadCall(committed[n].shape)
         \/ ShapeReading
  PROVE  ShapesInv'
<1>1. UNCHANGED shapeRingVars
  BY DEF ShapeReadCall, ShapeReading, ShapeReadBefore, ShapeReadHeader,
     ShapeReadData, ShapeReadAfter
<1>2. /\ shapeCommit' % 2 = 0
      /\ \A i \in ShapeSlotIds : ShapeSlotSound(i)'
  BY <1>1 DEF ShapesInv, ShapeSlotSound, Storing, shapeRingVars
<1>3. NoShape.data = NoShape.want
  BY DEF NoShape
<1>4. ASSUME shapeReader.at \in {"before", "header", "data", "after"}
      PROVE  /\ shapeReader.slot \in ShapeSlotIds
             /\ shapeReader.result = NoShape
             /\ \A a : ShapeReaderAt(a) = [shapeReader EXCEPT !.at = a]
             /\ NextShapeSlot.at \in {"before", "idle"}
             /\ NextShapeSlot.result = NoShape
  BY <1>4 DEF ShapesTyped, ShapeReaders, ShapeReaderAt, NextShapeSlot
<1>5. CASE \E n \in 1 .. Len(committed) : ShapeReadCall(committed[n].shape)
  BY <1>2, <1>3, <1>5 DEF ShapeReadCall, ShapesInv, ReadingSound, NoTornShape
<1>6. CASE ShapeReadBefore
  <2>1. CASE shapeReader' = NextShapeSlot
    BY <1>2, <1>3, <1>4, <1>6, <2>1 DEF ShapeReadBefore, ShapesInv,
       ReadingSound, NoTornShape
  <2>2. CASE shapeReader' # NextShapeSlot
    <3> DEFINE commit == shapeSlots[shapeReader.slot].commit
    <3>1. /\ shapeReader' = [shapeReader EXCEPT !.at = "header",
                                                !.before = commit]
          /\ ~ (commit % 2 = 1)
      BY <1>6, <2>2 DEF ShapeReadBefore
    <3>2. /\ shapeReader'.at = "header" /\ shapeReader'.before = commit
          /\ shapeReader'.result = NoShape
      BY <1>4, <1>6, <3>1 DEF ShapeReadBefore, ShapesTyped, ShapeReaders
    <3>3. commit \in Nat /\ shapeCommit \in Nat
      BY <1>4, <1>6 DEF ShapeReadBefore, ShapesTyped, ShapeSlotStates
    <3>4. commit % 2 = 0 /\ commit <= shapeCommit
      <4>1. CASE Storing /\ shapeReader.slot = shapeNext
        BY <1>4, <1>6, <3>1, <3>3, <4>1 DEF ShapeReadBefore, ShapesInv,
           ShapeSlotSound
      <4>2. CASE ~ (Storing /\ shapeReader.slot = shapeNext)
        BY <1>4, <1>6, <4>2 DEF ShapeReadBefore, ShapesInv, ShapeSlotSound
      <4> QED BY <4>1, <4>2
    <3>5. ReadingSound'
      BY <1>1, <3>2, <3>4 DEF ReadingSound, shapeRingVars
    <3> QED BY <1>2, <1>3, <3>2, <3>5 DEF ShapesInv, NoTornShape
  <2> QED BY <2>1, <2>2
<1>7. CASE ShapeReadHeader
  <2>1. CASE shapeReader' = NextShapeSlot
    BY <1>2, <1>3, <1>4, <1>7, <2>1 DEF ShapeReadHeader, ShapesInv,
       ReadingSound, NoTornShape
  <2>2. CASE shapeReader' # NextShapeSlot
    <3>1. /\ shapeReader' = [shapeReader EXCEPT !.at = "data"]
          /\ shapeSlots[shapeReader.slot].shape = shapeReader.want
      BY <1>4, <1>7, <2>2 DEF ShapeReadHeader
    <3>2. /\ shapeReader'.at = "data" /\ shapeReader'.slot = shapeReader.slot
          /\ shapeReader'.before = shapeReader.before
          /\ shapeReader'.want = shapeReader.want
          /\ shapeReader'.result = NoShape
      BY <1>4, <1>7, <3>1 DEF ShapeReadHeader, ShapesTyped, ShapeReaders
    <3>3. ReadingSound'
      BY <1>1, <1>7, <3>1, <3>2 DEF ShapesInv, ReadingSound, shapeRingVars,
         ShapeReadHeader
    <3> QED BY <1>2, <1>3, <3>2, <3>3 DEF ShapesInv, NoTornShape
  <2> QED BY <2>1, <2>2
<1>8. CASE ShapeReadData
  <2>1. shapeReader' = [shapeReader EXCEPT !.at = "after",
                          !.data = shapeSlots[shapeReader.slot].data]
    BY <1>8 DEF ShapeReadData
  <2>2. /\ shapeReader'.at = "after" /\ shapeReader'.slot = shapeReader.slot
        /\ shapeReader'.before = shapeReader.before
        /\ shapeReader'.want = shapeReader.want
        /\ shapeReader'.data = shapeSlots[shapeReader.slot].data
        /\ shapeReader'.result = NoShape
    BY <1>4, <1>8, <2>1 DEF ShapeReadData, ShapesTyped, ShapeReaders
  <2>3. ASSUME shapeSlots[shapeReader.slot].commit = shapeReader.before
        PROVE  shapeSlots[shapeReader.slot].data =
                 shapeSlots[shapeReader.slot].shape
    <3>1. shapeReader.before % 2 = 0
      BY <1>8 DEF ShapeReadData, ShapesInv, ReadingSound
    <3>2. ~ (Storing /\ shapeReader.slot = shapeNext)
      BY <1>4, <1>8, <2>3, <3>1 DEF ShapeReadData, ShapesInv,
         ShapeSlotSound, ShapesTyped
    <3> QED BY <1>4, <1>8, <3>2 DEF ShapeReadData, ShapesInv, ShapeSlotSound
  <2>4. ReadingSound'
    BY <1>1, <1>8, <2>2, <2>3 DEF ShapesInv, ReadingSound, shapeRingVars,
       ShapeReadData
  <2> QED BY <1>2, <1>3, <2>2, <2>4 DEF ShapesInv, NoTornShape
<1>9. CASE ShapeReadAfter
  <2>1. CASE shapeReader' = NextShapeSlot
    BY <1>2, <1>3, <1>4, <1>9, <2>1 DEF ShapeReadAfter, ShapesInv,
       ReadingSound, NoTornShape
  <2>2. CASE CommitUnchanged
    <3>1. shapeReader' = [at |-> "idle",
                          result |-> [want |-> shapeReader.want,
                                      data |-> shapeReader.data]]
      BY <1>9, <2>2 DEF ShapeReadAfter
    <3>2. shapeReader.data = shapeReader.want
      BY <1>9, <2>2 DEF ShapeReadAfter, CommitUnchanged, ShapesInv,
         ReadingSound
    <3> QED BY <1>2, <3>1, <3>2 DEF ShapesInv, ReadingSound, NoTornShape
  <2>3. CASE ~CommitUnchanged /\ shapeReader' # NextShapeSlot
    <3>1. PICK n : shapeReader' = [shapeReader EXCEPT !.at = "before",
                                                      !.attempt = n]
      BY <1>9, <2>3 DEF ShapeReadAfter
    <3>2. shapeReader'.at = "before" /\ shapeReader'.result = NoShape
      BY <1>4, <1>9, <3>1 DEF ShapeReadAfter, ShapesTyped, ShapeReaders
    <3> QED BY <1>2, <1>3, <3>2 DEF ShapesInv, ReadingSound, NoTornShape
  <2> QED BY <2>1, <2>2, <2>3
<1> QED BY <1>5, <1>6, <1>7, <1>8, <1>9 DEF ShapeReading

LEMMA ShapesKept ==
  ASSUME Typed, ShapesTyped, ShapesInv, [Next]_allVars
  PROVE  ShapesInv'
<1>1. CASE UNCHANGED allVars
  BY <1>1, ShapesQuiet DEF allVars, vars, busVars
<1>2. CASE CommonStep /\ UNCHANGED busVars
  <2>1. UNCHANGED writer
    BY <1>2 DEF CommonStep, OnClosed, SetMailboxConfig, FrameFails,
       FrameUnavailable, FrameResized
  <2> QED BY <1>2, <2>1, ShapesQuiet DEF busVars
<1>3. CASE RingStep /\ UNCHANGED busVars
  <2>1. UNCHANGED writer
        \/ (~Storing /\ writer'.at \notin {"header", "data", "even"})
    <3>1. CASE ScanFree \/ ScanReady \/ Steal \/ CopyFails \/ Copy \/ Publish
      <4>1. writer.at \in RingPoints
        BY <3>1 DEF ScanFree, ScanReady, Steal, CopyFails, Copy, Publish,
           RingPoints
      <4>2. \/ writer'.at \in {"idle", "evict", "steal", "copy", "publish"}
            \/ ScanFree /\ \E n : writer' = [writer EXCEPT !.slot = n]
        BY <3>1, IdleTyped DEF ScanFree, ScanReady, Steal, CopyFails, Copy,
           Publish, Claim
      <4>3. ScanFree => \A n : [writer EXCEPT !.slot = n].at = "claim"
        BY WriterKinds DEF ScanFree, Typed, ClaimStates
      <4> QED BY <4>1, <4>2, <4>3 DEF Storing, RingPoints
    <3>2. CASE FrameAccepted([at |-> "claim", slot |-> 1])
      <4>1. writer.at = "idle"
        BY <3>2, SomeDrained, IdleTyped DEF FrameAccepted
      <4> QED BY <3>2, <4>1 DEF FrameAccepted, Storing
    <3>3. CASE \/ Start \/ StopBegin \/ StopNotify
               \/ \E c \in Consumers :
                    \/ AcquireCall(c) \/ Acquiring(c) \/ AcquireTimeout(c)
                    \/ \E l \in lease[c] : Release(c, l)
      BY <3>3 DEF Start, StopBegin, StopNotify, AcquireCall, Acquiring,
         AcquireLock, AcquireCheck, AcquireBlock, AcquireTake,
         AcquirePurge, AcquireTimeout, Release
    <3> QED BY <1>3, <3>1, <3>2, <3>3 DEF RingStep, RingFrameStep
  <2> QED BY <1>3, <2>1, ShapesQuiet DEF busVars, Storing
<1>4. CASE BusFrameAccepted
  <2>1. writer.at = "idle" /\ writer'.at \in {"drain", "begin"}
    BY <1>4, SomeDrained, IdleTyped DEF BusFrameAccepted, FrameAccepted, Drain
  <2> QED BY <1>4, <2>1, ShapesQuiet DEF BusFrameAccepted, Storing
<1>5. CASE BusFrameStep
  <2>1. CASE DrainOne
    BY <2>1, ShapesQuiet DEF DrainOne, vars, cursorVars
  <2>2. CASE DrainDone \/ DrainFails
    <3>1. writer'.at \in {"idle", "begin"} /\ writer.at = "drain"
          /\ UNCHANGED cursorVars
      BY <2>2, DrainLeaves
    <3> QED BY <3>1, ShapesQuiet DEF cursorVars, Storing
  <2>3. CASE \/ BusBeginFails \/ BusBegin \/ BusSubmit \/ BusSubmitFails
             \/ BusCommitFails \/ BusFinish
    <3>1. \/ writer' = Idle
          \/ \E s : writer' = [at |-> "submit", scheduled |-> s]
          \/ \E s : writer' = [at |-> "write", scheduled |-> s]
          \/ writer' = Drain("wake")
      BY <2>3 DEF BusBeginFails, BusBegin, BusSubmit, BusSubmitFails,
         BusCommitFails, BusFinish
    <3>2. writer'.at \in {"idle", "submit", "write", "drain"}
      BY <3>1, IdleTyped DEF Drain
    <3>3. /\ writer.at \in {"begin", "submit", "write", "finish"}
          /\ UNCHANGED shapeVars
      BY <2>3 DEF BusBeginFails, BusBegin, BusSubmit, BusSubmitFails,
         BusCommitFails, BusFinish
    <3> QED BY <3>2, <3>3, ShapesQuiet DEF Storing
  <2>4. CASE BusCommit
    <3>1. writer \in FrameStates
      BY <2>4, WriterKinds DEF BusCommit, Typed
    <3>2. writer'.at \in {"shape", "finish"} /\ writer.at = "write"
      BY <2>4, <3>1 DEF BusCommit, FrameStates
    <3> QED BY <2>4, <3>2, ShapesQuiet DEF BusCommit, Storing
  <2>5. CASE BusShape
    BY <2>5, ShapeStored
  <2> QED BY <1>5, <2>1, <2>2, <2>3, <2>4, <2>5 DEF BusFrameStep
<1>6. CASE WorkerDrain
  <2>1. writer'.at = "drain" /\ writer.at = "idle"
    BY <1>6, IdleTyped DEF WorkerDrain, Drain
  <2> QED BY <1>6, <2>1, ShapesQuiet DEF WorkerDrain, cursorVars, Storing
<1>7. CASE UNCHANGED <<writer, cursorShape, shapeVars>>
  BY <1>7, ShapesQuiet
<1>8. CASE /\ \/ \E n \in 1 .. Len(committed) :
                    /\ committed[n].shape # 0
                    /\ ShapeReadCall(committed[n].shape)
              \/ ShapeReading
           /\ UNCHANGED <<writer, cursorShape>>
  BY <1>8, ShapeLoaded
<1>9. CASE BusStep
  BY <1>4, <1>5, <1>6, <1>7, <1>8, <1>9 DEF BusStep, BusStart, Start,
     BusStopBegin, StopBegin, StopWorker, StopRelease, WorkerStep,
     WorkerCheck, WorkerBlock, WorkerPause, GpuCompletes, vars, cursorVars,
     busVars
<1> QED BY <1>1, <1>2, <1>3, <1>9 DEF Next

(* What cursor_shape returns is one shape: a consumer never gets the       *)
(* pixels of a shape under the number of another, however its loads fall   *)
(* between the stores of publish_cursor_shape, for any number of shapes.   *)
THEOREM ShapesWhole == Spec => []NoTornShape
<1>1. Init => Typed /\ ShapesTyped /\ ShapesInv
  <2>1. Init => ShapesTyped /\ ShapesInv
    BY IdleTyped DEF Init, RingInit, BusInit, CaptureInit, Unstarted,
       ShapesInit, ShapesTyped, ShapesInv, ShapeSlotSound, ReadingSound,
       NoTornShape, Storing, ShapeSlotStates, ShapeSlotIds, ShapeReaders,
       NoShape
  <2> QED BY <2>1, Initially
<1>2. Typed /\ ShapesTyped /\ ShapesInv /\ [Next]_allVars
        => (Typed /\ ShapesTyped /\ ShapesInv)'
  BY TypedKept, ShapesTypedKept, ShapesKept
<1>3. ShapesInv => NoTornShape
  BY DEF ShapesInv
<1> QED BY <1>1, <1>2, <1>3, PTL DEF Spec

-----------------------------------------------------------------------------
(* The inference engine's operators.                                       *)

LEMMA NotActiveIs ==
  /\ NotActive \in Submissions \cup {NotActive}
  /\ ~NotActive.active
BY DEF NotActive

LEMMA EngineKinds ==
  ASSUME MovesTyped
  PROVE  /\ engine.initialized => engine \in Engines
         /\ engine \in Engines => engine.initialized
         /\ ~engine.initialized => engine = NoEngine
<1>1. engine \in Engines \/ engine = NoEngine
  BY DEF MovesTyped
<1>2. engine \in Engines => engine.initialized
  BY DEF Engines
<1>3. ~NoEngine.initialized
  BY DEF NoEngine
<1> QED BY <1>1, <1>2, <1>3

LEMMA SubmissionKinds ==
  ASSUME NEW e \in Engines
  PROVE  /\ e.submission.active => e.submission \in Submissions
         /\ ~e.submission.active => e.submission = NotActive
         /\ e.submission.active \in BOOLEAN
         /\ e.readbacks \in Seq(Readbacks) /\ e.initialized
<1>1. e.submission \in Submissions \/ e.submission = NotActive
  BY DEF Engines
<1>2. e.submission \in Submissions => e.submission.active = TRUE
  BY DEF Submissions
<1>3. NotActive.active = FALSE
  BY DEF NotActive
<1>4. e.readbacks \in Seq(Readbacks)
  BY DEF Engines
<1>5. e.initialized
  BY DEF Engines
<1> QED BY <1>1, <1>2, <1>3, <1>4, <1>5

\* ensure_move_inference and the reset of the baseline: the engine's
\* readbacks are kept, or there were none.
LEMMA BaselineIs ==
  ASSUME Typed, MovesTyped, ~EnsureRefused, NEW e, e = BaselineReset
  PROVE  /\ e \in Engines
         /\ \/ /\ engine.initialized /\ e.readbacks = engine.readbacks
               /\ e.submission = engine.submission
            \/ /\ e.readbacks = <<>> /\ e.submission = NotActive
               /\ PendingCount(engine) = 0
         /\ e.hasPrevious =>
              /\ engine.initialized /\ engine.hasPrevious
              /\ e.previousSequence = engine.previousSequence
              /\ e.hash = engine.hash
<1>1. Region.width \in Int /\ Source \in [size : Int, x : Int]
  BY RegionNow DEF Regions, Source, Typed
<1> DEFINE C == CreateEngine(Region.width, Source)
           R == ReconfigureSource(engine, Source)
<1>2. /\ C \in Engines /\ C.readbacks = <<>> /\ C.submission = NotActive
      /\ ~C.hasPrevious
  <2>1. <<>> \in Seq(Readbacks) /\ NoHash \in Nat
    BY DEF NoHash
  <2> QED BY <1>1, <2>1 DEF CreateEngine, Engines
<1>3. ASSUME engine.initialized
      PROVE  /\ R \in Engines /\ R.readbacks = engine.readbacks
             /\ R.submission = engine.submission
             /\ R.hasPrevious => /\ engine.hasPrevious
                                 /\ R.previousSequence = engine.previousSequence
                                 /\ R.hash = engine.hash
  <2>1. engine \in Engines
    BY <1>3, EngineKinds
  <2> DEFINE N == [engine EXCEPT !.source = Source, !.hasPrevious = FALSE,
                                 !.previousSequence = 0]
  <2>2. /\ N \in Engines /\ N.readbacks = engine.readbacks
        /\ N.submission = engine.submission /\ ~N.hasPrevious
    BY <1>1, <2>1 DEF Engines
  <2>3. R = engine \/ R = N
    BY DEF ReconfigureSource
  <2> HIDE DEF R, N
  <2> QED BY <2>1, <2>2, <2>3
<1> HIDE DEF C, R
<1>4. /\ Ensured \in Engines
      /\ \/ /\ engine.initialized /\ Ensured.readbacks = engine.readbacks
            /\ Ensured.submission = engine.submission
         \/ /\ Ensured.readbacks = <<>> /\ Ensured.submission = NotActive
            /\ PendingCount(engine) = 0
      /\ Ensured.hasPrevious =>
           /\ engine.initialized /\ engine.hasPrevious
           /\ Ensured.previousSequence = engine.previousSequence
           /\ Ensured.hash = engine.hash
  <2>1. CASE ~engine.initialized
    BY <1>2, <2>1 DEF Ensured, C, PendingCount
  <2>2. CASE engine.initialized /\ engine.width = Region.width
    BY <1>3, <2>2 DEF Ensured, R
  <2>3. CASE engine.initialized /\ engine.width # Region.width
    BY <1>2, <2>3 DEF Ensured, C, EnsureRefused
  <2> QED BY <2>1, <2>2, <2>3
<1>5. e = Ensured \/ e = ResetBaseline(Ensured)
  BY DEF BaselineReset
<1> HIDE DEF Ensured
<1>6. /\ ResetBaseline(Ensured) \in Engines
      /\ ResetBaseline(Ensured).readbacks = Ensured.readbacks
      /\ ResetBaseline(Ensured).submission = Ensured.submission
      /\ ~ResetBaseline(Ensured).hasPrevious
  BY <1>4 DEF ResetBaseline, Engines
<1> QED BY <1>4, <1>5, <1>6

\* submit, from a baseline with nothing provisional.
LEMMA SubmitIs ==
  ASSUME NEW e \in Engines, NEW n \in Nat, NEW s \in BOOLEAN,
         NEW new, new = Submit(e, n, s)
  PROVE  /\ new \in Engines
         /\ new.submission =
              [active |-> TRUE, scheduled |-> s,
               hasPrevious |-> e.hasPrevious,
               previousSequence |-> e.previousSequence,
               lastSequence |-> e.lastSequence]
         /\ new.previousSequence = n
         /\ new.hash.previous = n
         /\ new.hash.current = e.hash.previous
         /\ new.readbacks =
              IF s THEN Append(e.readbacks,
                          [sequence |-> n, base |-> e.previousSequence,
                           from |-> e.hash.previous, to |-> n,
                           discard |-> FALSE, completed |-> FALSE])
              ELSE e.readbacks
<1> DEFINE r == [sequence |-> n, base |-> e.previousSequence,
                 from |-> e.hash.previous, to |-> n,
                 discard |-> FALSE, completed |-> FALSE]
           rs == IF s THEN Append(e.readbacks, r) ELSE e.readbacks
           sub == [active |-> TRUE, scheduled |-> s,
                   hasPrevious |-> e.hasPrevious,
                   previousSequence |-> e.previousSequence,
                   lastSequence |-> e.lastSequence]
           h == [current |-> e.hash.previous, previous |-> n]
<1>1. r \in Readbacks /\ sub \in Submissions
      /\ h \in [current : Nat, previous : Nat]
  BY DEF Readbacks, Submissions, Engines
<1>2. rs \in Seq(Readbacks)
  BY <1>1 DEF Engines
<1>3. new = [e EXCEPT !.readbacks = rs, !.submission = sub, !.hash = h,
                      !.previousSequence = n, !.lastSequence = n,
                      !.hasPrevious = TRUE]
  BY DEF Submit
<1>4. h.previous = n /\ h.current = e.hash.previous
  OBVIOUS
<1> HIDE DEF r, rs, sub, h
<1>5. /\ new \in Engines /\ new.submission = sub /\ new.previousSequence = n
      /\ new.hash = h /\ new.readbacks = rs
  BY <1>1, <1>2, <1>3 DEF Engines
<1> QED BY <1>4, <1>5 DEF r, rs, sub

LEMMA CommitIs ==
  ASSUME NEW e \in Engines, NEW new, new = CommitSubmission(e)
  PROVE  /\ new \in Engines /\ new.submission = NotActive
         /\ new.previousSequence = e.previousSequence
         /\ new.hash = e.hash /\ new.readbacks = e.readbacks
BY DEF CommitSubmission, Engines

\* Marking a readback, and taking the first.
LEMMA MarkIs ==
  ASSUME NEW rs \in Seq(Readbacks), NEW i \in 1 .. Len(rs),
         NEW r \in Readbacks, NEW new, new = [rs EXCEPT ![i] = r]
  PROVE  /\ new \in Seq(Readbacks) /\ Len(new) = Len(rs)
         /\ new[i] = r
         /\ \A j \in 1 .. Len(rs) : j # i => new[j] = rs[j]
OBVIOUS

LEMMA CancelIs ==
  ASSUME NEW e \in Engines, e.submission \in Submissions,
         e.submission.scheduled => e.readbacks # <<>>,
         NEW new, new = CancelSubmission(e)
  PROVE  /\ new \in Engines /\ new.submission = NotActive
         /\ new.previousSequence = e.submission.previousSequence
         /\ new.hasPrevious = e.submission.hasPrevious
         /\ new.hash.previous = e.hash.current
         /\ Len(new.readbacks) = Len(e.readbacks)
         /\ \A i \in 1 .. Len(e.readbacks) :
              IF e.submission.scheduled /\ i = Len(e.readbacks)
              THEN new.readbacks[i].discard
              ELSE new.readbacks[i] = e.readbacks[i]
<1> DEFINE last == Len(e.readbacks)
           gone == [e.readbacks[last] EXCEPT !.discard = TRUE]
           rs == IF e.submission.scheduled
                 THEN [e.readbacks EXCEPT ![last] = gone] ELSE e.readbacks
           h == [current |-> NoHash, previous |-> e.hash.current]
<1>1. e.readbacks \in Seq(Readbacks) /\ last \in Nat
  BY DEF Engines
<1>2. ASSUME e.submission.scheduled
      PROVE  /\ last \in 1 .. last /\ e.readbacks[last] \in Readbacks
             /\ gone \in Readbacks /\ gone.discard
  <2>1. last \in 1 .. last
    BY <1>1, <1>2
  <2>2. e.readbacks[last] \in Readbacks
    BY <1>1, <2>1
  <2> QED BY <2>1, <2>2 DEF Readbacks
<1> HIDE DEF gone
<1>3. /\ rs \in Seq(Readbacks) /\ Len(rs) = last
      /\ \A i \in 1 .. last :
           IF e.submission.scheduled /\ i = last THEN rs[i].discard
           ELSE rs[i] = e.readbacks[i]
  <2>1. CASE e.submission.scheduled
    BY <1>1, <1>2, <2>1, MarkIs
  <2>2. CASE ~e.submission.scheduled
    BY <1>1, <2>2
  <2> QED BY <2>1, <2>2
<1>4. h \in [current : Nat, previous : Nat] /\ h.previous = e.hash.current
  BY DEF NoHash, Engines
<1>5. new = [e EXCEPT
        !.readbacks = rs, !.hash = h,
        !.previousSequence = e.submission.previousSequence,
        !.lastSequence = e.submission.lastSequence,
        !.hasPrevious = e.submission.hasPrevious,
        !.submission = NotActive]
  BY DEF CancelSubmission, gone
<1> HIDE DEF rs, h
<1>6. /\ new \in Engines /\ new.submission = NotActive
      /\ new.previousSequence = e.submission.previousSequence
      /\ new.hasPrevious = e.submission.hasPrevious
      /\ new.hash = h /\ new.readbacks = rs
  BY <1>3, <1>4, <1>5 DEF Engines, Submissions
<1> QED BY <1>3, <1>4, <1>6

LEMMA PopIs ==
  ASSUME NEW e \in Engines, e.readbacks # <<>>,
         NEW new, new = PopReadback(e)
  PROVE  /\ new \in Engines /\ new.submission = e.submission
         /\ new.previousSequence = e.previousSequence
         /\ new.hasPrevious = e.hasPrevious /\ new.hash = e.hash
         /\ Head(e.readbacks) = e.readbacks[1]
         /\ Len(new.readbacks) = Len(e.readbacks) - 1
         /\ \A i \in 1 .. Len(new.readbacks) :
              i + 1 \in 1 .. Len(e.readbacks)
                /\ new.readbacks[i] = e.readbacks[i + 1]
<1> DEFINE rs == Tail(e.readbacks)
<1>1. e.readbacks \in Seq(Readbacks)
  BY DEF Engines
<1>2. /\ rs \in Seq(Readbacks) /\ Len(rs) = Len(e.readbacks) - 1
      /\ \A i \in 1 .. Len(rs) : i + 1 \in 1 .. Len(e.readbacks)
                                   /\ rs[i] = e.readbacks[i + 1]
      /\ Head(e.readbacks) = e.readbacks[1]
  BY <1>1
<1>3. new = [e EXCEPT !.readbacks = rs]
  BY DEF PopReadback
<1> HIDE DEF rs
<1>4. /\ new \in Engines /\ new.submission = e.submission
      /\ new.previousSequence = e.previousSequence
      /\ new.hasPrevious = e.hasPrevious /\ new.hash = e.hash
      /\ new.readbacks = rs
  BY <1>2, <1>3 DEF Engines
<1> QED BY <1>2, <1>4

LEMMA CompleteIs ==
  ASSUME NEW e \in Engines, NEW i \in 1 .. Len(e.readbacks),
         NEW new, new = Complete(e, i)
  PROVE  /\ new \in Engines /\ new.submission = e.submission
         /\ new.previousSequence = e.previousSequence
         /\ new.hasPrevious = e.hasPrevious /\ new.hash = e.hash
         /\ Len(new.readbacks) = Len(e.readbacks)
         /\ \A j \in 1 .. Len(e.readbacks) :
              /\ new.readbacks[j].sequence = e.readbacks[j].sequence
              /\ new.readbacks[j].base = e.readbacks[j].base
              /\ new.readbacks[j].from = e.readbacks[j].from
              /\ new.readbacks[j].to = e.readbacks[j].to
              /\ new.readbacks[j].discard = e.readbacks[j].discard
<1> DEFINE r == [e.readbacks[i] EXCEPT !.completed = TRUE]
           rs == [e.readbacks EXCEPT ![i] = r]
<1>1. e.readbacks \in Seq(Readbacks) /\ e.readbacks[i] \in Readbacks
  BY DEF Engines
<1>2. /\ r \in Readbacks
      /\ r.sequence = e.readbacks[i].sequence
      /\ r.base = e.readbacks[i].base
      /\ r.from = e.readbacks[i].from
      /\ r.to = e.readbacks[i].to
      /\ r.discard = e.readbacks[i].discard
  BY <1>1 DEF Readbacks
<1>3. new = [e EXCEPT !.readbacks = rs]
  BY DEF Complete
<1> HIDE DEF r
<1>4. /\ rs \in Seq(Readbacks) /\ Len(rs) = Len(e.readbacks)
      /\ rs[i] = r
      /\ \A j \in 1 .. Len(e.readbacks) : j # i => rs[j] = e.readbacks[j]
  BY <1>1, <1>2, MarkIs
<1> HIDE DEF rs
<1>5. /\ new \in Engines /\ new.submission = e.submission
      /\ new.previousSequence = e.previousSequence
      /\ new.hasPrevious = e.hasPrevious /\ new.hash = e.hash
      /\ new.readbacks = rs
  BY <1>3, <1>4 DEF Engines
<1> QED BY <1>2, <1>4, <1>5

-----------------------------------------------------------------------------
(* Moves.                                                                  *)

BusPoints == {"submit", "write"} \cup CommitPoints

\* Steps that leave the engine, the bus's frames and results alone.
LEMMA MovesQuiet ==
  ASSUME MovesInv, UNCHANGED <<engine, committed, moveResult, bus>>,
         bus.only => pending'.base = sequence' /\ sequence' = sequence,
         \/ writer' = writer
         \/ writer.at \notin BusPoints /\ writer'.at \notin BusPoints
         \/ writer.at \in CommitPoints /\ writer'.at \in CommitPoints
         \/ ~bus.only /\ writer'.at # "submit"
  PROVE  MovesInv'
<1>1. MovesBus' = MovesBus
  BY DEF MovesBus
<1>2. "submit" \notin CommitPoints /\ "write" \notin CommitPoints
  BY DEF CommitPoints
<1>3. Numbered'
  BY <1>1, <1>2 DEF MovesInv, Numbered, BusPoints
<1>4. SubmissionPlaced'
  <2>1. CASE writer' = writer
    BY <1>1, <2>1 DEF MovesInv, SubmissionPlaced
  <2>2. CASE \/ writer.at \notin BusPoints /\ writer'.at \notin BusPoints
             \/ writer.at \in CommitPoints /\ writer'.at \in CommitPoints
    BY <1>1, <1>2, <2>2 DEF MovesInv, SubmissionPlaced, BusPoints
  <2>3. CASE ~bus.only /\ writer'.at # "submit"
    BY <1>1, <2>3 DEF MovesInv, SubmissionPlaced, MovesBus
  <2> QED BY <2>1, <2>2, <2>3
<1>5. BaselineKept' /\ ReadbacksMatch' /\ ResultMatches'
  BY DEF MovesInv, BaselineKept, ReadbacksMatch, ResultMatches,
     Provisional, OfProvisional, OfCommitted
<1> QED BY <1>3, <1>4, <1>5 DEF MovesInv

LEMMA MovesCommon ==
  ASSUME Typed, MovesInv, CommonStep, UNCHANGED busVars
  PROVE  MovesInv'
<1>1. UNCHANGED <<engine, committed, moveResult>>
  BY DEF busVars
<1>2. UNCHANGED <<bus, sequence, writer>>
  BY DEF CommonStep, OnClosed, SetMailboxConfig, FrameFails,
     FrameUnavailable, FrameResized, lifeVars, ringVars
<1>3. bus.only => pending.base = sequence
  BY DEF MovesInv, Numbered
<1>4. bus.only => pending'.base = sequence
  <2>1. CASE OnClosed
    BY <1>3, <2>1 DEF OnClosed, sourceVars
  <2>2. CASE FrameFails
    BY <1>3, <2>2, SomeDrained DEF FrameFails
  <2>3. CASE FrameUnavailable \/ \E size \in Sizes : FrameResized(size)
    <3>1. pending' = ForceFullDamage(pending, TRUE)
      BY <2>3 DEF FrameUnavailable, FrameResized
    <3> QED BY <1>3, <3>1, FullTyped DEF Typed
  <2>4. CASE \E config \in MailboxConfigs : SetMailboxConfig(config)
    <3>1. pending' = [ForceFullDamage(pending, TRUE) EXCEPT !.base = sequence]
      BY <2>4 DEF SetMailboxConfig
    <3>2. ForceFullDamage(pending, TRUE) \in Pendings
      BY FullTyped DEF Typed
    <3> QED BY <3>1, <3>2 DEF Pendings
  <2> QED BY <2>1, <2>2, <2>3, <2>4 DEF CommonStep
<1> QED BY <1>1, <1>2, <1>4, MovesQuiet

LEMMA MovesRingStep ==
  ASSUME Typed, MovesInv, RingStep, ~bus.only, UNCHANGED busVars
  PROVE  MovesInv'
<1>1. UNCHANGED <<engine, committed, moveResult>>
  BY DEF busVars
<1>2. UNCHANGED bus
  BY DEF RingStep, Start, StopBegin, StopNotify, FrameAccepted,
     RingFrameStep, ScanFree, ScanReady, Steal, CopyFails, Copy, Publish,
     AcquireCall, Acquiring, AcquireLock, AcquireCheck, AcquireBlock,
     AcquireTake, AcquirePurge, AcquireTimeout, Release, lifeVars
<1>3. UNCHANGED writer \/ writer'.at # "submit"
  <2>1. CASE ScanFree \/ ScanReady \/ Steal \/ CopyFails \/ Copy \/ Publish
    <3>1. \/ writer'.at \in {"idle", "evict", "steal", "copy", "publish"}
          \/ ScanFree /\ \E n : writer' = [writer EXCEPT !.slot = n]
      BY <2>1, IdleTyped DEF ScanFree, ScanReady, Steal, CopyFails, Copy,
         Publish, Claim
    <3>2. ScanFree => \A n : [writer EXCEPT !.slot = n].at = "claim"
      BY WriterKinds DEF ScanFree, Typed, ClaimStates
    <3> QED BY <3>1, <3>2
  <2>2. CASE FrameAccepted([at |-> "claim", slot |-> 1])
    BY <2>2 DEF FrameAccepted
  <2>3. CASE \/ Start \/ StopBegin \/ StopNotify
             \/ \E c \in Consumers :
                  \/ AcquireCall(c) \/ Acquiring(c) \/ AcquireTimeout(c)
                  \/ \E l \in lease[c] : Release(c, l)
    BY <2>3 DEF Start, StopBegin, StopNotify, AcquireCall, Acquiring,
       AcquireLock, AcquireCheck, AcquireBlock, AcquireTake,
       AcquirePurge, AcquireTimeout, Release
  <2> QED BY <2>1, <2>2, <2>3 DEF RingStep, RingFrameStep
<1> QED BY <1>1, <1>2, <1>3, MovesQuiet

\* A frame is submitted: what is to be compared with it is the last frame
\* on the bus.
LEMMA MovesSubmitted ==
  ASSUME Typed, ShapesTyped, MovesTyped, MovesInv, bus.only, BusSubmit
  PROVE  engine' \in Engines /\ MovesInv'
<1> DEFINE e == BaselineReset
<1>1. PICK overflow \in BOOLEAN :
        LET scheduled == Scheduled(e, InferenceDirty, overflow)
        IN  /\ engine' = Submit(e, sequence + 1, scheduled)
            /\ writer' = [at |-> "write", scheduled |-> scheduled]
  BY DEF BusSubmit
<1> DEFINE s == Scheduled(e, InferenceDirty, overflow)
<1>2. /\ e \in Engines
      /\ \/ /\ engine.initialized /\ e.readbacks = engine.readbacks
            /\ e.submission = engine.submission
         \/ /\ e.readbacks = <<>> /\ e.submission = NotActive
            /\ PendingCount(engine) = 0
      /\ e.hasPrevious =>
           /\ engine.initialized /\ engine.hasPrevious
           /\ e.previousSequence = engine.previousSequence
           /\ e.hash = engine.hash
  BY BaselineIs DEF BusSubmit
<1>3. s \in BOOLEAN /\ (s => e.hasPrevious)
  BY DEF Scheduled
<1> DEFINE L == Len(committed)
<1>4. /\ L \in Nat /\ sequence = L /\ writer.at = "submit" /\ MovesBus
  BY DEF BusSubmit, ShapesTyped, MovesInv, Numbered, SubmissionPlaced,
     CommitPoints
<1>5. e.hasPrevious => e.previousSequence = L /\ e.hash.previous = L
  BY <1>2, <1>4 DEF MovesInv, BaselineKept, SubmissionPlaced
<1>6. UNCHANGED <<committed, moveResult, bus, sequence, pending>>
  BY DEF BusSubmit, busFrameUnchanged
<1>7. writer' = [at |-> "write", scheduled |-> s]
      /\ engine' = Submit(e, sequence + 1, s)
  BY <1>1
<1> HIDE DEF s, e
<1>8. writer'.at = "write" /\ writer'.scheduled = s
  BY <1>7
<1> DEFINE r == [sequence |-> sequence + 1, base |-> e.previousSequence,
                 from |-> e.hash.previous, to |-> sequence + 1,
                 discard |-> FALSE, completed |-> FALSE]
           sub == [active |-> TRUE, scheduled |-> s,
                   hasPrevious |-> e.hasPrevious,
                   previousSequence |-> e.previousSequence,
                   lastSequence |-> e.lastSequence]
<1>9. /\ engine' \in Engines /\ engine'.submission = sub
      /\ engine'.previousSequence = sequence + 1
      /\ engine'.hash.previous = sequence + 1
      /\ engine'.hash.current = e.hash.previous
      /\ engine'.readbacks = IF s THEN Append(e.readbacks, r)
                             ELSE e.readbacks
  <2>1. sequence + 1 \in Nat
    BY DEF Typed
  <2> QED BY <1>2, <1>3, <1>7, <2>1, SubmitIs
<1>10. /\ sub.active /\ sub.scheduled = s
       /\ sub.hasPrevious = e.hasPrevious
       /\ sub.previousSequence = e.previousSequence
  OBVIOUS
<1>11. s => OfProvisional(r)
  BY <1>3, <1>4, <1>5 DEF OfProvisional
<1> HIDE DEF r, sub
<1>12. engine'.initialized
  BY <1>9, SubmissionKinds
<1>13. MovesBus' = MovesBus
  BY <1>6 DEF MovesBus
<1>14. Numbered'
  BY <1>4, <1>6, <1>8 DEF MovesInv, Numbered, CommitPoints
<1>15. SubmissionPlaced'
  BY <1>4, <1>6, <1>8, <1>9, <1>10, <1>12, <1>13
     DEF SubmissionPlaced, MovesBus
<1>16. BaselineKept'
  BY <1>4, <1>5, <1>6, <1>9, <1>10 DEF BaselineKept
<1>17. e.readbacks \in Seq(Readbacks)
  BY <1>2, SubmissionKinds
<1>18. \A i \in 1 .. Len(e.readbacks) :
         e.readbacks[i].discard \/ OfCommitted(e.readbacks[i])
  <2>1. CASE e.readbacks = <<>>
    BY <2>1
  <2>2. CASE engine.initialized /\ e.readbacks = engine.readbacks
    BY <1>4, <2>2 DEF MovesInv, ReadbacksMatch, Provisional, SubmissionPlaced
  <2> QED BY <1>2, <2>1, <2>2
<1>19. ReadbacksMatch'
  <2>1. Provisional' <=> s
    BY <1>9, <1>10 DEF Provisional
  <2>2. CASE s
    <3> DEFINE rs == engine'.readbacks
    <3>1. /\ rs # <<>> /\ Len(rs) = Len(e.readbacks) + 1
          /\ rs[Len(rs)] = r
          /\ \A i \in 1 .. Len(rs) :
               i = Len(rs) \/ (/\ i \in 1 .. Len(e.readbacks)
                               /\ rs[i] = e.readbacks[i])
      BY <1>9, <1>17, <2>2
    <3> HIDE DEF rs
    <3>2. /\ rs # <<>> /\ OfProvisional(rs[Len(rs)])
          /\ \A i \in 1 .. Len(rs) :
               i = Len(rs) \/ rs[i].discard \/ OfCommitted(rs[i])
      BY <1>11, <1>18, <2>2, <3>1
    <3>3. committed' = committed
      BY <1>6
    <3> QED BY <2>1, <2>2, <3>2, <3>3
            DEF ReadbacksMatch, OfProvisional, OfCommitted, rs
  <2>3. CASE ~s
    BY <1>6, <1>9, <1>18, <2>1, <2>3 DEF ReadbacksMatch, OfCommitted
  <2> QED BY <2>2, <2>3
<1>20. ResultMatches'
  BY <1>6 DEF MovesInv, ResultMatches
<1> QED BY <1>9, <1>14, <1>15, <1>16, <1>19, <1>20 DEF MovesInv

\* A submission is committed with its frame, or cancelled.
LEMMA MovesCommitted ==
  ASSUME Typed, ShapesTyped, MovesTyped, MovesInv, bus.only, BusCommit
  PROVE  engine' \in Engines \cup {NoEngine} /\ MovesInv'
<1> DEFINE L == Len(committed)
<1>1. /\ L \in Nat /\ sequence = L /\ pending.base = L
      /\ writer.at = "write" /\ committed \in Seq(Entries)
  BY DEF BusCommit, ShapesTyped, MovesInv, Numbered, CommitPoints
<1>2. writer'.at \in {"shape", "finish"}
  <2>1. writer \in FrameStates
    BY <1>1, WriterKinds DEF Typed
  <2> QED BY <2>1 DEF BusCommit, FrameStates
<1>3. UNCHANGED <<bus, sequence, pending, moveResult>>
  BY DEF BusCommit, busFrameUnchanged
<1> DEFINE entry == [base |-> BusDamage.base, shape |-> cursorShape,
                     shapePending |-> ShapeUnpublished]
<1>4. committed' = Append(committed, entry) /\ entry.base = L
  BY <1>1, BusDamageTyped DEF BusCommit
<1> HIDE DEF entry
<1>5. /\ Len(committed') = L + 1 /\ committed'[L + 1].base = L
      /\ \A n \in 1 .. L : committed'[n] = committed[n]
      /\ \A n \in 1 .. L : n \in 1 .. Len(committed')
  BY <1>1, <1>4
<1>6. ResultMatches'
  BY <1>3, <1>5 DEF MovesInv, ResultMatches
<1>7. Numbered'
  BY <1>1, <1>2, <1>3, <1>5 DEF Numbered, CommitPoints
<1>8. MovesBus' = MovesBus
  BY <1>3 DEF MovesBus
<1>9. CASE ~bus.moves
  <2>1. ~engine.initialized /\ engine' = engine
    BY <1>9 DEF MovesInv, SubmissionPlaced, MovesBus, BusCommit
  <2>2. SubmissionPlaced'
    BY <1>2, <2>1 DEF SubmissionPlaced
  <2> QED BY <1>6, <1>7, <2>1, <2>2 DEF MovesInv, BaselineKept,
             ReadbacksMatch, MovesTyped
<1>10. CASE bus.moves
  <2>1. /\ engine.initialized /\ engine.submission.active /\ MovesBus
        /\ engine' = CommitSubmission(engine)
    BY <1>1, <1>10 DEF MovesInv, SubmissionPlaced, MovesBus, BusCommit
  <2>2. engine \in Engines
    BY <2>1, EngineKinds
  <2>3. /\ engine' \in Engines /\ engine'.submission = NotActive
        /\ engine'.previousSequence = engine.previousSequence
        /\ engine'.hash = engine.hash
        /\ engine'.readbacks = engine.readbacks
    BY <2>1, <2>2, CommitIs
  <2>4. engine'.initialized /\ ~engine'.submission.active
    BY <2>3, SubmissionKinds, NotActiveIs
  <2>5. SubmissionPlaced'
    BY <1>2, <1>8, <2>1, <2>4 DEF SubmissionPlaced
  <2>6. BaselineKept'
    BY <1>5, <2>1, <2>3, <2>4 DEF MovesInv, BaselineKept
  <2>7. ASSUME NEW i \in 1 .. Len(engine.readbacks),
               ~engine.readbacks[i].discard
        PROVE  OfCommitted(engine.readbacks[i])'
    <3> DEFINE r == engine.readbacks[i]
    <3>1. engine'.readbacks[i] = r
      BY <2>3
    <3>2. CASE Provisional /\ i = Len(engine.readbacks)
      <4>1. OfProvisional(r)
        BY <2>1, <3>2 DEF MovesInv, ReadbacksMatch
      <4>2. L + 1 \in 1 .. Len(committed')
        BY <1>1, <1>5
      <4> QED BY <1>5, <3>1, <4>1, <4>2 DEF OfProvisional, OfCommitted
    <3>3. CASE ~ (Provisional /\ i = Len(engine.readbacks))
      <4>1. OfCommitted(r)
        BY <2>1, <2>7, <3>3 DEF MovesInv, ReadbacksMatch
      <4> QED BY <1>5, <3>1, <4>1 DEF OfCommitted
    <3> QED BY <3>2, <3>3
  <2>8. ReadbacksMatch'
    BY <2>3, <2>4, <2>7 DEF ReadbacksMatch, Provisional
  <2> QED BY <1>6, <1>7, <2>3, <2>5, <2>6, <2>8 DEF MovesInv
<1> QED BY <1>9, <1>10

LEMMA MovesCancelled ==
  ASSUME Typed, ShapesTyped, MovesTyped, MovesInv, bus.only, BusCommitFails
  PROVE  engine' \in Engines \cup {NoEngine} /\ MovesInv'
<1>1. /\ writer.at = "write" /\ writer'.at = "idle"
      /\ UNCHANGED <<bus, sequence, pending, moveResult, committed>>
  BY IdleTyped DEF BusCommitFails, busFrameUnchanged
<1>2. Numbered'
  BY <1>1 DEF MovesInv, Numbered, CommitPoints
<1>3. ResultMatches'
  BY <1>1 DEF MovesInv, ResultMatches
<1>4. MovesBus' = MovesBus
  BY <1>1 DEF MovesBus
<1>5. CASE ~bus.moves
  <2>1. ~engine.initialized /\ engine' = engine
    BY <1>5 DEF MovesInv, SubmissionPlaced, MovesBus, BusCommitFails
  <2> QED BY <1>1, <1>2, <1>3, <2>1 DEF MovesInv, SubmissionPlaced,
             BaselineKept, ReadbacksMatch, MovesTyped
<1>6. CASE bus.moves
  <2>1. /\ engine.initialized /\ engine.submission.active /\ MovesBus
        /\ engine' = CancelSubmission(engine)
    BY <1>1, <1>6 DEF MovesInv, SubmissionPlaced, MovesBus, BusCommitFails
  <2>2. /\ engine \in Engines /\ engine.submission \in Submissions
        /\ engine.submission.scheduled => engine.readbacks # <<>>
    BY <2>1, EngineKinds, SubmissionKinds
       DEF MovesInv, ReadbacksMatch, Provisional
  <2>3. /\ engine' \in Engines /\ engine'.submission = NotActive
        /\ engine'.previousSequence = engine.submission.previousSequence
        /\ engine'.hasPrevious = engine.submission.hasPrevious
        /\ engine'.hash.previous = engine.hash.current
        /\ Len(engine'.readbacks) = Len(engine.readbacks)
        /\ \A i \in 1 .. Len(engine.readbacks) :
             IF engine.submission.scheduled /\ i = Len(engine.readbacks)
             THEN engine'.readbacks[i].discard
             ELSE engine'.readbacks[i] = engine.readbacks[i]
    BY <2>1, <2>2, CancelIs
  <2>4. engine'.initialized /\ ~engine'.submission.active
    BY <2>3, SubmissionKinds, NotActiveIs
  <2>5. SubmissionPlaced'
    BY <1>1, <1>4, <2>1, <2>4 DEF SubmissionPlaced
  <2>6. BaselineKept'
    BY <1>1, <2>1, <2>3, <2>4 DEF MovesInv, BaselineKept
  <2>7. ReadbacksMatch'
    BY <1>1, <2>1, <2>3, <2>4 DEF MovesInv, ReadbacksMatch, Provisional,
       OfCommitted
  <2> QED BY <1>2, <1>3, <2>3, <2>5, <2>6, <2>7 DEF MovesInv
<1> QED BY <1>5, <1>6

\* ensure_move_inference or submit fails: the baseline may be gone.
LEMMA MovesRefused ==
  ASSUME Typed, ShapesTyped, MovesTyped, MovesInv, bus.only, BusSubmitFails
  PROVE  engine' \in Engines \cup {NoEngine} /\ MovesInv'
<1>1. /\ writer.at = "submit" /\ writer'.at = "idle"
      /\ UNCHANGED <<bus, sequence, pending, moveResult, committed>>
  BY IdleTyped DEF BusSubmitFails, busFrameUnchanged
<1>2. Numbered' /\ ResultMatches'
  BY <1>1 DEF MovesInv, Numbered, ResultMatches, CommitPoints
<1>3. MovesBus' = MovesBus /\ MovesBus
  BY <1>1 DEF MovesInv, SubmissionPlaced, MovesBus
<1>4. CASE engine' = engine
  <2>1. SubmissionPlaced'
    BY <1>1, <1>3, <1>4 DEF MovesInv, SubmissionPlaced
  <2> QED BY <1>1, <1>2, <1>4, <2>1 DEF MovesInv, MovesTyped,
             BaselineKept, ReadbacksMatch, Provisional, OfProvisional,
             OfCommitted
<1>5. CASE engine' = BaselineReset /\ ~EnsureRefused
  <2>1. /\ engine' \in Engines
        /\ \/ /\ engine.initialized /\ engine'.readbacks = engine.readbacks
              /\ engine'.submission = engine.submission
           \/ /\ engine'.readbacks = <<>> /\ engine'.submission = NotActive
              /\ PendingCount(engine) = 0
        /\ engine'.hasPrevious =>
             /\ engine.initialized /\ engine.hasPrevious
             /\ engine'.previousSequence = engine.previousSequence
             /\ engine'.hash = engine.hash
    BY <1>5, BaselineIs
  <2>2. engine'.initialized /\ ~engine'.submission.active
    BY <1>1, <2>1, SubmissionKinds, NotActiveIs
       DEF MovesInv, SubmissionPlaced
  <2>3. SubmissionPlaced'
    BY <1>1, <1>3, <2>2 DEF SubmissionPlaced
  <2>4. BaselineKept'
    BY <1>1, <2>1, <2>2 DEF MovesInv, BaselineKept, SubmissionPlaced
  <2>5. ReadbacksMatch'
    BY <1>1, <2>1, <2>2 DEF MovesInv, ReadbacksMatch, Provisional,
       OfCommitted, SubmissionPlaced
  <2> QED BY <1>2, <2>1, <2>3, <2>4, <2>5 DEF MovesInv
<1> QED BY <1>4, <1>5 DEF BusSubmitFails

\* The engine's readbacks are taken in order.
LEMMA PopKeeps ==
  ASSUME Typed, ShapesTyped, MovesTyped, MovesInv, Resolvable(engine),
         engine' = PopReadback(engine), ~engine.submission.active,
         UNCHANGED <<bus, committed>>, writer'.at # "write",
         writer'.at # "submit"
  PROVE  /\ engine' \in Engines
         /\ SubmissionPlaced' /\ BaselineKept' /\ ReadbacksMatch'
<1>1. engine \in Engines /\ engine.readbacks # <<>> /\ engine.initialized
  BY EngineKinds DEF Resolvable
<1>2. /\ engine' \in Engines /\ engine'.submission = engine.submission
      /\ engine'.previousSequence = engine.previousSequence
      /\ engine'.hasPrevious = engine.hasPrevious
      /\ engine'.hash = engine.hash
      /\ Head(engine.readbacks) = engine.readbacks[1]
      /\ Len(engine'.readbacks) = Len(engine.readbacks) - 1
      /\ \A i \in 1 .. Len(engine'.readbacks) :
           i + 1 \in 1 .. Len(engine.readbacks)
             /\ engine'.readbacks[i] = engine.readbacks[i + 1]
  BY <1>1, PopIs
<1>3. engine'.initialized
  BY <1>2, SubmissionKinds
<1>4. \A i \in 1 .. Len(engine.readbacks) :
        engine.readbacks[i].discard \/ OfCommitted(engine.readbacks[i])
  BY <1>1 DEF MovesInv, ReadbacksMatch, Provisional
<1>5. SubmissionPlaced'
  BY <1>1, <1>2, <1>3 DEF MovesInv, SubmissionPlaced, MovesBus
<1>6. BaselineKept'
  BY <1>1, <1>2 DEF MovesInv, BaselineKept
<1>7. ReadbacksMatch'
  <2>1. \A i \in 1 .. Len(engine'.readbacks) :
          engine'.readbacks[i].discard \/ OfCommitted(engine'.readbacks[i])
    BY <1>2, <1>4
  <2> QED BY <1>2, <2>1 DEF ReadbacksMatch, OfCommitted, Provisional
<1> QED BY <1>2, <1>5, <1>6, <1>7

LEMMA MovesDrained ==
  ASSUME Typed, ShapesTyped, MovesTyped, MovesInv, bus.only,
         DrainOne \/ DrainDone \/ DrainFails
  PROVE  /\ engine' \in Engines \cup {NoEngine}
         /\ moveResult' \in Results \cup {NoResult}
         /\ MovesInv'
<1>1. writer.at = "drain"
  BY DEF DrainOne, DrainDone, DrainFails, DrainEnds
<1>2. engine.initialized => ~engine.submission.active
  BY <1>1 DEF MovesInv, SubmissionPlaced
<1>3. UNCHANGED <<bus, committed, sequence, pending>>
  BY DEF DrainOne, DrainDone, DrainFails, DrainEnds, vars, lifeVars,
     ringVars, sourceVars
<1>4. /\ writer'.at \in {"drain", "idle", "begin"}
      /\ "drain" \notin CommitPoints /\ "idle" \notin CommitPoints
      /\ "begin" \notin CommitPoints
  <2>1. DrainOne => writer' = writer
    BY DEF DrainOne, vars
  <2> QED BY <1>1, <2>1, DrainLeaves DEF CommitPoints
<1>5. Numbered'
  BY <1>1, <1>3, <1>4 DEF MovesInv, Numbered
<1>6. CASE engine' = engine /\ moveResult' = moveResult
  <2>1. writer.at \notin BusPoints /\ writer'.at \notin BusPoints
    BY <1>1, <1>4 DEF BusPoints
  <2>2. bus.only => pending'.base = sequence' /\ sequence' = sequence
    BY <1>3 DEF MovesInv, Numbered
  <2> QED BY <1>3, <1>6, <2>1, <2>2, MovesQuiet DEF MovesTyped
<1>7. CASE /\ Resolvable(engine) /\ engine' = PopReadback(engine)
           /\ moveResult' = moveResult
  <2>1. ~engine.submission.active
    BY <1>2, <1>7 DEF Resolvable
  <2>2. /\ engine' \in Engines
        /\ SubmissionPlaced' /\ BaselineKept' /\ ReadbacksMatch'
    BY <1>3, <1>4, <1>7, <2>1, PopKeeps
  <2>3. ResultMatches'
    BY <1>3, <1>7 DEF MovesInv, ResultMatches
  <2> QED BY <1>5, <1>7, <2>2, <2>3 DEF MovesInv, MovesTyped
<1>8. CASE DrainOne /\ ~Head(engine.readbacks).discard
  <2>1. ~engine.submission.active /\ engine \in Engines
        /\ engine.readbacks # <<>> /\ Resolvable(engine)
        /\ engine' = PopReadback(engine)
    BY <1>2, <1>8, EngineKinds DEF DrainOne, Resolvable
  <2>2. /\ engine' \in Engines
        /\ SubmissionPlaced' /\ BaselineKept' /\ ReadbacksMatch'
    BY <1>3, <1>4, <2>1, PopKeeps
  <2> DEFINE r == Head(engine.readbacks)
  <2>3. /\ r = engine.readbacks[1] /\ 1 \in 1 .. Len(engine.readbacks)
        /\ r \in Readbacks
    BY <2>1 DEF Engines
  <2>4. OfCommitted(r)
    BY <1>8, <2>1, <2>3, EngineKinds DEF MovesInv, ReadbacksMatch,
       Provisional
  <2>5. PICK f \in BOOLEAN :
          moveResult' = [sequence |-> r.sequence, base |-> r.base,
                         from |-> r.from, to |-> r.to, failClosed |-> f]
    BY <1>8 DEF DrainOne
  <2> HIDE DEF r
  <2>6. moveResult' \in Results
    BY <2>3, <2>5 DEF Results, Readbacks
  <2>7. ResultMatches'
    BY <1>3, <2>4, <2>5 DEF ResultMatches, OfCommitted
  <2> QED BY <1>5, <2>2, <2>6, <2>7 DEF MovesInv
<1> QED BY <1>6, <1>7, <1>8 DEF DrainOne, DrainDone, DrainFails, DrainEnds

LEMMA MovesCompleted ==
  ASSUME MovesTyped, MovesInv, GpuCompletes
  PROVE  engine' \in Engines \cup {NoEngine} /\ MovesInv'
<1>1. PICK i \in NextCompleted(engine) : engine' = Complete(engine, i)
  BY DEF GpuCompletes
<1>2. engine.initialized /\ engine \in Engines
      /\ i \in 1 .. Len(engine.readbacks)
  BY <1>1, EngineKinds DEF NextCompleted, PendingCount
<1>3. /\ engine' \in Engines /\ engine'.submission = engine.submission
      /\ engine'.previousSequence = engine.previousSequence
      /\ engine'.hasPrevious = engine.hasPrevious
      /\ engine'.hash = engine.hash
      /\ Len(engine'.readbacks) = Len(engine.readbacks)
      /\ \A j \in 1 .. Len(engine.readbacks) :
           /\ engine'.readbacks[j].sequence = engine.readbacks[j].sequence
           /\ engine'.readbacks[j].base = engine.readbacks[j].base
           /\ engine'.readbacks[j].from = engine.readbacks[j].from
           /\ engine'.readbacks[j].to = engine.readbacks[j].to
           /\ engine'.readbacks[j].discard = engine.readbacks[j].discard
  BY <1>1, <1>2, CompleteIs
<1>4. UNCHANGED <<bus, committed, sequence, pending, writer, moveResult>>
  BY DEF GpuCompletes, vars, lifeVars, ringVars, sourceVars
<1>5. engine'.initialized
  BY <1>3, SubmissionKinds
<1>6. Numbered' /\ ResultMatches'
  BY <1>4 DEF MovesInv, Numbered, ResultMatches
<1>7. SubmissionPlaced'
  BY <1>2, <1>3, <1>4, <1>5 DEF MovesInv, SubmissionPlaced, MovesBus
<1>8. BaselineKept'
  BY <1>2, <1>3, <1>4 DEF MovesInv, BaselineKept
<1>9. ReadbacksMatch'
  <2>1. Len(engine.readbacks) \in Nat
    BY <1>2 DEF Engines
  <2>2. Provisional' <=> Provisional
    BY <1>3 DEF Provisional
  <2>3. ASSUME Provisional
        PROVE  /\ engine'.readbacks # <<>>
               /\ OfProvisional(engine.readbacks[Len(engine.readbacks)])'
    <3>1. /\ engine.readbacks # <<>>
          /\ OfProvisional(engine.readbacks[Len(engine.readbacks)])
      BY <1>2, <2>3 DEF MovesInv, ReadbacksMatch
    <3>2. /\ Len(engine.readbacks) \in 1 .. Len(engine.readbacks)
          /\ Len(engine'.readbacks) # 0
      BY <1>2, <1>3, <2>1, <3>1 DEF Engines
    <3>3. engine'.readbacks # <<>>
      BY <3>2
    <3> DEFINE n == Len(engine.readbacks)
    <3>4. /\ engine'.readbacks[n].sequence = engine.readbacks[n].sequence
          /\ engine'.readbacks[n].base = engine.readbacks[n].base
          /\ engine'.readbacks[n].from = engine.readbacks[n].from
          /\ engine'.readbacks[n].to = engine.readbacks[n].to
          /\ engine'.readbacks[n].discard = engine.readbacks[n].discard
      BY <1>3, <3>2
    <3>5. Len(engine'.readbacks) = n
      BY <1>3
    <3>6. OfProvisional(engine.readbacks[n])
      BY <3>1
    <3> HIDE DEF n
    <3> QED BY <1>4, <3>3, <3>4, <3>5, <3>6 DEF OfProvisional
  <2>4. \A j \in 1 .. Len(engine.readbacks) :
          \/ Provisional /\ j = Len(engine.readbacks)
          \/ engine'.readbacks[j].discard
          \/ OfCommitted(engine'.readbacks[j])
    <3> TAKE j \in 1 .. Len(engine.readbacks)
    <3>1. \/ Provisional /\ j = Len(engine.readbacks)
          \/ engine.readbacks[j].discard
          \/ OfCommitted(engine.readbacks[j])
      BY <1>2 DEF MovesInv, ReadbacksMatch
    <3> QED BY <1>3, <3>1 DEF OfCommitted
  <2> QED BY <1>3, <1>4, <2>2, <2>3, <2>4 DEF ReadbacksMatch, OfCommitted
<1> QED BY <1>3, <1>6, <1>7, <1>8, <1>9 DEF MovesInv

\* The other steps of on_frame.
LEMMA MovesFrameStep ==
  ASSUME Typed, ShapesTyped, MovesTyped, MovesInv, bus.only,
         BusBeginFails \/ BusBegin \/ BusShape \/ BusFinish
  PROVE  MovesInv'
<1>1. UNCHANGED <<engine, committed, moveResult, bus>>
  BY DEF BusBeginFails, BusBegin, BusShape, BusFinish, moveVars,
     busFrameUnchanged
<1>2. CASE BusBeginFails \/ BusShape
  <2>1. UNCHANGED <<pending, sequence>>
    BY <1>2 DEF BusBeginFails, BusShape
  <2>2. \/ writer.at \notin BusPoints /\ writer'.at \notin BusPoints
        \/ writer.at \in CommitPoints /\ writer'.at \in CommitPoints
    <3>1. CASE BusBeginFails
      BY <3>1, IdleTyped DEF BusBeginFails, BusPoints, CommitPoints
    <3>2. CASE BusShape
      <4>1. writer.at \in CommitPoints
        BY <3>2 DEF BusShape, CommitPoints
      <4>2. PICK a \in CommitPoints : writer' = [writer EXCEPT !.at = a]
        BY <3>2 DEF BusShape, CommitPoints
      <4>3. writer'.at \in CommitPoints
        BY <4>1, <4>2, WriterKinds DEF Typed, FrameStates
      <4> QED BY <4>1, <4>3
    <3> QED BY <1>2, <3>1, <3>2
  <2> QED BY <1>1, <2>1, <2>2, MovesQuiet DEF MovesInv, Numbered
<1>3. CASE BusBegin
  <2>1. /\ writer.at = "begin" /\ ~writer'.scheduled
        /\ writer'.at = IF bus.moves THEN "submit" ELSE "write"
        /\ UNCHANGED <<pending, sequence>>
    BY <1>3 DEF BusBegin
  <2>2. Numbered'
    BY <1>1, <2>1 DEF MovesInv, Numbered, CommitPoints
  <2>3. SubmissionPlaced'
    BY <1>1, <2>1 DEF MovesInv, SubmissionPlaced, MovesBus
  <2> QED BY <1>1, <2>2, <2>3 DEF MovesInv, BaselineKept, ReadbacksMatch,
             ResultMatches, Provisional, OfProvisional, OfCommitted
<1>4. CASE BusFinish
  <2>1. /\ writer.at = "finish" /\ writer'.at \in {"drain", "idle"}
        /\ sequence' = sequence + 1
        /\ pending' = CompleteDamagePublish(pending, sequence + 1)
    BY <1>4, IdleTyped DEF BusFinish, Drain
  <2>2. Numbered'
    BY <1>1, <2>1 DEF MovesInv, Numbered, CommitPoints,
       CompleteDamagePublish
  <2>3. SubmissionPlaced'
    BY <1>1, <2>1 DEF MovesInv, SubmissionPlaced, MovesBus
  <2> QED BY <1>1, <2>2, <2>3 DEF MovesInv, BaselineKept, ReadbacksMatch,
             ResultMatches, Provisional, OfProvisional, OfCommitted
<1> QED BY <1>2, <1>3, <1>4

LEMMA MovesBusStep ==
  ASSUME Typed, ShapesTyped, MovesTyped, MovesInv, bus.only, BusStep
  PROVE  /\ engine' \in Engines \cup {NoEngine}
         /\ moveResult' \in Results \cup {NoResult}
         /\ MovesInv'
<1> USE DEF MovesTyped
<1>1. CASE UNCHANGED <<vars, engine, moveResult, committed>>
  <2>1. UNCHANGED <<bus, pending, sequence, writer>>
    BY <1>1 DEF vars, lifeVars, ringVars, sourceVars
  <2> QED BY <1>1, <2>1, MovesQuiet DEF MovesInv, Numbered
<1>2. CASE BusStart \/ BusStopBegin \/ WorkerDrain
  <2>1. UNCHANGED <<bus, pending, sequence, engine, moveResult, committed>>
    BY <1>2 DEF BusStart, BusStopBegin, WorkerDrain, Start, StopBegin,
       busVars, moveVars, lifeVars, ringVars, sourceVars
  <2>2. writer' = writer
        \/ (writer.at \notin BusPoints /\ writer'.at \notin BusPoints)
    BY <1>2, IdleTyped DEF BusStart, BusStopBegin, WorkerDrain, Start,
       StopBegin, Drain, BusPoints, CommitPoints
  <2> QED BY <2>1, <2>2, MovesQuiet DEF MovesInv, Numbered
<1>3. CASE BusFrameAccepted
  <2>1. UNCHANGED <<bus, sequence, engine, moveResult, committed>>
        /\ writer.at = "idle" /\ pending'.base = pending.base
    BY <1>3, SomeDrained, IdleTyped DEF BusFrameAccepted, FrameAccepted,
       moveVars, lifeVars, ringVars
  <2>2. writer.at \notin BusPoints /\ writer'.at \notin BusPoints
    BY <1>3, <2>1 DEF BusFrameAccepted, FrameAccepted, Drain, BusPoints,
       CommitPoints
  <2> QED BY <2>1, <2>2, MovesQuiet DEF MovesInv, Numbered
<1>4. CASE DrainOne \/ DrainDone \/ DrainFails
  BY <1>4, MovesDrained
<1>5. CASE BusBeginFails \/ BusBegin \/ BusShape \/ BusFinish
  <2>1. UNCHANGED <<engine, moveResult>>
    BY <1>5 DEF BusBeginFails, BusBegin, BusShape, BusFinish, moveVars
  <2> QED BY <1>5, <2>1, MovesFrameStep
<1>6. CASE BusSubmit
  BY <1>6, MovesSubmitted DEF BusSubmit
<1>7. CASE BusSubmitFails
  BY <1>7, MovesRefused DEF BusSubmitFails
<1>8. CASE BusCommitFails
  BY <1>8, MovesCancelled DEF BusCommitFails
<1>9. CASE BusCommit
  BY <1>9, MovesCommitted DEF BusCommit
<1>10. CASE GpuCompletes
  <2>1. moveResult' = moveResult
    BY <1>10 DEF GpuCompletes
  <2> QED BY <1>10, <2>1, MovesCompleted
<1> QED BY <1>1, <1>2, <1>3, <1>4, <1>5, <1>6, <1>7, <1>8, <1>9, <1>10
        DEF BusStep, BusFrameStep, StopWorker, StopRelease, WorkerStep,
            WorkerCheck, WorkerBlock, WorkerPause, moveVars

LEMMA AwaitedTyped ==
  ASSUME Typed, MovesTyped, [Next]_allVars
  PROVE  awaited' \in SUBSET Nat
<1>1. CASE UNCHANGED awaited
  BY <1>1 DEF MovesTyped
<1>2. CASE DrainOne \/ DrainFails
  BY <1>2 DEF DrainOne, DrainFails, MovesTyped
<1>3. CASE BusCommit
  BY <1>3 DEF BusCommit, MovesTyped, Typed
<1>4. CASE ~ (DrainOne \/ DrainFails \/ BusCommit)
  BY <1>1, <1>4 DEF Next, BusStep, BusStart, BusStopBegin, StopWorker,
     StopRelease, BusFrameAccepted, BusFrameStep, DrainDone, DrainEnds,
     BusBeginFails, BusBegin, BusSubmit, BusSubmitFails,
     BusCommitFails, BusShape, BusFinish, WorkerStep, WorkerCheck,
     WorkerBlock, WorkerDrain, WorkerPause, GpuCompletes, moveVars,
     busVars, allVars
<1> QED BY <1>2, <1>3, <1>4

LEMMA MovesKept ==
  ASSUME Typed, ShapesTyped, MovesTyped, MovesInv, [Next]_allVars
  PROVE  MovesTyped' /\ MovesInv'
<1>1. CASE UNCHANGED allVars
  <2>1. UNCHANGED <<engine, committed, moveResult, bus, pending, sequence,
                    writer, awaited>>
    BY <1>1 DEF allVars, vars, busVars, lifeVars, ringVars, sourceVars
  <2> QED BY <2>1, MovesQuiet DEF MovesInv, Numbered, MovesTyped
<1>2. CASE CommonStep /\ UNCHANGED busVars
  BY <1>2, MovesCommon DEF MovesTyped, busVars
<1>3. CASE ~bus.only /\ RingStep /\ UNCHANGED busVars
  BY <1>3, MovesRingStep DEF MovesTyped, busVars
<1>4. CASE bus.only /\ BusStep
  BY <1>4, MovesBusStep, AwaitedTyped DEF MovesTyped
<1> QED BY <1>1, <1>2, <1>3, <1>4 DEF Next

LEMMA MovesInitially ==
  ASSUME Init
  PROVE  ShapesTyped /\ MovesTyped /\ MovesInv
<1>1. ShapesTyped
  BY DEF Init, Unstarted, ShapesInit, ShapesTyped, ShapeSlotStates,
     ShapeSlotIds, ShapeReaders, NoShape
<1>2. MovesTyped
  BY DEF Init, Unstarted, MovesTyped
<1>3. ~NoEngine.initialized
  BY DEF NoEngine
<1>4. MovesInv
  BY <1>3, IdleTyped DEF Init, RingInit, BusInit, CaptureInit, Unstarted,
     InitialDamage, MovesInv, Numbered, SubmissionPlaced, BaselineKept,
     ReadbacksMatch, ResultMatches, CommitPoints
<1> QED BY <1>1, <1>2, <1>4

(* A move result belongs to the frame it names: its base is the frame the  *)
(* damage of that frame is relative to, and the hashes compared are those  *)
(* of these two frames, for any number of frames and readback slots,       *)
(* although submissions are cancelled, baselines reset, engines replaced   *)
(* and results read back late (submit, cancel_submission,                  *)
(* ensure_move_inference, drain_move_results_locked).                      *)
THEOREM MovesAreOfFrames == Spec => []MovesMatchDamage
<1>1. Init => Typed /\ ShapesTyped /\ MovesTyped /\ MovesInv
  BY Initially, MovesInitially
<1>2. Typed /\ ShapesTyped /\ MovesTyped /\ MovesInv /\ [Next]_allVars
        => (Typed /\ ShapesTyped /\ MovesTyped /\ MovesInv)'
  BY TypedKept, ShapesTypedKept, MovesKept
<1>3. MovesInv => MovesMatchDamage
  BY DEF MovesInv, ResultMatches, MovesMatchDamage
<1> QED BY <1>1, <1>2, <1>3, PTL DEF Spec

-----------------------------------------------------------------------------
(* Awaited results.                                                        *)

\* Only start makes a capture run, and nothing is awaited before.
LEMMA StopKept ==
  ASSUME Typed, StopQuiets, Unawaited, [Next]_allVars
  PROVE  /\ StopQuiets' /\ Unawaited'
         /\ running' => running \/ awaited' = {}
         /\ awaited' = {} \/ bus.only
<1> USE DEF StopQuiets, Unawaited
<1>1. CASE /\ UNCHANGED <<stopped, workerStop, started, bus, writer, worker,
                          awaited>>
           /\ running' = running \/ running' = FALSE
  <2>1. StopQuiets'
    <3>1. (stopped => ~running)'
      BY <1>1
    <3>2. (workerStop => stopped)'
      BY <1>1
    <3>3. (running \in BOOLEAN)'
      BY <1>1
    <3> QED BY <3>1, <3>2, <3>3
  <2>2. Unawaited'
    BY <1>1
  <2> QED BY <1>1, <2>1, <2>2
<1>2. CASE /\ started /\ UNCHANGED <<stopped, workerStop, started, bus>>
           /\ running' = running \/ running' = FALSE
           /\ bus.only \/ awaited' = awaited
  <2>1. StopQuiets'
    <3>1. (stopped => ~running)'
      BY <1>2
    <3>2. (workerStop => stopped)'
      BY <1>2
    <3>3. (running \in BOOLEAN)'
      BY <1>2
    <3> QED BY <3>1, <3>2, <3>3
  <2>2. Unawaited'
    BY <1>2
  <2> QED BY <1>2, <2>1, <2>2
<1>3. CASE CommonStep /\ UNCHANGED busVars
  BY <1>1, <1>3 DEF CommonStep, OnClosed, SetMailboxConfig, FrameFails,
     FrameUnavailable, FrameResized, lifeVars, busVars
<1>4. CASE RingStep /\ UNCHANGED busVars /\ ~bus.only
  <2>1. UNCHANGED <<workerStop, worker, awaited>>
    BY <1>4 DEF busVars
  <2>2. CASE Start \/ StopBegin
    <3>1. (workerStop => stopped)'
      BY <2>1, <2>2 DEF Start, StopBegin
    <3>2. (stopped => ~running)' /\ (running \in BOOLEAN)'
      <4>1. CASE Start
        <5>1. ~stopped /\ stopped' = stopped /\ running' = TRUE
          BY <4>1 DEF Start
        <5>2. ~stopped'
          BY <5>1
        <5> QED BY <5>1, <5>2
      <4>2. CASE StopBegin
        BY <4>2 DEF StopBegin
      <4> QED BY <2>2, <4>1, <4>2
    <3>3. Unawaited'
      BY <2>1, <2>2 DEF Start, StopBegin
    <3>4. running' => running \/ awaited' = {}
      BY <2>1, <2>2 DEF Start, StopBegin
    <3> QED BY <1>4, <2>1, <3>1, <3>2, <3>3, <3>4
  <2>3. CASE StopNotify \/ \E c \in Consumers :
               \/ AcquireCall(c) \/ Acquiring(c) \/ AcquireTimeout(c)
               \/ \E l \in lease[c] : Release(c, l)
    BY <1>1, <2>1, <2>3 DEF StopNotify, AcquireCall, Acquiring, AcquireLock,
       AcquireCheck, AcquireBlock, AcquireTake, AcquirePurge,
       AcquireTimeout, Release, lifeVars
  <2>4. CASE FrameAccepted([at |-> "claim", slot |-> 1])
    BY <1>2, <2>1, <2>4, SomeDrained DEF FrameAccepted, lifeVars
  <2>5. CASE RingFrameStep
    <3>1. started
      BY <2>5 DEF RingFrameStep, ScanFree, ScanReady, Steal, CopyFails,
         Copy, Publish
    <3>2. UNCHANGED lifeVars
      BY <2>5 DEF RingFrameStep, ScanFree, ScanReady, Steal, CopyFails,
         Copy, Publish
    <3> QED BY <1>2, <2>1, <3>1, <3>2 DEF lifeVars
  <2> QED BY <1>4, <2>2, <2>3, <2>4, <2>5 DEF RingStep
<1>5. CASE BusStep /\ bus.only
  <2>1. CASE BusStart
    BY <2>1 DEF BusStart, Start, moveVars
  <2>2. CASE BusStopBegin
    BY <2>2 DEF BusStopBegin, StopBegin, busVars
  <2>3. CASE StopWorker
    BY <2>3 DEF StopWorker, vars, lifeVars, moveVars
  <2>4. CASE BusFrameAccepted
    BY <1>2, <1>5, <2>4, SomeDrained DEF BusFrameAccepted, FrameAccepted,
       lifeVars, workerVars
  <2>5. CASE BusFrameStep
    <3>1. started
      BY <2>5 DEF BusFrameStep, DrainOne, DrainDone, DrainFails, DrainEnds,
         BusBeginFails, BusBegin, BusSubmit, BusSubmitFails,
         BusCommitFails, BusCommit, BusShape, BusFinish
    <3>2. UNCHANGED <<stopped, workerStop, started, bus>>
      BY <2>5 DEF BusFrameStep, DrainOne, DrainDone, DrainFails, DrainEnds,
         BusBeginFails, BusBegin, BusSubmit, BusSubmitFails,
         BusCommitFails, BusCommit, BusShape, BusFinish,
         busFrameUnchanged, vars, lifeVars, workerVars
    <3>3. running' = running \/ running' = FALSE
      BY <2>5 DEF BusFrameStep, DrainOne, DrainDone, DrainFails, DrainEnds,
         BusBeginFails, BusBegin, BusSubmit, BusSubmitFails,
         BusCommitFails, BusCommit, BusShape, BusFinish,
         busFrameUnchanged, vars, lifeVars, workerVars
    <3> QED BY <1>2, <1>5, <3>1, <3>2, <3>3
  <2>6. CASE WorkerStep
    <3>1. started
      BY <2>6 DEF WorkerStep, WorkerCheck, WorkerBlock, WorkerDrain,
         WorkerPause
    <3>2. UNCHANGED <<lifeVars, workerStop>>
      BY <2>6 DEF WorkerStep, WorkerCheck, WorkerBlock, WorkerDrain,
         WorkerPause, vars
    <3> QED BY <1>2, <1>5, <3>1, <3>2 DEF lifeVars
  <2>7. CASE UNCHANGED <<vars, workerVars, awaited>>
    BY <1>1, <2>7 DEF vars, workerVars, lifeVars
  <2> QED BY <1>5, <2>1, <2>2, <2>3, <2>4, <2>5, <2>6, <2>7 DEF BusStep,
             StopRelease, GpuCompletes, moveVars
<1>6. CASE UNCHANGED allVars
  BY <1>1, <1>6 DEF allVars, vars, lifeVars, busVars
<1> QED BY <1>3, <1>4, <1>5, <1>6 DEF Next

\* An awaited result that is queued stays so while the queue is the same.
LEMMA QueuedQuiet ==
  ASSUME Queued, running' => running \/ awaited' = {},
         running => awaited' \in SUBSET awaited,
         UNCHANGED <<engine, committed>>
  PROVE  Queued'
BY DEF Queued, ResultQueued

\* The queue's head is taken with its result, or discarded.
LEMMA QueuedPopped ==
  ASSUME MovesTyped, Queued, Resolvable(engine),
         engine' = PopReadback(engine), committed' = committed,
         running' => running,
         \/ awaited' = awaited /\ Head(engine.readbacks).discard
         \/ awaited' = awaited \ {Head(engine.readbacks).sequence}
  PROVE  Queued'
<1>1. engine \in Engines /\ engine.readbacks # <<>> /\ engine.initialized
  BY EngineKinds DEF Resolvable
<1>3. /\ engine'.initialized
      /\ Head(engine.readbacks) = engine.readbacks[1]
      /\ Len(engine'.readbacks) = Len(engine.readbacks) - 1
      /\ \A i \in 1 .. Len(engine'.readbacks) :
           engine'.readbacks[i] = engine.readbacks[i + 1]
      /\ Len(engine.readbacks) \in Nat
  <2>1. Len(engine.readbacks) \in Nat
    BY <1>1 DEF Engines
  <2>2. /\ engine' \in Engines
        /\ Head(engine.readbacks) = engine.readbacks[1]
        /\ Len(engine'.readbacks) = Len(engine.readbacks) - 1
        /\ \A i \in 1 .. Len(engine'.readbacks) :
             engine'.readbacks[i] = engine.readbacks[i + 1]
    BY <1>1, PopIs
  <2> QED BY <2>1, <2>2, SubmissionKinds
<1>4. ASSUME running, NEW n \in awaited'
      PROVE  ResultQueued(n)'
  <2>1. /\ n \in awaited
        /\ \/ engine.readbacks[1].discard
           \/ n # engine.readbacks[1].sequence
    BY <1>3, <1>4
  <2>2. ResultQueued(n)
    BY <1>4, <2>1 DEF Queued
  <2>3. PICK i \in 1 .. Len(engine.readbacks) :
          engine.readbacks[i].sequence = n /\ ~engine.readbacks[i].discard
    BY <2>2 DEF ResultQueued
  <2>4. i # 1
    BY <2>1, <2>3
  <2>5. i - 1 \in 1 .. Len(engine'.readbacks) /\ (i - 1) + 1 = i
    BY <1>3, <2>3, <2>4
  <2>6. engine'.readbacks[i - 1] = engine.readbacks[i]
    BY <1>3, <2>5
  <2> QED BY <1>3, <2>2, <2>3, <2>5, <2>6 DEF ResultQueued
<1> QED BY <1>4 DEF Queued

LEMMA QueuedDrained ==
  ASSUME MovesTyped, Queued, running' => running \/ awaited' = {},
         DrainOne \/ DrainFails
  PROVE  Queued'
<1>1. CASE DrainOne
  <2>1. /\ Resolvable(engine) /\ engine' = PopReadback(engine)
        /\ running' = running /\ committed' = committed
    BY <1>1 DEF DrainOne, vars, lifeVars
  <2>2. \/ awaited' = awaited /\ Head(engine.readbacks).discard
        \/ awaited' = awaited \ {Head(engine.readbacks).sequence}
    BY <1>1 DEF DrainOne
  <2> QED BY <2>1, <2>2, QueuedPopped
<1>2. CASE DrainFails /\ DrainEnds(engine) /\ UNCHANGED awaited
  <2>1. UNCHANGED <<engine, committed>>
    BY <1>2 DEF DrainEnds
  <2> QED BY <1>2, <2>1, QueuedQuiet
<1>3. CASE DrainFails /\ ~(DrainEnds(engine) /\ UNCHANGED awaited)
  <2>1. /\ Resolvable(engine) /\ engine' = PopReadback(engine)
        /\ awaited' = awaited \ {Head(engine.readbacks).sequence}
        /\ committed' = committed
    BY <1>3 DEF DrainFails, DrainEnds
  <2>2. ~running' \/ running'
    OBVIOUS
  <2>3. CASE ~running'
    BY <2>3 DEF Queued
  <2>4. CASE running'
    <3>1. running \/ running' = FALSE
      BY <1>3, <2>4 DEF DrainFails
    <3> QED BY <2>1, <2>4, <3>1, QueuedPopped
  <2> QED BY <2>2, <2>3, <2>4
<1> QED BY <1>1, <1>2, <1>3

\* A new submission comes behind the others, or nothing was awaited.
LEMMA QueuedSubmitted ==
  ASSUME Typed, MovesTyped, MovesInv, Queued, BusSubmit
  PROVE  Queued'
<1>1. UNCHANGED <<running, committed, awaited>> /\ ~EnsureRefused
  BY DEF BusSubmit
<1> DEFINE e == BaselineReset
<1>2. PICK overflow \in BOOLEAN :
        engine' = Submit(e, sequence + 1,
                         Scheduled(e, InferenceDirty, overflow))
  BY DEF BusSubmit
<1> DEFINE s == Scheduled(e, InferenceDirty, overflow)
<1>3. /\ e \in Engines
      /\ \/ engine.initialized /\ e.readbacks = engine.readbacks
         \/ PendingCount(engine) = 0
  BY <1>1, BaselineIs
<1>4. s \in BOOLEAN
  BY DEF Scheduled
<1>5. engine' = Submit(e, sequence + 1, s)
  BY <1>2
<1> HIDE DEF s, e
<1> DEFINE r == [sequence |-> sequence + 1, base |-> e.previousSequence,
                 from |-> e.hash.previous, to |-> sequence + 1,
                 discard |-> FALSE, completed |-> FALSE]
<1> DEFINE sub == [active |-> TRUE, scheduled |-> s,
                   hasPrevious |-> e.hasPrevious,
                   previousSequence |-> e.previousSequence,
                   lastSequence |-> e.lastSequence]
<1>6. /\ engine' \in Engines /\ engine'.submission = sub
      /\ engine'.previousSequence = sequence + 1
      /\ engine'.hash.previous = sequence + 1
      /\ engine'.hash.current = e.hash.previous
      /\ engine'.readbacks = IF s THEN Append(e.readbacks, r)
                             ELSE e.readbacks
  <2>1. sequence + 1 \in Nat
    BY DEF Typed
  <2> QED BY <1>3, <1>4, <1>5, <2>1, SubmitIs
<1> HIDE DEF r, sub
<1>7. engine'.initialized /\ e.readbacks \in Seq(Readbacks)
  BY <1>3, <1>6, SubmissionKinds
<1>8. /\ Len(engine'.readbacks) >= Len(e.readbacks)
      /\ \A i \in 1 .. Len(e.readbacks) :
           i \in 1 .. Len(engine'.readbacks)
             /\ engine'.readbacks[i] = e.readbacks[i]
  BY <1>6, <1>7
<1>9. ASSUME running, NEW n \in awaited
      PROVE  ResultQueued(n)'
  <2>1. ResultQueued(n)
    BY <1>9 DEF Queued
  <2>2. e.readbacks = engine.readbacks
    BY <1>3, <2>1 DEF ResultQueued, PendingCount
  <2> QED BY <1>1, <1>7, <1>8, <2>1, <2>2 DEF ResultQueued
<1> QED BY <1>1, <1>9 DEF Queued

\* The frame that is committed brings its own readback, if it is scheduled.
LEMMA QueuedCommitted ==
  ASSUME Typed, ShapesTyped, MovesTyped, MovesInv, Queued, bus.only, BusCommit
  PROVE  Queued'
<1>1. running' = running /\ writer.at = "write"
  BY DEF BusCommit
<1>2. Len(committed) \in Nat /\ sequence = Len(committed)
      /\ Len(committed') = Len(committed) + 1
  BY <1>1 DEF BusCommit, ShapesTyped, MovesInv, Numbered, CommitPoints
<1>3. CASE bus.moves
  <2>1. /\ engine.initialized /\ engine.submission.active
        /\ engine.submission.scheduled = writer.scheduled
        /\ engine' = CommitSubmission(engine) /\ engine \in Engines
    BY <1>1, <1>3, EngineKinds DEF MovesInv, SubmissionPlaced, MovesBus,
       BusCommit
  <2>2. engine'.readbacks = engine.readbacks /\ engine'.initialized
    BY <2>1, CommitIs, SubmissionKinds
  <2>3. ASSUME running, NEW n \in awaited
        PROVE  ResultQueued(n)'
    <3>1. ResultQueued(n) /\ n \in Nat
      BY <2>3 DEF Queued, MovesTyped
    <3> QED BY <1>2, <2>2, <3>1 DEF ResultQueued
  <2>4. ASSUME writer.scheduled
        PROVE  ResultQueued(sequence + 1)'
    <3>1. /\ engine.readbacks # <<>>
          /\ OfProvisional(engine.readbacks[Len(engine.readbacks)])
      BY <2>1, <2>4 DEF MovesInv, ReadbacksMatch, Provisional
    <3>2. Len(engine.readbacks) \in 1 .. Len(engine.readbacks)
      BY <2>1, <3>1 DEF Engines
    <3>3. /\ engine.readbacks[Len(engine.readbacks)].sequence = sequence + 1
          /\ ~engine.readbacks[Len(engine.readbacks)].discard
      BY <1>2, <3>1 DEF OfProvisional
    <3>4. Len(engine.readbacks) \in 1 .. Len(engine'.readbacks)
          /\ sequence + 1 <= Len(committed')
      BY <1>2, <2>2, <3>2
    <3>5. sequence' = sequence
      BY DEF BusCommit
    <3> QED BY <2>2, <3>3, <3>4, <3>5 DEF ResultQueued
  <2> QED BY <1>1, <2>3, <2>4 DEF Queued, BusCommit
<1>4. CASE ~bus.moves
  <2>1. engine' = engine /\ awaited' = awaited
    BY <1>1, <1>4 DEF BusCommit, MovesInv, SubmissionPlaced
  <2>2. ASSUME running, NEW n \in awaited
        PROVE  ResultQueued(n)'
    <3>1. ResultQueued(n) /\ n \in Nat
      BY <2>2 DEF Queued, MovesTyped
    <3> QED BY <1>2, <2>1, <3>1 DEF ResultQueued
  <2> QED BY <1>1, <2>1, <2>2 DEF Queued
<1> QED BY <1>3, <1>4

\* Only the provisional readback is discarded.
LEMMA QueuedCancelled ==
  ASSUME Typed, ShapesTyped, MovesTyped, MovesInv, Queued, bus.only,
         BusCommitFails
  PROVE  Queued'
<1>1. /\ writer.at = "write" /\ UNCHANGED <<committed, awaited>>
      /\ running' = running \/ ~running'
  BY DEF BusCommitFails
<1>2. CASE ~bus.moves
  BY <1>1, <1>2, QueuedQuiet DEF BusCommitFails
<1>3. CASE bus.moves
  <2>1. /\ engine.initialized /\ engine.submission.active
        /\ engine' = CancelSubmission(engine) /\ engine \in Engines
    BY <1>1, <1>3, EngineKinds DEF MovesInv, SubmissionPlaced, MovesBus,
       BusCommitFails
  <2>2. /\ engine.submission \in Submissions
        /\ engine.submission.scheduled => engine.readbacks # <<>>
        /\ engine.submission.scheduled =>
             OfProvisional(engine.readbacks[Len(engine.readbacks)])
    BY <2>1, SubmissionKinds DEF MovesInv, ReadbacksMatch, Provisional
  <2>3. /\ engine' \in Engines
        /\ Len(engine'.readbacks) = Len(engine.readbacks)
        /\ \A i \in 1 .. Len(engine.readbacks) :
             IF engine.submission.scheduled /\ i = Len(engine.readbacks)
             THEN engine'.readbacks[i].discard
             ELSE engine'.readbacks[i] = engine.readbacks[i]
    BY <2>1, <2>2, CancelIs
  <2>4. engine'.initialized
    BY <2>3, SubmissionKinds
  <2>5. ASSUME running, NEW n \in awaited
        PROVE  ResultQueued(n)'
    <3>1. ResultQueued(n)
      BY <2>5 DEF Queued
    <3>2. PICK i \in 1 .. Len(engine.readbacks) :
            engine.readbacks[i].sequence = n /\ ~engine.readbacks[i].discard
      BY <3>1 DEF ResultQueued
    <3>3. n <= Len(committed) /\ Len(committed) \in Nat /\ n \in Nat
      BY <3>1 DEF ResultQueued, ShapesTyped, MovesTyped
    <3>4. ~ (engine.submission.scheduled /\ i = Len(engine.readbacks))
      BY <2>2, <3>2, <3>3 DEF OfProvisional
    <3>5. engine'.readbacks[i] = engine.readbacks[i]
      BY <2>3, <3>4
    <3> QED BY <1>1, <2>3, <2>4, <3>2, <3>3, <3>5 DEF ResultQueued
  <2> QED BY <1>1, <2>5 DEF Queued
<1> QED BY <1>2, <1>3

LEMMA QueuedKept ==
  ASSUME Typed, ShapesTyped, MovesTyped, MovesInv, StopQuiets, Unawaited,
         Queued, [Next]_allVars
  PROVE  Queued'
<1>1. running' => running \/ awaited' = {}
  BY StopKept
<1>2. CASE UNCHANGED <<engine, committed, awaited>>
  BY <1>1, <1>2, QueuedQuiet
<1>3. CASE ~running'
  BY <1>3 DEF Queued
<1>4. CASE bus.only /\ (\/ DrainOne \/ DrainFails \/ BusSubmit \/ BusCommit
                        \/ BusCommitFails)
  BY <1>1, <1>4, QueuedDrained, QueuedSubmitted, QueuedCommitted,
     QueuedCancelled
<1>5. CASE GpuCompletes
  <2>1. PICK i \in NextCompleted(engine) : engine' = Complete(engine, i)
    BY <1>5 DEF GpuCompletes
  <2>2. engine.initialized /\ engine \in Engines
        /\ i \in 1 .. Len(engine.readbacks)
    BY <2>1, EngineKinds DEF NextCompleted, PendingCount
  <2>3. /\ engine' \in Engines
        /\ Len(engine'.readbacks) = Len(engine.readbacks)
        /\ \A j \in 1 .. Len(engine.readbacks) :
             /\ engine'.readbacks[j].sequence = engine.readbacks[j].sequence
             /\ engine'.readbacks[j].discard = engine.readbacks[j].discard
    BY <2>1, <2>2, CompleteIs
  <2>4. engine'.initialized
    BY <2>3, SubmissionKinds
  <2>5. UNCHANGED <<running, committed, awaited>>
    BY <1>5 DEF GpuCompletes, vars, lifeVars
  <2>6. ASSUME NEW n, ResultQueued(n)
        PROVE  ResultQueued(n)'
    BY <2>3, <2>4, <2>5, <2>6 DEF ResultQueued
  <2> QED BY <2>5, <2>6 DEF Queued
<1>6. CASE BusSubmitFails
  BY <1>3, <1>6 DEF BusSubmitFails
<1> QED BY <1>2, <1>3, <1>4, <1>5, <1>6 DEF Next, BusStep, BusStart,
           BusStopBegin, StopWorker, StopRelease, BusFrameAccepted,
           BusFrameStep, DrainDone, DrainEnds, BusBeginFails, BusBegin,
           BusShape, BusFinish, WorkerStep, WorkerCheck, WorkerBlock,
           WorkerDrain, WorkerPause, moveVars, busVars, allVars

LEMMA QueuedNeedsWake ==
  ASSUME NEW e \in Engines, NEW i \in 1 .. Len(e.readbacks), e.initialized
  PROVE  NeedsWake(e)
<1>1. Len(e.readbacks) \in Nat
  BY DEF Engines
<1> QED BY <1>1 DEF NeedsWake, PendingCount

\* Where a step of the callback or the worker leaves an awaited result.
LEMMA AwakeKept ==
  ASSUME Typed, ShapesTyped, MovesTyped, MovesInv, PursuitInv,
         [Next]_allVars
  PROVE  Awake'
<1> SUFFICES ASSUME running', awaited' # {}
             PROVE  Awake'
  BY DEF Awake
<1>1. running /\ bus.only /\ ~stopped /\ ~workerStop
  BY StopKept DEF PursuitInv, StopQuiets, Unawaited
<1>2. awaited # {} =>
        /\ NeedsWake(engine)
        /\ \/ worker \in {"loop", "drain", "pause"} \/ workerWake = TRUE
           \/ writer.at \in CommitPoints /\ writer.scheduled
           \/ writer.at = "drain" /\ writer.next = "wake"
  <2>1. ASSUME awaited # {}
        PROVE  NeedsWake(engine)
    <3>1. PICK n \in awaited : ResultQueued(n)
      BY <1>1, <2>1 DEF PursuitInv, Queued
    <3>2. engine.initialized /\ engine \in Engines
          /\ \E i \in 1 .. Len(engine.readbacks) : TRUE
      BY <3>1, EngineKinds DEF ResultQueued
    <3> QED BY <3>2, QueuedNeedsWake
  <2> QED BY <1>1, <2>1 DEF PursuitInv, Awake
<1>3. CASE UNCHANGED <<awaited, worker, workerWake, writer>>
  BY <1>2, <1>3 DEF Awake
<1>4. CASE CommonStep /\ UNCHANGED busVars
  <2>1. UNCHANGED writer
    BY <1>4 DEF CommonStep, OnClosed, SetMailboxConfig, FrameFails,
       FrameUnavailable, FrameResized
  <2> QED BY <1>3, <1>4, <2>1 DEF busVars
<1>5. CASE DrainOne
  <2>1. awaited # {} /\ UNCHANGED <<worker, workerWake, writer>>
    BY <1>5 DEF DrainOne, vars, workerVars
  <2> QED BY <1>2, <2>1 DEF Awake
<1>6. CASE DrainDone \/ DrainFails
  <2>1. awaited # {} /\ writer.at = "drain" /\ DrainEnds(engine')
        /\ "drain" \notin CommitPoints
    BY <1>6 DEF DrainDone, DrainFails, DrainEnds, CommitPoints
  <2>5. NeedsWake(engine')
    <3>1. PICK n \in awaited' : ResultQueued(n)'
      BY QueuedKept DEF PursuitInv, Queued
    <3>2. MovesTyped'
      BY MovesKept
    <3>3. engine' \in Engines /\ engine'.initialized
          /\ \E i \in 1 .. Len(engine'.readbacks) : TRUE
      BY <3>1, <3>2, SubmissionKinds DEF ResultQueued, MovesTyped, NoEngine
    <3> QED BY <3>3, QueuedNeedsWake
  <2>2. CASE writer.next = "worker"
    <3>1. worker' = "pause"
      BY <1>1, <2>1, <2>2, <2>5 DEF DrainEnds, NeedsWake
    <3> QED BY <3>1 DEF Awake
  <2>3. CASE writer.next = "wake"
    <3>1. workerWake' = TRUE
      BY <2>1, <2>3, <2>5 DEF DrainEnds
    <3> QED BY <3>1 DEF Awake
  <2>4. CASE writer.next \notin {"worker", "wake"}
    <3>1. UNCHANGED <<worker, workerWake>>
      BY <2>1, <2>4 DEF DrainEnds
    <3>2. worker \in {"loop", "drain", "pause"} \/ workerWake = TRUE
      BY <1>2, <2>1, <2>4
    <3> QED BY <3>1, <3>2 DEF Awake
  <2> QED BY <2>2, <2>3, <2>4
<1>7. CASE BusCommitFails
  <2>1. writer.at = "write" /\ UNCHANGED awaited
    BY <1>7 DEF BusCommitFails
  <2>2. worker \in {"loop", "drain", "pause"} \/ workerWake = TRUE
    BY <1>2, <2>1 DEF CommitPoints
  <2>3. CASE bus.moves
    BY <1>7, <2>3 DEF BusCommitFails, Awake
  <2>4. CASE ~bus.moves
    BY <1>7, <2>2, <2>4 DEF BusCommitFails, Awake
  <2> QED BY <2>3, <2>4
<1>8. CASE BusCommit
  <2>1. writer \in FrameStates /\ writer.at = "write"
    BY <1>8, WriterKinds DEF BusCommit, Typed
  <2>2. writer'.at \in CommitPoints /\ writer'.scheduled = writer.scheduled
    BY <1>8, <2>1 DEF BusCommit, FrameStates, CommitPoints
  <2>3. CASE writer.scheduled
    BY <2>2, <2>3 DEF Awake
  <2>4. CASE ~writer.scheduled
    <3>1. UNCHANGED <<awaited, worker, workerWake>>
      BY <1>8, <2>4 DEF BusCommit, workerVars
    <3>2. worker \in {"loop", "drain", "pause"} \/ workerWake = TRUE
      BY <1>2, <2>1, <3>1 DEF CommitPoints
    <3> QED BY <3>1, <3>2 DEF Awake
  <2> QED BY <2>3, <2>4
<1>9. CASE BusShape
  <2>1. writer \in FrameStates /\ writer.at \in CommitPoints
    BY <1>9, WriterKinds DEF BusShape, CommitPoints, Typed
  <2>2. PICK a \in CommitPoints : writer' = [writer EXCEPT !.at = a]
    BY <1>9 DEF BusShape, CommitPoints
  <2>3. writer'.at \in CommitPoints /\ writer'.scheduled = writer.scheduled
    BY <2>1, <2>2 DEF FrameStates
  <2>4. UNCHANGED <<awaited, worker, workerWake>>
    BY <1>9 DEF BusShape, workerVars, moveVars
  <2> QED BY <1>2, <2>1, <2>3, <2>4 DEF Awake, CommitPoints
<1>10. CASE BusFinish
  <2>1. UNCHANGED <<awaited, worker, workerWake>> /\ writer.at = "finish"
    BY <1>10 DEF BusFinish, workerVars, moveVars
  <2>2. CASE writer.scheduled
    BY <1>10, <2>2 DEF BusFinish, Drain, Awake
  <2>3. CASE ~writer.scheduled
    BY <1>2, <2>1, <2>3 DEF Awake
  <2> QED BY <2>2, <2>3
<1>11. CASE BusFrameAccepted \/ BusBeginFails \/ BusBegin \/ BusSubmit
  <2>1. UNCHANGED <<awaited, worker, workerWake>>
    BY <1>11 DEF BusFrameAccepted, BusBeginFails, BusBegin, BusSubmit,
       workerVars, moveVars
  <2>2. writer.at \in {"idle", "begin", "submit"}
    BY <1>11, SomeDrained, IdleTyped DEF BusFrameAccepted, FrameAccepted,
       BusBeginFails, BusBegin, BusSubmit
  <2> QED BY <1>2, <2>1, <2>2 DEF Awake, CommitPoints
<1>12. CASE WorkerStep
  <2>1. UNCHANGED awaited
    BY <1>12 DEF WorkerStep, WorkerCheck, WorkerBlock, WorkerDrain,
       WorkerPause, moveVars
  <2>2. CASE WorkerDrain
    BY <2>2 DEF WorkerDrain, Awake
  <2>3. CASE WorkerPause
    BY <1>1, <2>3 DEF WorkerPause, Awake
  <2>4. CASE WorkerCheck
    <3>1. CASE workerWake = TRUE
      BY <1>1, <2>4, <3>1 DEF WorkerCheck, Awake
    <3>2. CASE workerWake # TRUE
      <4>1. UNCHANGED writer /\ worker = "check"
        BY <2>4 DEF WorkerCheck, vars
      <4> QED BY <1>2, <2>1, <3>2, <4>1 DEF Awake
    <3> QED BY <3>1, <3>2
  <2>5. CASE WorkerBlock
    <3>1. UNCHANGED <<writer, workerWake>> /\ worker = "block"
      BY <2>5 DEF WorkerBlock, vars
    <3> QED BY <1>2, <2>1, <3>1 DEF Awake
  <2> QED BY <1>12, <2>2, <2>3, <2>4, <2>5 DEF WorkerStep
<1>13. CASE BusStart \/ BusStopBegin \/ StopWorker
  <2>1. CASE BusStart
    <3>1. UNCHANGED awaited /\ ~started
      BY <2>1 DEF BusStart, Start, moveVars
    <3> QED BY <3>1 DEF PursuitInv, Unawaited
  <2>2. CASE BusStopBegin
    <3>1. running' = FALSE
      BY <2>2 DEF BusStopBegin, StopBegin
    <3> QED BY <3>1
  <2>3. CASE StopWorker
    BY <1>1, <2>3 DEF StopWorker
  <2> QED BY <1>13, <2>1, <2>2, <2>3
<1>14. CASE BusSubmitFails
  <2>1. running' = FALSE
    BY <1>14 DEF BusSubmitFails
  <2> QED BY <2>1
<1>15. CASE BusStep
  BY <1>3, <1>5, <1>6, <1>7, <1>8, <1>9, <1>10, <1>11, <1>12, <1>13, <1>14,
     <1>15 DEF BusStep, BusFrameStep, StopRelease, GpuCompletes, vars,
     workerVars, moveVars
<1>16. CASE UNCHANGED allVars
  BY <1>3, <1>16 DEF allVars, vars, busVars
<1> QED BY <1>1, <1>4, <1>15, <1>16 DEF Next

(* A frame committed with the move_pending flag gets its result though no  *)
(* further frame arrives: while the capture runs, the readback of every    *)
(* awaited result is queued, and the worker is awake, about to wake, or    *)
(* about to be woken, for any number of frames and readback slots          *)
(* (on_frame, cancel_submission, move_result_worker_main, stop).           *)
THEOREM ResultsPursued == Spec => []MoveResultPursued
<1> DEFINE Inv == Typed /\ ShapesTyped /\ MovesTyped /\ MovesInv
                    /\ PursuitInv
<1>1. Init => Inv
  BY Initially, MovesInitially, IdleTyped DEF Init, RingInit, BusInit,
     CaptureInit, Unstarted, PursuitInv, StopQuiets, Unawaited, Queued,
     Awake
<1>2. Inv /\ [Next]_allVars => Inv'
  BY TypedKept, ShapesTypedKept, MovesKept, StopKept, QueuedKept, AwakeKept
     DEF PursuitInv
<1>3. Inv => MoveResultPursued
  <2> SUFFICES ASSUME Inv, running, awaited # {}
               PROVE  MoveResultPursued
    BY DEF MoveResultPursued
  <2>1. \A n \in awaited : ResultQueued(n)
    BY DEF PursuitInv, Queued
  <2>2. \/ worker \in {"loop", "drain", "pause"} \/ workerWake
        \/ writer.at \in CommitPoints
        \/ writer.at = "drain" /\ writer.next = "wake"
    BY DEF PursuitInv, Awake
  <2> QED BY <2>1, <2>2 DEF MoveResultPursued, ResultQueued, PendingCount,
             CommitPoints
<1> QED BY <1>1, <1>2, <1>3, PTL DEF Spec
=============================================================================
