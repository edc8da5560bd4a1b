------------------------------ MODULE WgcDamage ------------------------------
(***************************************************************************)
(* The mailbox region of a Windows Graphics Capture and the damage it      *)
(* accumulates between two published frames (src/gpu/wgc_capture.cpp).     *)
(* Rows and columns are treated alike and independently by the code, so a  *)
(* frame is one row of columns; a dirty rectangle is one column.           *)
(***************************************************************************)
EXTENDS Integers, FiniteSets

CONSTANTS
    MaxSize,        \* bound: width of the largest source
    MaxDirtyRects   \* wgc_max_dirty_rects

ASSUME DamageAssumption ==
    /\ MaxSize \in Nat \ {0}
    /\ MaxDirtyRects \in Nat

Columns == 0..(MaxSize - 1)

-----------------------------------------------------------------------------
(* Mailbox configurations and the region they select.                      *)

FullFrame == [mode |-> "full_frame", x |-> 0, width |-> 0]

\* valid_mailbox_config
ValidMailboxConfigs ==
    {FullFrame}
        \cup [mode : {"absolute_region"}, x : Columns, width : 1..MaxSize]
        \cup [mode : {"centered_region"}, x : {0}, width : 1..MaxSize]

NoRegion == [x |-> 0, width |-> 0]

\* resolve_mailbox_region: the region of a source of the given size.
ResolveRegion(config, size) ==
    CASE size = 0 -> NoRegion
      [] config.mode = "full_frame" -> [x |-> 0, width |-> size]
      [] config.width > size -> NoRegion
      [] config.mode = "centered_region" ->
            [x |-> (size - config.width) \div 2, width |-> config.width]
      [] config.x > size - config.width -> NoRegion
      [] OTHER -> [x |-> config.x, width |-> config.width]

RegionColumns(region) == region.x..(region.x + region.width - 1)

-----------------------------------------------------------------------------
(* Pending damage: pending_damage_* and pending_dirty_rects.  A rectangle  *)
(* reported twice is kept twice, so count may exceed the columns.          *)

InitialDamage(base) ==
    [full |-> TRUE, overflow |-> FALSE, discontinuity |-> TRUE,
     base |-> base, dirty |-> {}, count |-> 0]

\* force_full_damage
ForceFullDamage(pending, discontinuity) ==
    [pending EXCEPT !.full = TRUE, !.dirty = {}, !.count = 0,
                    !.discontinuity = @ \/ discontinuity]

\* Mutant of CollectFrameDamage: only the last frame's damage is kept.
CollectLatestDamage(pending, dirty, native) ==
    IF ~native THEN ForceFullDamage(pending, FALSE)
    ELSE [pending EXCEPT !.dirty = dirty, !.count = Cardinality(dirty)]

\* collect_frame_damage.  Without native damage, or when its query throws,
\* the whole frame is damaged.
CollectFrameDamage(pending, dirty, native) ==
    IF ~native THEN ForceFullDamage(pending, FALSE)
    ELSE IF pending.full THEN pending
    ELSE IF pending.count + Cardinality(dirty) > MaxDirtyRects
    THEN [ForceFullDamage(pending, FALSE) EXCEPT !.overflow = TRUE]
    ELSE [pending EXCEPT !.dirty = @ \cup dirty,
                         !.count = @ + Cardinality(dirty)]

FullDamage(pending, region, discontinuity) ==
    [base |-> pending.base, full |-> TRUE, overflow |-> pending.overflow,
     discontinuity |-> pending.discontinuity \/ discontinuity,
     dirty |-> 0..(region.width - 1)]

\* current_damage, for a frame that is not scaled: rectangles are clipped to
\* the region and moved into the frame's coordinates.
CurrentDamage(pending, region, sequence) ==
    IF pending.full \/ sequence = 0
    THEN FullDamage(pending, region, sequence = 0)
    ELSE [base |-> pending.base, full |-> FALSE,
          overflow |-> pending.overflow,
          discontinuity |-> pending.discontinuity,
          dirty |-> {c - region.x :
                        c \in pending.dirty \cap RegionColumns(region)}]

\* complete_damage_publish
CompleteDamagePublish(pending, published) ==
    [full |-> FALSE, overflow |-> FALSE, discontinuity |-> FALSE,
     base |-> published, dirty |-> {}, count |-> 0]

-----------------------------------------------------------------------------
\* A frame's damage is complete if the frame can be rebuilt from the last
\* one published, patched where it is dirty.  changed holds the columns of
\* the source that differ between the two.
Rebuilds(damage, region, changed, last) ==
    damage.full
    \/ /\ damage.base = last.sequence
       /\ region = last.region
       /\ \A c \in changed \cap RegionColumns(region) :
             c - region.x \in damage.dirty
=============================================================================
