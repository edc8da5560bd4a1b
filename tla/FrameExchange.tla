--------------------------- MODULE FrameExchange ---------------------------
(***************************************************************************)
(* What the shared frame bus promises, without ownership words, gates,     *)
(* sweeps and fences: numbered frames in slots, each either empty or       *)
(* showing one whole frame; every consumer acquires newer and newer        *)
(* frames; and a slot is emptied only when nobody reads it.                *)
(* SharedFrameBus implements this module (SharedFrameBus!Exchanges).       *)
(***************************************************************************)
EXTENDS Naturals

CONSTANTS
  Slot,       \* the textures
  Consumer    \* the registrations

VARIABLES
  published,  \* the number of the newest frame published, 0 before the first
  content,    \* content[k]: the frame slot k shows, 0 if it shows none
  live,       \* live[c]: the process of consumer c has not exited
  last,       \* last[c]: the newest frame consumer c has acquired
  leases,     \* leases[c]: the <<slot, frame>> the application of c holds
  reads       \* reads[c]: the <<slot, frame>> the GPU may be reading for c

exchangeVars == <<published, content, live, last, leases, reads>>

Init ==
  /\ published = 0
  /\ content = [k \in Slot |-> 0]
  /\ live = [c \in Consumer |-> TRUE]
  /\ last = [c \in Consumer |-> 0]
  /\ leases = [c \in Consumer |-> {}]
  /\ reads = [c \in Consumer |-> {}]

\* The producer takes a slot nobody reads.
Empty(k) ==
  /\ \A c \in Consumer : \A r \in reads[c] : r[1] # k
  /\ content' = [content EXCEPT ![k] = 0]
  /\ UNCHANGED <<published, live, last, leases, reads>>

\* The producer shows the next frame, whole, in a slot it has taken.
Publish(k) ==
  /\ content[k] = 0
  /\ published' = published + 1
  /\ content' = [content EXCEPT ![k] = published']
  /\ UNCHANGED <<live, last, leases, reads>>

\* A consumer gets a frame newer than all it has had.
Acquire(c, k) ==
  /\ live[c]
  /\ content[k] > last[c]
  /\ last' = [last EXCEPT ![c] = content[k]]
  /\ leases' = [leases EXCEPT ![c] = @ \cup {<<k, content[k]>>}]
  /\ reads' = [reads EXCEPT ![c] = @ \cup {<<k, content[k]>>}]
  /\ UNCHANGED <<published, content, live>>

\* The application gives one frame back; the GPU may go on reading it.
Release(c, r) ==
  /\ r \in leases[c]
  /\ leases' = [leases EXCEPT ![c] = @ \ {r}]
  /\ UNCHANGED <<published, content, live, last, reads>>

\* The handle fails, and takes its leases with it.
Revoke(c) ==
  /\ leases' = [leases EXCEPT ![c] = {}]
  /\ UNCHANGED <<published, content, live, last, reads>>

\* The GPU is done with the oldest of its reads, none of which is held.
Finish(c, done) ==
  /\ done \cap leases[c] = {}
  /\ \A r \in done, q \in reads[c] \ done : r[2] < q[2]
  /\ reads' = [reads EXCEPT ![c] = @ \ done]
  /\ UNCHANGED <<published, content, live, last, leases>>

\* The consumer's process exits; what its GPU reads, it goes on reading.
Exit(c) ==
  /\ live[c]
  /\ live' = [live EXCEPT ![c] = FALSE]
  /\ last' = [last EXCEPT ![c] = 0]
  /\ leases' = [leases EXCEPT ![c] = {}]
  /\ UNCHANGED <<published, content, reads>>

Next ==
  \/ \E k \in Slot : Empty(k) \/ Publish(k)
  \/ \E c \in Consumer :
       \/ \E k \in Slot : Acquire(c, k)
       \/ \E r \in leases[c] : Release(c, r)
       \/ Revoke(c)
       \/ \E done \in SUBSET reads[c] : Finish(c, done)
       \/ Exit(c)

Spec == Init /\ [][Next]_exchangeVars
=============================================================================
