------------------- MODULE PipelineEpochSupervisorProofs -------------------
(***************************************************************************)
(* Proofs about PipelineEpochSupervisor for every set of participants,     *)
(* every capacity, every set of nonces and every bound.                    *)
(***************************************************************************)
EXTENDS PipelineEpochSupervisor, TLAPS

\* Registrations in circulation are of this epoch or an earlier one, and
\* those of this epoch used the nonces below the next.
IssuedBefore ==
  /\ ticket \in tickets
  /\ \A r \in issued : r.ticket = ticket \/ r.ticket.epoch < ticket.epoch
  /\ \A r \in issued : r.ticket = ticket => r.nonce < nextRegistration
  /\ \A m \in sent : m.reg \in issued

\* Whoever works for an epoch that is not retired is on its list.
WorkersRegistered ==
  /\ state = "retired" => participants = {}
  /\ \A r \in working : r.ticket = ticket /\ state # "retired" =>
       \E p \in participants : Found(p, r)

\* A holder sends its quiesced acknowledgement after it let go, for good; an
\* entry is marked only by the acknowledgement of its own holder.
QuiescedStopped ==
  /\ \A m \in sent : m.kind = "quiesced" => m.reg \notin working
  /\ state = "quiescing" =>
       \A p \in participants : p.quiesced => RegistrationOf(p) \notin working

\* An entry of an epoch under construction is marked ready only by the
\* acknowledgement of its own holder.
ReadySent ==
  state \in {"building", "ready"} =>
    \A p \in participants : p.ready =>
      [kind |-> "ready", reg |-> RegistrationOf(p)] \in sent

\* A contract that forces nothing is only given out once a forced frame of
\* the same epoch is published.
ForcedFirst ==
  /\ \A c \in contracts : c.ticket.epoch > 1 /\ ~c.forced =>
       [ticket |-> c.ticket, forced |-> TRUE] \in published
  /\ state = "running" /\ ticket.epoch > 1 /\ ~firstFramePending =>
       [ticket |-> ticket, forced |-> TRUE] \in published

EpochInv ==
  /\ TypeOK
  /\ IssuedBefore
  /\ WorkersRegistered
  /\ QuiescedStopped
  /\ ReadySent
  /\ ForcedFirst
  /\ RecoversOwnFailure

-----------------------------------------------------------------------------
\* The supervisor the constructor makes satisfies the invariant.
LEMMA InitEpochInv == Init => EpochInv
<1> SUFFICES ASSUME Init PROVE EpochInv
  OBVIOUS
<1>1. ticket \in Tickets /\ ticket.epoch = 1
  <2>1. PICK n \in Nonces : ticket = [epoch |-> 1, nonce |-> n]
    BY DEF Init
  <2>2. n \in Nat
    BY SupervisorAssumption
  <2> QED
    BY <2>1, <2>2 DEF Tickets
<1>2. TypeOK
  BY <1>1 DEF Init, TypeOK, States
<1> QED
  BY <1>1, <1>2 DEF Init, EpochInv, IssuedBefore, WorkersRegistered,
    QuiescedStopped, ReadySent, ForcedFirst, RecoversOwnFailure

\* register_participant preserves it: the new nonce is unused.
LEMMA RegisterInv ==
  ASSUME EpochInv, NEW id \in Participants, RegisterParticipant(id)
  PROVE  EpochInv'
<1> DEFINE n == RegistrationNonce
           reg == [ticket |-> ticket, id |-> id, nonce |-> n]
           new == [id |-> id, nonce |-> n, quiesced |-> state = "running",
                   ready |-> state = "running"]
<1>1. /\ state \in {"running", "building", "ready"}
      /\ IdFree(id)
      /\ participants' = participants \cup {new}
      /\ nextRegistration' = n + 1
      /\ issued' = issued \cup {reg}
      /\ working' = working \cup {reg}
      /\ UNCHANGED <<state, ticket, firstFramePending, tickets, sent, failed,
                     contracts, published>>
  BY DEF RegisterParticipant, frameVars
<1>2. n \in Nat /\ n >= nextRegistration
  BY DEF RegistrationNonce, EpochInv, TypeOK
<1>3. reg \in Registrations /\ new \in Members
  BY <1>2 DEF Registrations, Members, EpochInv, TypeOK
<1>4. reg \notin issued
  BY <1>2 DEF EpochInv, TypeOK, IssuedBefore, Registrations
<1>5. Found(new, reg) /\ (state # "running" => ~new.ready)
  BY DEF Found
<1>6. new.id = id /\ reg.ticket = ticket /\ reg.nonce = n
  OBVIOUS
<1> HIDE DEF n, new, reg
<1>7. TypeOK'
  <2>1. \A p, q \in participants' : p.id = q.id => p = q
    BY <1>1, <1>6 DEF IdFree, EpochInv, TypeOK
  <2> QED
    BY <1>1, <1>2, <1>3, <2>1 DEF EpochInv, TypeOK
<1>8. IssuedBefore'
  BY <1>1, <1>2, <1>6 DEF EpochInv, TypeOK, IssuedBefore, Registrations
<1>9. WorkersRegistered'
  BY <1>1, <1>5 DEF EpochInv, WorkersRegistered, Found
<1>10. QuiescedStopped'
  BY <1>1, <1>4 DEF EpochInv, QuiescedStopped, IssuedBefore
<1>11. ReadySent'
  BY <1>1, <1>5 DEF EpochInv, ReadySent, RegistrationOf
<1>12. ForcedFirst' /\ RecoversOwnFailure'
  BY <1>1 DEF EpochInv, ForcedFirst, RecoversOwnFailure
<1> QED
  BY <1>7, <1>8, <1>9, <1>10, <1>11, <1>12 DEF EpochInv

\* A message names the entry of its own sender.
LEMMA FoundIsOwn ==
  ASSUME TypeOK, NEW r \in Registrations, TicketMatches(r.ticket),
         NEW p \in participants, Found(p, r)
  PROVE  RegistrationOf(p) = r
BY DEF TypeOK, Registrations, Members, TicketMatches, Found, RegistrationOf

\* A message delivered at any time preserves it, a stale one by changing
\* nothing.
LEMMA DeliverInv ==
  ASSUME EpochInv, NEW r \in issued, Deliver(r)
  PROVE  EpochInv'
<1> USE DEF holderVars, frameVars
<1>1. r \in Registrations
  BY DEF EpochInv, TypeOK
<1>2. CASE r \notin working /\ UnregisterParticipant(r)
  <2>1. PICK p \in participants : /\ Found(p, r)
                                  /\ participants' = participants \ {p}
    BY <1>2 DEF UnregisterParticipant
  <2>2. RegistrationOf(p) = r
    BY <1>1, <1>2, <2>1, FoundIsOwn DEF UnregisterParticipant, EpochInv
  <2>3. UNCHANGED <<state, ticket, nextRegistration, firstFramePending,
                    tickets, issued, working, sent, failed, contracts,
                    published>>
    BY <1>2 DEF UnregisterParticipant
  <2>4. TypeOK' /\ IssuedBefore'
    BY <2>1, <2>3 DEF EpochInv, TypeOK, IssuedBefore
  <2>5. WorkersRegistered'
    <3> SUFFICES ASSUME NEW w \in working, w.ticket = ticket,
                        state # "retired"
                 PROVE  \E q \in participants \ {p} : Found(q, w)
      BY <2>1, <2>3 DEF EpochInv, WorkersRegistered, Found
    <3>1. PICK q \in participants : Found(q, w)
      BY DEF EpochInv, WorkersRegistered
    <3>2. w # r /\ w \in Registrations
      BY <1>2 DEF EpochInv, TypeOK
    <3>3. q # p
      BY <2>2, <3>1, <3>2 DEF RegistrationOf, Found, Registrations
    <3> QED
      BY <3>1, <3>3
  <2>6. QuiescedStopped' /\ ReadySent'
    BY <2>1, <2>3 DEF EpochInv, QuiescedStopped, ReadySent, RegistrationOf
  <2>7. ForcedFirst' /\ RecoversOwnFailure'
    BY <2>3 DEF EpochInv, ForcedFirst, RecoversOwnFailure
  <2> QED
    BY <2>4, <2>5, <2>6, <2>7 DEF EpochInv
<1>3. CASE [kind |-> "quiesced", reg |-> r] \in sent /\ AcknowledgeQuiesced(r)
  <2>1. PICK p \in participants :
             /\ Found(p, r)
             /\ participants' = (participants \ {p})
                                  \cup {[p EXCEPT !.quiesced = TRUE]}
    BY <1>3 DEF AcknowledgeQuiesced
  <2> DEFINE new == [p EXCEPT !.quiesced = TRUE]
  <2>2. RegistrationOf(p) = r
    BY <1>1, <1>3, <2>1, FoundIsOwn DEF AcknowledgeQuiesced, EpochInv
  <2>3. /\ state = "quiescing"
        /\ UNCHANGED <<state, ticket, nextRegistration, firstFramePending,
                       tickets, issued, working, sent, failed, contracts,
                       published>>
    BY <1>3 DEF AcknowledgeQuiesced
  <2>4. new \in Members /\ new.id = p.id /\ new.nonce = p.nonce
    BY DEF EpochInv, TypeOK, Members
  <2>5. participants' = (participants \ {p}) \cup {new}
    BY <2>1
  <2> HIDE DEF new
  <2>6. TypeOK' /\ IssuedBefore'
    BY <2>3, <2>4, <2>5 DEF EpochInv, TypeOK, IssuedBefore
  <2>7. WorkersRegistered'
    BY <2>3, <2>4, <2>5 DEF EpochInv, WorkersRegistered, Found
  <2>8. r \notin working
    BY <1>3 DEF EpochInv, QuiescedStopped
  <2>9. QuiescedStopped' /\ ReadySent'
    BY <2>2, <2>3, <2>4, <2>5, <2>8
    DEF EpochInv, QuiescedStopped, ReadySent, RegistrationOf
  <2>10. ForcedFirst' /\ RecoversOwnFailure'
    BY <2>3 DEF EpochInv, ForcedFirst, RecoversOwnFailure
  <2> QED
    BY <2>6, <2>7, <2>9, <2>10 DEF EpochInv
<1>4. CASE [kind |-> "ready", reg |-> r] \in sent /\ AcknowledgeReady(r)
  <2>1. PICK p \in participants :
             /\ Found(p, r)
             /\ participants' = (participants \ {p})
                                  \cup {[p EXCEPT !.ready = TRUE]}
    BY <1>4 DEF AcknowledgeReady
  <2> DEFINE new == [p EXCEPT !.ready = TRUE]
  <2>2. RegistrationOf(p) = r
    BY <1>1, <1>4, <2>1, FoundIsOwn DEF AcknowledgeReady, EpochInv
  <2>3. /\ state \in {"building", "ready"}
        /\ UNCHANGED <<state, ticket, nextRegistration, firstFramePending,
                       tickets, issued, working, sent, failed, contracts,
                       published>>
    BY <1>4 DEF AcknowledgeReady
  <2>4. new \in Members /\ new.id = p.id /\ new.nonce = p.nonce
    BY DEF EpochInv, TypeOK, Members
  <2>5. participants' = (participants \ {p}) \cup {new}
    BY <2>1
  <2> HIDE DEF new
  <2>6. TypeOK' /\ IssuedBefore'
    BY <2>3, <2>4, <2>5 DEF EpochInv, TypeOK, IssuedBefore
  <2>7. WorkersRegistered'
    BY <2>3, <2>4, <2>5 DEF EpochInv, WorkersRegistered, Found
  <2>8. QuiescedStopped' /\ ReadySent'
    BY <1>4, <2>2, <2>3, <2>4, <2>5
    DEF EpochInv, QuiescedStopped, ReadySent, RegistrationOf
  <2>9. ForcedFirst' /\ RecoversOwnFailure'
    BY <2>3 DEF EpochInv, ForcedFirst, RecoversOwnFailure
  <2> QED
    BY <2>6, <2>7, <2>8, <2>9 DEF EpochInv
<1> QED
  BY <1>2, <1>3, <1>4 DEF Deliver

\* What a registration holder does on its own preserves it.
LEMMA HoldInv ==
  ASSUME EpochInv, NEW r \in issued, Hold(r)
  PROVE  EpochInv'
<1> USE DEF supervisorVars, frameVars, EpochInv
<1>1. r \in Registrations
  BY DEF TypeOK
<1>2. CASE StopWork(r)
  <2>1. TypeOK' /\ IssuedBefore'
    BY <1>1, <1>2 DEF StopWork, TypeOK, IssuedBefore, Acknowledgements
  <2>2. WorkersRegistered' /\ QuiescedStopped' /\ ReadySent'
    BY <1>2 DEF StopWork, WorkersRegistered, Found, QuiescedStopped,
                ReadySent, RegistrationOf
  <2> QED
    BY <1>2, <2>1, <2>2 DEF StopWork, ForcedFirst, RecoversOwnFailure
<1>3. CASE FinishBuild(r)
  <2>1. TypeOK' /\ IssuedBefore'
    BY <1>1, <1>3 DEF FinishBuild, TypeOK, IssuedBefore, Acknowledgements
  <2>2. WorkersRegistered' /\ QuiescedStopped' /\ ReadySent'
    BY <1>3 DEF FinishBuild, WorkersRegistered, Found, QuiescedStopped,
                ReadySent, RegistrationOf
  <2> QED
    BY <1>3, <2>1, <2>2 DEF FinishBuild, ForcedFirst, RecoversOwnFailure
<1>4. CASE Disconnect(r)
  BY <1>4 DEF Disconnect, TypeOK, IssuedBefore, WorkersRegistered, Found,
              QuiescedStopped, ReadySent, RegistrationOf, ForcedFirst,
              RecoversOwnFailure
<1> QED
  BY <1>2, <1>3, <1>4 DEF Hold

\* The calls of the recovery loop preserve it.
LEMMA DriveInv ==
  ASSUME EpochInv, NEW t \in tickets, Drive(t)
  PROVE  EpochInv'
<1> USE DEF holderVars, frameVars, EpochInv
<1>1. CASE t \in failed /\ ReportDeviceLost(t)
  <2> DEFINE forget(p) == [p EXCEPT !.quiesced = FALSE]
  <2>1. /\ participants' = {forget(p) : p \in participants}
        /\ state = "running" /\ state' = "quiescing"
        /\ firstFramePending' = FALSE
        /\ UNCHANGED <<ticket, nextRegistration, tickets, issued, working,
                       sent, failed, contracts, published>>
    BY <1>1 DEF ReportDeviceLost, ForgetQuiesced
  <2>2. \A p \in participants :
          /\ forget(p) \in Members
          /\ forget(p).id = p.id /\ forget(p).nonce = p.nonce
          /\ ~forget(p).quiesced
    BY DEF TypeOK, Members
  <2> HIDE DEF forget
  <2>3. TypeOK'
    <3>1. \A p, q \in participants' : p.id = q.id => p = q
      BY <2>1, <2>2 DEF TypeOK
    <3>2. participants' \in SUBSET Members
      BY <2>1, <2>2
    <3> QED
      BY <2>1, <3>1, <3>2 DEF TypeOK, States
  <2>4. IssuedBefore' /\ QuiescedStopped' /\ ReadySent'
    BY <2>1, <2>2 DEF IssuedBefore, QuiescedStopped, ReadySent
  <2>5. WorkersRegistered'
    BY <2>1, <2>2 DEF WorkersRegistered, Found
  <2>6. RecoversOwnFailure'
    BY <1>1, <2>1 DEF ReportDeviceLost, TicketMatches, RecoversOwnFailure
  <2> QED
    BY <2>1, <2>3, <2>4, <2>5, <2>6 DEF ForcedFirst
<1>2. CASE Retire(t)
  BY <1>2 DEF Retire, TypeOK, States, IssuedBefore, WorkersRegistered,
              QuiescedStopped, ReadySent, ForcedFirst, RecoversOwnFailure
<1>3. CASE BeginBuild(t)
  <2>1. PICK nonce \in Nonces \ {ticket.nonce} :
             ticket' = [epoch |-> ticket.epoch + 1, nonce |-> nonce]
    BY <1>3 DEF BeginBuild
  <2>2. ticket' \in Tickets /\ ticket'.epoch > ticket.epoch
    BY <2>1, SupervisorAssumption DEF TypeOK, Tickets
  <2>3. /\ state = "retired" /\ state' = "building"
        /\ tickets' = tickets \cup {ticket'}
        /\ nextRegistration' = 1 /\ firstFramePending' = FALSE
        /\ UNCHANGED <<participants, issued, working, sent, failed,
                       contracts, published>>
    BY <1>3 DEF BeginBuild
  <2>4. TypeOK'
    BY <2>2, <2>3 DEF TypeOK, States
  <2>5. \A r \in issued :
          r.ticket # ticket' /\ r.ticket.epoch < ticket'.epoch
    BY <2>2 DEF IssuedBefore, TypeOK, Tickets, Registrations
  <2>6. IssuedBefore' /\ WorkersRegistered'
    BY <2>3, <2>5 DEF IssuedBefore, WorkersRegistered, TypeOK
  <2>7. QuiescedStopped' /\ ReadySent' /\ ForcedFirst' /\ RecoversOwnFailure'
    BY <2>3 DEF QuiescedStopped, WorkersRegistered, ReadySent, ForcedFirst,
                RecoversOwnFailure
  <2> QED
    BY <2>4, <2>6, <2>7
<1>4. CASE AbandonBuild(t)
  BY <1>4 DEF AbandonBuild, TypeOK, States, IssuedBefore, WorkersRegistered,
              QuiescedStopped, ReadySent, ForcedFirst, RecoversOwnFailure
<1>5. CASE MarkReady(t)
  BY <1>5 DEF MarkReady, TypeOK, States, IssuedBefore, WorkersRegistered,
              Found, QuiescedStopped, ReadySent, RegistrationOf, ForcedFirst,
              RecoversOwnFailure
<1>6. CASE Resume(t)
  BY <1>6 DEF Resume, TypeOK, States, IssuedBefore, WorkersRegistered, Found,
              QuiescedStopped, ReadySent, ForcedFirst, RecoversOwnFailure
<1> QED
  BY <1>1, <1>2, <1>3, <1>4, <1>5, <1>6 DEF Drive

\* Frames and their contracts preserve it.
LEMMA PublishInv ==
  ASSUME EpochInv, Publish
  PROVE  EpochInv'
<1> USE DEF supervisorVars, holderVars, frameVars, EpochInv
<1>1. ASSUME NEW t \in tickets, FrameContract(t)
      PROVE  EpochInv'
  <2>1. TypeOK' /\ IssuedBefore' /\ WorkersRegistered' /\ RecoversOwnFailure'
    BY <1>1 DEF FrameContract, TypeOK, Contracts, IssuedBefore, Found,
                WorkersRegistered, RecoversOwnFailure
  <2>2. QuiescedStopped' /\ ReadySent'
    BY <1>1 DEF FrameContract, QuiescedStopped, ReadySent, RegistrationOf
  <2> DEFINE new == [ticket |-> ticket, forced |-> firstFramePending]
  <2>3. /\ state = "running" /\ contracts' = contracts \cup {new}
        /\ new.ticket = ticket /\ (~new.forced => ~firstFramePending)
        /\ UNCHANGED <<state, ticket, firstFramePending, published>>
    BY <1>1 DEF FrameContract
  <2> HIDE DEF new
  <2>4. ForcedFirst'
    BY <2>3 DEF ForcedFirst
  <2> QED
    BY <2>1, <2>2, <2>4
<1>2. ASSUME NEW c \in contracts, PublishFrame(c)
      PROVE  EpochInv'
  BY <1>2 DEF PublishFrame, TypeOK, IssuedBefore, WorkersRegistered, Found,
              QuiescedStopped, ReadySent, RegistrationOf, ForcedFirst,
              RecoversOwnFailure
<1>3. ASSUME NEW c \in published, AcknowledgeFramePublished(c.ticket)
      PROVE  EpochInv'
  <2>1. TypeOK' /\ IssuedBefore' /\ WorkersRegistered' /\ RecoversOwnFailure'
    BY <1>3 DEF AcknowledgeFramePublished, TypeOK, IssuedBefore, Found,
                WorkersRegistered, RecoversOwnFailure
  <2>2. QuiescedStopped' /\ ReadySent'
    BY <1>3 DEF AcknowledgeFramePublished, QuiescedStopped, ReadySent,
                RegistrationOf
  <2>3. c \in contracts /\ c \in Contracts /\ c.ticket = ticket
    BY <1>3 DEF AcknowledgeFramePublished, TicketMatches, TypeOK
  <2>4. ticket.epoch > 1 => [ticket |-> ticket, forced |-> TRUE] \in published
    <3>1. CASE c.forced
      <4>1. c = [ticket |-> ticket, forced |-> TRUE]
        BY <2>3, <3>1 DEF Contracts
      <4> QED
        BY <4>1, <1>3
    <3>2. CASE ~c.forced
      BY <2>3, <3>2 DEF ForcedFirst
    <3> QED
      BY <3>1, <3>2
  <2>5. ForcedFirst'
    BY <1>3, <2>4 DEF AcknowledgeFramePublished, ForcedFirst
  <2> QED
    BY <2>1, <2>2, <2>5
<1> QED
  BY <1>1, <1>2, <1>3 DEF Publish

\* Every step preserves it.
LEMMA EpochStep ==
  ASSUME EpochInv, [Next]_vars
  PROVE  EpochInv'
<1>1. CASE GraphFails
  BY <1>1 DEF GraphFails, supervisorVars, frameVars, EpochInv, TypeOK,
              IssuedBefore, WorkersRegistered, Found, QuiescedStopped,
              ReadySent, RegistrationOf, ForcedFirst, RecoversOwnFailure
<1>2. CASE UNCHANGED vars
  BY <1>2 DEF vars, supervisorVars, holderVars, frameVars, EpochInv, TypeOK,
              IssuedBefore, WorkersRegistered, Found, QuiescedStopped,
              ReadySent, RegistrationOf, ForcedFirst, RecoversOwnFailure
<1> QED
  BY <1>1, <1>2, RegisterInv, DeliverInv, HoldInv, DriveInv, PublishInv
  DEF Next

-----------------------------------------------------------------------------
(* The theorems.                                                           *)

\* It holds in every reachable state.
LEMMA EpochInvariant == Spec => []EpochInv
<1>1. Init => EpochInv
  BY InitEpochInv
<1>2. EpochInv /\ [Next]_vars => EpochInv'
  BY EpochStep
<1> QED
  BY <1>1, <1>2, PTL DEF Spec

\* No epoch is retired under somebody's feet: when retire() succeeds, every
\* holder of a registration of that epoch has let go of its GPU objects,
\* for any number of participants and whatever stale messages arrive.
THEOREM RetiresQuietly == Spec => QuietRetire
<1>1. EpochInv /\ [Next]_vars =>
        [state = "quiescing" /\ state' = "retired"
           => \A r \in working : r.ticket # ticket]_vars
  <2> SUFFICES ASSUME EpochInv, Next, state = "quiescing",
                      state' = "retired", NEW r \in working,
                      r.ticket = ticket
               PROVE  FALSE
    BY DEF vars, supervisorVars
  <2>1. PendingQuiesce = {}
    BY DEF Next, RegisterParticipant, Deliver, UnregisterParticipant,
           AcknowledgeQuiesced, AcknowledgeReady, Hold, StopWork,
           FinishBuild, Disconnect, Drive, ReportDeviceLost, Retire,
           BeginBuild, AbandonBuild, MarkReady, Resume, GraphFails, Publish,
           FrameContract, PublishFrame, AcknowledgeFramePublished,
           supervisorVars
  <2>2. PICK p \in participants : Found(p, r)
    BY DEF EpochInv, WorkersRegistered
  <2>3. RegistrationOf(p) = r
    BY <2>2 DEF EpochInv, TypeOK, Registrations, Found, RegistrationOf
  <2> QED
    BY <2>1, <2>2, <2>3 DEF PendingQuiesce, EpochInv, QuiescedStopped
<1> QED
  BY <1>1, EpochInvariant, PTL DEF Spec, QuietRetire

\* An epoch resumes only when the present holder of every registration has
\* said that it is ready, for any number of participants and whatever
\* stale messages arrive.
THEOREM ResumesReady == Spec => ReadyResume
<1>1. EpochInv /\ [Next]_vars =>
        [state = "ready" /\ state' = "running"
           => \A p \in participants :
                 [kind |-> "ready", reg |-> RegistrationOf(p)] \in sent]_vars
  <2> SUFFICES ASSUME EpochInv, Next, state = "ready", state' = "running",
                      NEW p \in participants
               PROVE  [kind |-> "ready", reg |-> RegistrationOf(p)] \in sent
    BY DEF vars, supervisorVars
  <2>1. PendingReady = {}
    BY DEF Next, RegisterParticipant, Deliver, UnregisterParticipant,
           AcknowledgeQuiesced, AcknowledgeReady, Hold, StopWork,
           FinishBuild, Disconnect, Drive, ReportDeviceLost, Retire,
           BeginBuild, AbandonBuild, MarkReady, Resume, GraphFails, Publish,
           FrameContract, PublishFrame, AcknowledgeFramePublished,
           supervisorVars
  <2> QED
    BY <2>1 DEF PendingReady, EpochInv, ReadySent
<1> QED
  BY <1>1, EpochInvariant, PTL DEF Spec, ReadyResume

\* The first frame of every recovered epoch carries the discontinuity and
\* the forced keyframe, for any number of recoveries.
THEOREM ForcesFirstFrame == Spec => []FirstFrameForced
<1>1. EpochInv => FirstFrameForced
  BY DEF EpochInv, TypeOK, ForcedFirst, FirstFrameForced
<1> QED
  BY <1>1, EpochInvariant, PTL

\* Only the failure of its own graph takes an epoch out of service.
THEOREM RecoversOnlyOwn == Spec => []RecoversOwnFailure
<1>1. EpochInv => RecoversOwnFailure
  BY DEF EpochInv
<1> QED
  BY <1>1, EpochInvariant, PTL
=============================================================================
