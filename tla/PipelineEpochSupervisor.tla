---------------------- MODULE PipelineEpochSupervisor ----------------------
(***************************************************************************)
(* The recovery protocol of src/gpu/pipeline_epoch_supervisor.cpp.  One    *)
(* object, guarded by one mutex, numbers the GPU graphs of a pipeline with *)
(* tickets and walks RUNNING -> QUIESCING -> RETIRED -> BUILDING -> READY  *)
(* -> RUNNING when a device is lost.  Every public member function locks   *)
(* the mutex for its whole body, so each is one action.                    *)
(*                                                                         *)
(* The supervisor is reached by asynchronous messages: a ticket or a       *)
(* registration that was handed out once may come back at any later time,  *)
(* more than once, or after the process that held it is gone.  The model   *)
(* therefore keeps every ticket and every registration ever returned and   *)
(* lets each call use any of them.  A call the code answers with a status  *)
(* other than ok changes only the stale_acknowledgements_ counter, which   *)
(* is diagnostic, and is a stuttering step here.                           *)
(***************************************************************************)
EXTENDS Integers, FiniteSets

CONSTANTS
    Participants,     \* participant ids (process ids in the tests)
    Capacity,         \* max_participants, 64 in the code
    Nonces,           \* values make_nonce may draw; a value may come back
    MaxEpoch,         \* bound: the last epoch begin_build may open
    MaxRegistration,  \* bound: registrations of one epoch
    PublishesFrames   \* bound: whether frame contracts are read at all

ASSUME SupervisorAssumption ==
    /\ Capacity \in Nat
    /\ Nonces \subseteq Nat \ {0}
    /\ MaxEpoch \in Nat \ {0}
    /\ MaxRegistration \in Nat
    /\ PublishesFrames \in BOOLEAN

VARIABLES
    \* The supervisor's members.
    state,               \* state_
    ticket,              \* ticket_
    participants,        \* the active entries of participants_
    nextRegistration,    \* next_registration_nonce_
    firstFramePending,   \* first_frame_pending_
    \* What the other processes hold.
    tickets,             \* tickets handed out so far
    issued,              \* registrations handed out so far
    working,             \* registrations whose holder has, or is building,
                         \* GPU objects of its ticket's epoch
    sent,                \* acknowledgements sent, each deliverable forever
    failed,              \* tickets whose graph really failed
    contracts,           \* frame contracts read so far
    published            \* contracts under which a frame was published

supervisorVars ==
    <<state, ticket, participants, nextRegistration, firstFramePending>>
holderVars == <<tickets, issued, working, sent, failed>>
frameVars == <<contracts, published>>
vars == <<supervisorVars, holderVars, frameVars>>

States == {"running", "quiescing", "retired", "building", "ready"}
Tickets == [epoch : Nat, nonce : Nat]
Registrations == [ticket : Tickets, id : Participants, nonce : Nat]
Members ==
    [id : Participants, nonce : Nat, quiesced : BOOLEAN, ready : BOOLEAN]
Acknowledgements == [kind : {"quiesced", "ready"}, reg : Registrations]
Contracts == [ticket : Tickets, forced : BOOLEAN]

(* Every variable keeps the shape of the member or message it stands for;  *)
(* participants_ never has two active entries for one id.                  *)
TypeOK ==
    /\ state \in States
    /\ ticket \in Tickets
    /\ participants \in SUBSET Members
    /\ \A p, q \in participants : p.id = q.id => p = q
    /\ nextRegistration \in Nat
    /\ firstFramePending \in BOOLEAN
    /\ tickets \in SUBSET Tickets
    /\ issued \in SUBSET Registrations
    /\ working \in SUBSET issued
    /\ sent \in SUBSET Acknowledgements
    /\ failed \in SUBSET tickets
    /\ contracts \in SUBSET Contracts
    /\ published \in SUBSET contracts

-----------------------------------------------------------------------------
(* Helpers under the mutex.                                                *)

\* A mutant of the next: any ticket that is not empty matches.
TicketMatchesAny(t) == t.epoch # 0 /\ t.nonce # 0

TicketMatches(t) == t.epoch # 0 /\ t.nonce # 0 /\ t = ticket

\* A mutant of the next: the registration nonce is not compared.
FoundById(p, r) == p.id = r.id

\* find_participant_locked: an active entry with the caller's id and nonce.
Found(p, r) == p.id = r.id /\ p.nonce = r.nonce

\* The registration under which an entry was handed out.
RegistrationOf(p) == [ticket |-> ticket, id |-> p.id, nonce |-> p.nonce]

\* make_registration_nonce_locked never returns the ticket's own nonce.
RegistrationNonce ==
    IF nextRegistration = ticket.nonce
    THEN nextRegistration + 1 ELSE nextRegistration

\* register_participant refuses a participant id that is already active.
IdFree(id) == \A p \in participants : p.id # id

PendingQuiesce == {p \in participants : ~p.quiesced}

PendingReady == {p \in participants : ~p.ready}

\* Mutant of ForgetQuiesced: a quiesced flag survives into the next loss.
KeepQuiesced(ps) == ps

\* report_device_lost forgets earlier quiesce acknowledgements.
ForgetQuiesced(ps) == {[p EXCEPT !.quiesced = FALSE] : p \in ps}

-----------------------------------------------------------------------------
(* Registration.                                                           *)

RegisterParticipant(id) ==
    /\ state \in {"running", "building", "ready"}
    /\ IdFree(id)
    /\ Cardinality(participants) < Capacity
    /\ RegistrationNonce <= MaxRegistration
    /\ LET nonce == RegistrationNonce
           reg == [ticket |-> ticket, id |-> id, nonce |-> nonce]
       IN  /\ participants' = participants \cup
                  {[id |-> id, nonce |-> nonce,
                    quiesced |-> state = "running",
                    ready |-> state = "running"]}
           /\ nextRegistration' = nonce + 1
           /\ issued' = issued \cup {reg}
           /\ working' = working \cup {reg}
    /\ UNCHANGED <<state, ticket, firstFramePending, tickets, sent, failed,
                   frameVars>>

\* Mutant of UnregisterParticipant: refused while the epoch quiesces.
UnregisterUnlessQuiescing(r) ==
    /\ TicketMatches(r.ticket)
    /\ state # "quiescing"
    /\ \E p \in participants :
          Found(p, r) /\ participants' = participants \ {p}
    /\ UNCHANGED <<state, ticket, nextRegistration, firstFramePending,
                   holderVars, frameVars>>

UnregisterParticipant(r) ==
    /\ TicketMatches(r.ticket)
    /\ \E p \in participants :
          Found(p, r) /\ participants' = participants \ {p}
    /\ UNCHANGED <<state, ticket, nextRegistration, firstFramePending,
                   holderVars, frameVars>>

-----------------------------------------------------------------------------
(* The recovery transitions.                                               *)

\* A repeated report while quiescing is accepted and changes nothing.
ReportDeviceLost(t) ==
    /\ TicketMatches(t)
    /\ state = "running"
    /\ state' = "quiescing"
    /\ participants' = ForgetQuiesced(participants)
    /\ firstFramePending' = FALSE
    /\ UNCHANGED <<ticket, nextRegistration, holderVars, frameVars>>

AcknowledgeQuiesced(r) ==
    /\ TicketMatches(r.ticket)
    /\ state = "quiescing"
    /\ \E p \in participants :
          /\ Found(p, r)
          /\ participants' = (participants \ {p})
                 \cup {[p EXCEPT !.quiesced = TRUE]}
    /\ UNCHANGED <<state, ticket, nextRegistration, firstFramePending,
                   holderVars, frameVars>>

Retire(t) ==
    /\ TicketMatches(t)
    /\ state = "quiescing"
    /\ PendingQuiesce = {}
    /\ state' = "retired"
    /\ participants' = {}
    /\ UNCHANGED <<ticket, nextRegistration, firstFramePending, holderVars,
                   frameVars>>

BeginBuild(t) ==
    /\ TicketMatches(t)
    /\ state = "retired"
    /\ ticket.epoch < MaxEpoch
    /\ \E nonce \in Nonces \ {ticket.nonce} :
          ticket' = [epoch |-> ticket.epoch + 1, nonce |-> nonce]
    /\ tickets' = tickets \cup {ticket'}
    /\ nextRegistration' = 1
    /\ state' = "building"
    /\ firstFramePending' = FALSE
    /\ UNCHANGED <<participants, issued, working, sent, failed, frameVars>>

AbandonBuild(t) ==
    /\ TicketMatches(t)
    /\ state \in {"building", "ready"}
    /\ participants' = {}
    /\ state' = "retired"
    /\ firstFramePending' = FALSE
    /\ UNCHANGED <<ticket, nextRegistration, holderVars, frameVars>>

AcknowledgeReady(r) ==
    /\ TicketMatches(r.ticket)
    /\ state \in {"building", "ready"}
    /\ \E p \in participants :
          /\ Found(p, r)
          /\ participants' = (participants \ {p})
                 \cup {[p EXCEPT !.ready = TRUE]}
    /\ UNCHANGED <<state, ticket, nextRegistration, firstFramePending,
                   holderVars, frameVars>>

MarkReady(t) ==
    /\ TicketMatches(t)
    /\ state = "building"
    /\ state' = "ready"
    /\ UNCHANGED <<ticket, participants, nextRegistration,
                   firstFramePending, holderVars, frameVars>>

Resume(t) ==
    /\ TicketMatches(t)
    /\ state = "ready"
    /\ PendingReady = {}
    /\ state' = "running"
    /\ firstFramePending' = TRUE
    /\ UNCHANGED <<ticket, participants, nextRegistration, holderVars,
                   frameVars>>

-----------------------------------------------------------------------------
(* The first frame of a recovered epoch.                                   *)

\* Mutant of FrameContract: reading the contract uses the forced flag up.
FrameContractConsumes(t) ==
    /\ TicketMatches(t)
    /\ state = "running"
    /\ contracts' = contracts \cup
           {[ticket |-> ticket, forced |-> firstFramePending]}
    /\ firstFramePending' = FALSE
    /\ UNCHANGED <<state, ticket, participants, nextRegistration,
                   holderVars, published>>

\* Reading the contract does not consume it.
FrameContract(t) ==
    /\ TicketMatches(t)
    /\ state = "running"
    /\ contracts' = contracts \cup
           {[ticket |-> ticket, forced |-> firstFramePending]}
    /\ UNCHANGED <<supervisorVars, holderVars, published>>

AcknowledgeFramePublished(t) ==
    /\ TicketMatches(t)
    /\ state = "running"
    /\ firstFramePending' = FALSE
    /\ UNCHANGED <<state, ticket, participants, nextRegistration,
                   holderVars, frameVars>>

-----------------------------------------------------------------------------
(* The processes around the supervisor, as its header comment and its      *)
(* tests use it.                                                           *)

\* The graph of a ticket fails; the first report follows at some point.
GraphFails ==
    /\ state = "running" /\ ticket \notin failed
    /\ failed' = failed \cup {ticket}
    /\ UNCHANGED <<supervisorVars, tickets, issued, working, sent,
                   frameVars>>

\* A holder lets go of its objects and says so, perhaps before the loss is
\* reported: it can see the removed device itself.
StopWork(r) ==
    /\ r \in working
    /\ working' = working \ {r}
    /\ sent' = sent \cup {[kind |-> "quiesced", reg |-> r]}
    /\ UNCHANGED <<supervisorVars, tickets, issued, failed, frameVars>>

\* A holder has built its objects and says so; state() told it that the
\* epoch is being built.
FinishBuild(r) ==
    /\ r \in working
    /\ state \in {"building", "ready"}
    /\ [kind |-> "ready", reg |-> r] \notin sent
    /\ sent' = sent \cup {[kind |-> "ready", reg |-> r]}
    /\ UNCHANGED <<supervisorVars, tickets, issued, working, failed,
                   frameVars>>

\* A holder's process ends without a word.
Disconnect(r) ==
    /\ r \in working
    /\ working' = working \ {r}
    /\ UNCHANGED <<supervisorVars, tickets, issued, sent, failed, frameVars>>

\* A frame is committed under a contract; a failed submission keeps only the
\* contract.
PublishFrame(c) ==
    /\ published' = published \cup {c}
    /\ UNCHANGED <<supervisorVars, holderVars, contracts>>

-----------------------------------------------------------------------------
Init ==
    /\ state = "running"
    /\ ticket \in [epoch : {1}, nonce : Nonces]
    /\ participants = {}
    /\ nextRegistration = 1
    /\ firstFramePending = FALSE
    /\ tickets = {ticket}
    /\ issued = {} /\ working = {} /\ sent = {} /\ failed = {}
    /\ contracts = {} /\ published = {}

\* Messages about a registration; only a holder that is gone, or has let go,
\* is unregistered.
Deliver(r) ==
    \/ r \notin working /\ UnregisterParticipant(r)
    \/ [kind |-> "quiesced", reg |-> r] \in sent /\ AcknowledgeQuiesced(r)
    \/ [kind |-> "ready", reg |-> r] \in sent /\ AcknowledgeReady(r)

Drive(t) ==
    \/ t \in failed /\ ReportDeviceLost(t)
    \/ Retire(t)
    \/ BeginBuild(t)
    \/ AbandonBuild(t)
    \/ MarkReady(t)
    \/ Resume(t)

Publish ==
    /\ PublishesFrames
    /\ \/ \E t \in tickets : FrameContract(t)
       \/ \E c \in contracts : PublishFrame(c)
       \/ \E c \in published : AcknowledgeFramePublished(c.ticket)

Hold(r) == StopWork(r) \/ FinishBuild(r) \/ Disconnect(r)

Next ==
    \/ \E id \in Participants : RegisterParticipant(id)
    \/ \E r \in issued : Deliver(r) \/ Hold(r)
    \/ \E t \in tickets : Drive(t)
    \/ GraphFails
    \/ Publish

Spec == Init /\ [][Next]_vars

(* The mutex is free between calls and the driver keeps calling; a holder  *)
(* stops once the epoch quiesces; a message is repeated until it is        *)
(* accepted (the tests' participants do so, and the model's sent never     *)
(* forgets one); a dead holder is unregistered by whoever watches it.      *)
Fairness ==
    /\ \A id \in Participants :
          /\ WF_vars(\E r \in issued : r.id = id /\ r.ticket = ticket
                        /\ state = "quiescing" /\ StopWork(r))
          /\ WF_vars(\E r \in issued : r.id = id /\ r \notin working
                        /\ [kind |-> "quiesced", reg |-> r] \in sent
                        /\ AcknowledgeQuiesced(r) /\ vars' # vars)
          /\ WF_vars(\E r \in issued : r.id = id /\ r \notin working
                        /\ [kind |-> "quiesced", reg |-> r] \notin sent
                        /\ UnregisterParticipant(r))
    /\ WF_vars(\E t \in tickets : Retire(t))

FairSpec == Spec /\ Fairness

-----------------------------------------------------------------------------
(* Properties.                                                             *)

(* Nobody holds GPU objects of an epoch at the moment retire() closes it,  *)
(* whatever acknowledgements of earlier epochs, of earlier holders of the  *)
(* same participant id, or sent before the loss was reported, arrive in    *)
(* between (retire, acknowledge_quiesced, report_device_lost).             *)
QuietRetire ==
    [][state = "quiescing" /\ state' = "retired"
          => \A r \in working : r.ticket # ticket]_vars

(* resume() never lets an epoch run while some registered participant has  *)
(* not itself finished building: readiness sent by a previous holder of    *)
(* its id, or for an abandoned build, does not count.                      *)
ReadyResume ==
    [][state = "ready" /\ state' = "running"
          => \A p \in participants :
                [kind |-> "ready", reg |-> RegistrationOf(p)] \in sent]_vars

(* In every recovered epoch a frame without discontinuity and forced       *)
(* keyframe is published only after one with them was, however reads,      *)
(* failed submissions and late acknowledgements of frames interleave       *)
(* (frame_contract, acknowledge_frame_published).                          *)
FirstFrameForced ==
    \A c \in published :
        c.ticket.epoch > 1 /\ ~c.forced
            => [ticket |-> c.ticket, forced |-> TRUE] \in published

(* Only a failure of the current epoch's own graph starts a recovery: a    *)
(* late report from a worker of a retired epoch never does.                *)
RecoversOwnFailure == state = "quiescing" => ticket \in failed

(* Once quiescing starts the epoch is retired, also when participants die  *)
(* instead of acknowledging.                                               *)
QuiesceCompletes == state = "quiescing" ~> state = "retired"
=============================================================================
