--------------------------- MODULE GenerationQueue ---------------------------
(***************************************************************************)
(* The process-local FIFO queue for generation work                        *)
(* (services/generation_queue.py).  Every generation operation, whether a  *)
(* request thread runs it or a job's monitor thread, holds a ticket; a     *)
(* ticket's thread waits on one condition variable until its ticket is at  *)
(* the head of the deque and no ticket is active.                          *)
(*                                                                         *)
(* Every method body runs under the condition's lock, so a method is one   *)
(* step, except wait_for_turn, which gives the lock up while it sleeps:    *)
(* each evaluation of its predicate is a step.  `phase` is where the       *)
(* thread that owns a ticket stands:                                       *)
(*   new       the ticket does not exist yet                               *)
(*   queued    enqueued, wait_for_turn not entered yet                     *)
(*   asleep    in condition.wait()                                         *)
(*   awake     notified; will evaluate the predicate again                 *)
(*   running   in the body of `with run_ticket(...)`                       *)
(*   done, refused, lost   completed, turned away, gone with its process   *)
(***************************************************************************)
EXTENDS Naturals, Sequences, FiniteSets, SequencesExt

CONSTANTS
    Tickets,   \* the tickets (uuid4: each is enqueued once)
    None       \* Python's None in _active

ASSUME NoneIsNoTicket == None \notin Tickets

VARIABLES
    pending,   \* _pending, the deque
    active,    \* _active
    stopped,   \* _stopped
    phase

vars == <<pending, active, stopped, phase>>

Phases == {"new", "queued", "asleep", "awake", "running", "done", "refused", "lost"}

Running == {t \in Tickets : phase[t] = "running"}
InLine(t) == \E k \in 1..Len(pending) : pending[k] = t

Init ==
    /\ pending = <<>>
    /\ active = None
    /\ stopped = FALSE
    /\ phase = [t \in Tickets |-> "new"]

\* Mutants of Notified: no notification; notify() instead of notify_all().
NobodyNotified == phase
OneNotified ==
    LET sleepers == {t \in Tickets : phase[t] = "asleep"} IN
    IF sleepers = {} THEN phase ELSE [phase EXCEPT ![CHOOSE t \in sleepers : TRUE] = "awake"]

\* condition.notify_all()
Notified == [t \in Tickets |-> IF phase[t] = "asleep" THEN "awake" ELSE phase[t]]

\* deque(item for item in self._pending if item.id != ticket.id)
Without(t) ==
    IF InLine(t)
    THEN RemoveAt(pending, CHOOSE k \in 1..Len(pending) : pending[k] = t)
    ELSE pending

\* Mutant of IsTurnOf: newest first.
IsTurnOfNewest(t) == active = None /\ pending # <<>> /\ Last(pending) = t

\* The second half of wait_for_turn's predicate.
IsTurnOf(t) == active = None /\ pending # <<>> /\ Head(pending) = t

Enqueue(t) ==
    /\ phase[t] = "new"
    /\ ~stopped
    /\ pending' = Append(pending, t)
    /\ phase' = [Notified EXCEPT ![t] = "queued"]
    /\ UNCHANGED <<active, stopped>>

\* enqueue raises "Generation queue is stopped".
Refuse(t) ==
    /\ phase[t] = "new"
    /\ stopped
    /\ phase' = [phase EXCEPT ![t] = "refused"]
    /\ UNCHANGED <<pending, active, stopped>>

AtPredicate(t) == phase[t] \in {"queued", "awake"}

Sleep(t) ==
    /\ AtPredicate(t)
    /\ ~stopped
    /\ ~IsTurnOf(t)
    /\ phase' = [phase EXCEPT ![t] = "asleep"]
    /\ UNCHANGED <<pending, active, stopped>>

TakeTurn(t) ==
    /\ AtPredicate(t)
    /\ ~stopped
    /\ IsTurnOf(t)
    /\ active' = Head(pending)
    /\ pending' = Tail(pending)
    /\ phase' = [Notified EXCEPT ![t] = "running"]
    /\ UNCHANGED stopped

TurnedAway(t) ==
    /\ AtPredicate(t)
    /\ stopped
    /\ pending' = Without(t)
    /\ phase' = [phase EXCEPT ![t] = "refused"]
    /\ UNCHANGED <<active, stopped>>

WaitForTurn(t) == Sleep(t) \/ TakeTurn(t) \/ TurnedAway(t)

\* complete(): from the `finally` of run_ticket, or, for a ticket whose job
\* row could not be created, from _create_job before anyone waits for it.
Complete(t) ==
    /\ phase[t] \in {"running", "queued"}
    /\ \/ active = t /\ active' = None /\ UNCHANGED pending
       \/ active # t /\ pending' = Without(t) /\ UNCHANGED active
    /\ phase' = [Notified EXCEPT ![t] = "done"]
    /\ UNCHANGED stopped

Stop ==
    /\ stopped' = TRUE
    /\ pending' = <<>>
    /\ active' = None
    /\ phase' = Notified

Live(t) == phase[t] \notin {"new", "done", "refused", "lost"}

\* The process ends, at any point, and the next one starts: the queue lives in
\* memory, so its items are gone; lifespan() calls start().
Restart ==
    /\ pending' = <<>>
    /\ active' = None
    /\ stopped' = FALSE
    /\ phase' = [t \in Tickets |-> IF Live(t) THEN "lost" ELSE phase[t]]

Next ==
    \/ \E t \in Tickets : Enqueue(t) \/ Refuse(t) \/ WaitForTurn(t) \/ Complete(t)
    \/ Stop
    \/ Restart

\* A thread at the predicate evaluates it, and an operation that has its turn
\* ends: its calls to the LLM, TTS and image services have timeouts.
Fairness == \A t \in Tickets :
    /\ WF_vars(WaitForTurn(t))
    /\ WF_vars(phase[t] = "running" /\ Complete(t))

Spec == Init /\ [][Next]_vars /\ Fairness
-----------------------------------------------------------------------------
\* The deque holds a ticket once, and the active ticket has left it.
TypeOK ==
    /\ pending \in Seq(Tickets)
    /\ IsInjective(pending)
    /\ active \in {t \in Tickets : ~InLine(t)} \cup {None}
    /\ stopped \in BOOLEAN
    /\ phase \in [Tickets -> Phases]

\* At most one generation operation is in progress in the process, also while
\* the queue is being stopped: stop() forgets the active ticket although its
\* operation still runs.
OneAtATime == \A t, u \in Running : t = u

\* What keeps the line moving and exclusive: the active ticket is the one whose
\* operation runs, the deque holds the waiting tickets and no others, and
\* nothing is left in it after a stop.
QueueInv ==
    /\ ~stopped => Running = {active} \ {None}
    /\ stopped => active = None /\ pending = <<>>
    /\ \A t \in Tickets : InLine(t) => phase[t] \in {"queued", "asleep", "awake"}
    /\ ~stopped => \A t \in Tickets : phase[t] \in {"queued", "asleep", "awake"} => InLine(t)

\* No wake-up is lost: a thread sleeps only while it is not its turn and the
\* queue is not stopped, so nobody waits for a notification that was missed.
NoLostWakeup == \A t \in Tickets : phase[t] = "asleep" => ~stopped /\ ~IsTurnOf(t)

\* The queue implements the line of TurnTaking, where being inside is the
\* running of the operation itself and not the queue's own record of it.
Line == INSTANCE TurnTaking WITH
    Clients <- Tickets, line <- pending, inside <- Running, open <- ~stopped

TakesTurns == Line!TTSpec

\* Every ticket that is enqueued is eventually served or turned away: nobody
\* sleeps through its turn.
EveryTicketServed == \A t \in Tickets :
    phase[t] = "queued" ~> phase[t] \in {"done", "refused", "lost"}
=============================================================================
