------------------------ MODULE GenerationQueueProofs ------------------------
(***************************************************************************)
(* Proofs about GenerationQueue for any set of tickets.                    *)
(***************************************************************************)
EXTENDS GenerationQueue, SequenceTheorems, TLAPS

(***************************************************************************)
(* Taking one element out of a sequence: the others keep their order.      *)
(***************************************************************************)
LEMMA RemoveAtProperties ==
    ASSUME NEW S, NEW s \in Seq(S), NEW k \in 1..Len(s)
    PROVE  /\ RemoveAt(s, k) \in Seq(S)
           /\ Len(RemoveAt(s, k)) = Len(s) - 1
           /\ \A i \in 1..(Len(s) - 1) :
                RemoveAt(s, k)[i] = IF i < k THEN s[i] ELSE s[i + 1]
<1> DEFINE front == SubSeq(s, 1, k - 1)
           back == SubSeq(s, k + 1, Len(s))
<1>1. /\ front \in Seq(S)
      /\ Len(front) = k - 1
      /\ \A i \in 1..(k - 1) : front[i] = s[i]
  BY SubSeqProperties
<1>2. /\ back \in Seq(S)
      /\ Len(back) = Len(s) - k
      /\ \A i \in 1..(Len(s) - k) : back[i] = s[k + i]
  BY SubSeqProperties
<1> HIDE DEF front, back
<1>3. RemoveAt(s, k) = front \o back
  BY DEF RemoveAt, front, back
<1>4. /\ front \o back \in Seq(S)
      /\ Len(front \o back) = Len(s) - 1
      /\ \A i \in 1..(Len(s) - 1) :
            (front \o back)[i] = IF i < k THEN front[i] ELSE back[i - (k - 1)]
  <2>1. /\ front \o back \in Seq(S)
        /\ Len(front \o back) = Len(front) + Len(back)
        /\ \A i \in 1..(Len(front) + Len(back)) :
              (front \o back)[i] = IF i <= Len(front) THEN front[i] ELSE back[i - Len(front)]
    BY <1>1, <1>2, ConcatProperties
  <2>2. Len(front) + Len(back) = Len(s) - 1
    BY <1>1, <1>2
  <2>3. ASSUME NEW i \in 1..(Len(s) - 1)
        PROVE  (front \o back)[i] = IF i < k THEN front[i] ELSE back[i - (k - 1)]
    BY <1>1, <2>1, <2>2
  <2> QED
    BY <2>1, <2>2, <2>3
<1>5. ASSUME NEW i \in 1..(Len(s) - 1), ~(i < k)
      PROVE  back[i - (k - 1)] = s[i + 1]
  BY <1>2, <1>5
<1> QED
  BY <1>1, <1>3, <1>4, <1>5

(***************************************************************************)
(* Withdrawing a ticket from the deque withdraws that ticket only.         *)
(***************************************************************************)
LEMMA WithoutProperties ==
    ASSUME pending \in Seq(Tickets), IsInjective(pending), NEW t \in Tickets
    PROVE  /\ Without(t) \in Seq(Tickets)
           /\ IsInjective(Without(t))
           /\ \A u \in Tickets :
                (\E k \in 1..Len(Without(t)) : Without(t)[k] = u) <=> InLine(u) /\ u # t
<1>1. CASE ~InLine(t)
  BY <1>1 DEF Without, InLine
<1>2. CASE InLine(t)
  <2>1. PICK k \in 1..Len(pending) : pending[k] = t /\ Without(t) = RemoveAt(pending, k)
    BY <1>2 DEF InLine, Without
  <2>2. \A i \in 1..Len(pending) : pending[i] = t <=> i = k
    BY <2>1 DEF IsInjective
  <2>3. /\ Without(t) \in Seq(Tickets)
        /\ Len(Without(t)) = Len(pending) - 1
        /\ \A i \in 1..(Len(pending) - 1) :
                Without(t)[i] = IF i < k THEN pending[i] ELSE pending[i + 1]
    BY <2>1, RemoveAtProperties
  <2>4. IsInjective(Without(t))
    <3> SUFFICES ASSUME NEW i \in 1..(Len(pending) - 1), NEW j \in 1..(Len(pending) - 1),
                        Without(t)[i] = Without(t)[j]
                 PROVE  i = j
      BY <2>3 DEF IsInjective
    <3> DEFINE pos(m) == IF m < k THEN m ELSE m + 1
    <3>1. pos(i) \in 1..Len(pending) /\ pos(j) \in 1..Len(pending)
      OBVIOUS
    <3>2. pending[pos(i)] = pending[pos(j)]
      BY <2>3
    <3>3. pos(i) = pos(j)
      BY <3>1, <3>2 DEF IsInjective
    <3> QED
      BY <3>3
  <2>5. ASSUME NEW u \in Tickets, NEW i \in 1..Len(Without(t)), Without(t)[i] = u
        PROVE  InLine(u) /\ u # t
    BY <2>2, <2>3, <2>5 DEF InLine
  <2>6. ASSUME NEW u \in Tickets, InLine(u), u # t
        PROVE  \E i \in 1..Len(Without(t)) : Without(t)[i] = u
    <3>1. PICK m \in 1..Len(pending) : pending[m] = u
      BY <2>6 DEF InLine
    <3>2. m # k
      BY <2>2, <2>6, <3>1
    <3>3. CASE m < k
      BY <2>3, <3>1, <3>3
    <3>4. CASE m > k
      <4>1. m - 1 \in 1..(Len(pending) - 1) /\ ~(m - 1 < k)
        BY <3>4
      <4>2. Without(t)[m - 1] = pending[(m - 1) + 1]
        BY <2>3, <4>1
      <4> QED
        BY <2>3, <3>1, <4>1, <4>2
    <3> QED
      BY <3>2, <3>3, <3>4
  <2> QED
    BY <2>3, <2>4, <2>5, <2>6
<1> QED
  BY <1>1, <1>2

(***************************************************************************)
(* The inductive invariant.  OneAtATime is not inductive by itself: that   *)
(* nobody is inside when a ticket takes its turn is known from `active`    *)
(* only while the queue is not stopped, which is what QueueInv relates.    *)
(***************************************************************************)
IInv == TypeOK /\ QueueInv /\ OneAtATime

\* The threads that InLine counts, in a deque of the next state.
LEMMA AppendInLine ==
    ASSUME pending \in Seq(Tickets), IsInjective(pending), NEW t \in Tickets, ~InLine(t),
           pending' = Append(pending, t)
    PROVE  /\ pending' \in Seq(Tickets)
           /\ IsInjective(pending')
           /\ \A u \in Tickets : InLine(u)' <=> InLine(u) \/ u = t
<1>1. /\ Len(pending') = Len(pending) + 1
      /\ \A i \in 1..Len(pending) : pending'[i] = pending[i]
      /\ pending'[Len(pending) + 1] = t
  OBVIOUS
<1>2. IsInjective(pending')
  BY <1>1 DEF IsInjective, InLine
<1>3. \A u \in Tickets : InLine(u)' <=> InLine(u) \/ u = t
  BY <1>1 DEF InLine
<1> QED
  BY <1>2, <1>3

LEMMA TailInLine ==
    ASSUME pending \in Seq(Tickets), IsInjective(pending), pending # <<>>,
           pending' = Tail(pending)
    PROVE  /\ pending' \in Seq(Tickets)
           /\ IsInjective(pending')
           /\ Head(pending) \in Tickets
           /\ \A u \in Tickets : InLine(u)' <=> InLine(u) /\ u # Head(pending)
<1>1. /\ Len(pending') = Len(pending) - 1
      /\ \A i \in 1..(Len(pending) - 1) : pending'[i] = pending[i + 1]
      /\ Head(pending) = pending[1]
      /\ Len(pending) \in Nat \ {0}
  BY HeadTailProperties
<1>2. IsInjective(pending')
  BY <1>1 DEF IsInjective
<1>3. ASSUME NEW u \in Tickets, InLine(u)'
      PROVE  InLine(u) /\ u # Head(pending)
  BY <1>1, <1>3 DEF InLine, IsInjective
<1>4. ASSUME NEW u \in Tickets, InLine(u), u # Head(pending)
      PROVE  InLine(u)'
  <2>1. PICK m \in 1..Len(pending) : pending[m] = u
    BY <1>4 DEF InLine
  <2>2. m - 1 \in 1..Len(pending') /\ pending'[m - 1] = pending[(m - 1) + 1]
    BY <1>1, <1>4, <2>1
  <2> QED
    BY <2>1, <2>2 DEF InLine
<1> QED
  BY <1>2, <1>3, <1>4, HeadTailProperties

LEMMA EmptyDeque ==
    ASSUME NEW s, s = <<>>
    PROVE  s \in Seq(Tickets) /\ IsInjective(s) /\ Len(s) = 0
  BY DEF IsInjective

LEMMA InitIInv == Init => IInv
<1> SUFFICES ASSUME Init PROVE IInv
  OBVIOUS
<1>1. pending \in Seq(Tickets) /\ IsInjective(pending) /\ \A t \in Tickets : ~InLine(t)
  BY EmptyDeque DEF Init, InLine
<1>2. Running = {} /\ phase \in [Tickets -> Phases]
  BY DEF Init, Running, Phases
<1> QED
  BY <1>1, <1>2, NoneIsNoTicket DEF Init, IInv, TypeOK, QueueInv, OneAtATime

LEMMA NotifiedProperties ==
    ASSUME phase \in [Tickets -> Phases]
    PROVE  /\ Notified \in [Tickets -> Phases]
           /\ \A t \in Tickets : /\ Notified[t] # "asleep"
                                 /\ phase[t] # "asleep" => Notified[t] = phase[t]
                                 /\ phase[t] = "asleep" => Notified[t] = "awake"
  BY DEF Notified, Phases

LEMMA NextIInv == IInv /\ [Next]_vars => IInv'
<1> SUFFICES ASSUME IInv, [Next]_vars PROVE IInv'
  OBVIOUS
<1> USE NoneIsNoTicket
<1>0. /\ pending \in Seq(Tickets) /\ IsInjective(pending)
      /\ active \in Tickets \cup {None} /\ stopped \in BOOLEAN
      /\ phase \in [Tickets -> Phases]
      /\ Notified \in [Tickets -> Phases]
      /\ \A t \in Tickets : /\ Notified[t] # "asleep"
                            /\ phase[t] # "asleep" => Notified[t] = phase[t]
                            /\ phase[t] = "asleep" => Notified[t] = "awake"
  BY NotifiedProperties DEF IInv, TypeOK
<1>1. ASSUME NEW t \in Tickets, Enqueue(t)
      PROVE  IInv'
  <2>1. ~InLine(t)
    BY <1>1 DEF IInv, QueueInv, Enqueue
  <2>2. /\ pending' \in Seq(Tickets) /\ IsInjective(pending')
        /\ \A u \in Tickets : InLine(u)' <=> InLine(u) \/ u = t
    BY <1>0, <1>1, <2>1, AppendInLine DEF Enqueue
  <2>3. /\ phase' \in [Tickets -> Phases]
        /\ Running' = Running
        /\ \A u \in Tickets : phase'[u] \in {"queued", "asleep", "awake"} <=>
                              phase[u] \in {"queued", "asleep", "awake"} \/ u = t
    BY <1>0, <1>1 DEF Enqueue, Running, Phases
  <2>4. active \in {u \in Tickets : ~InLine(u)'} \cup {None}
    BY <1>1, <2>2 DEF IInv, TypeOK, QueueInv, Running, Enqueue
  <2> QED
    BY <1>1, <2>2, <2>3, <2>4 DEF IInv, TypeOK, QueueInv, OneAtATime, Enqueue
<1>2. ASSUME NEW t \in Tickets, Refuse(t)
      PROVE  IInv'
  <2>1. phase' \in [Tickets -> Phases] /\ Running' = Running
    BY <1>0, <1>2 DEF Refuse, Running, Phases
  <2>2. \A u \in Tickets : InLine(u)' <=> InLine(u)
    BY <1>2 DEF Refuse, InLine
  <2>3. ~InLine(t)
    BY <1>2 DEF IInv, QueueInv, Refuse
  <2> QED
    BY <1>0, <1>2, <2>1, <2>2, <2>3 DEF IInv, TypeOK, QueueInv, OneAtATime, Refuse
<1>3. ASSUME NEW t \in Tickets, Sleep(t)
      PROVE  IInv'
  <2>1. /\ phase' \in [Tickets -> Phases] /\ Running' = Running
        /\ \A u \in Tickets : phase'[u] \in {"queued", "asleep", "awake"} <=>
                              phase[u] \in {"queued", "asleep", "awake"}
    BY <1>0, <1>3 DEF Sleep, AtPredicate, Running, Phases
  <2>2. \A u \in Tickets : InLine(u)' <=> InLine(u)
    BY <1>3 DEF Sleep, InLine
  <2> QED
    BY <1>0, <1>3, <2>1, <2>2 DEF IInv, TypeOK, QueueInv, OneAtATime, Sleep
<1>4. ASSUME NEW t \in Tickets, TakeTurn(t)
      PROVE  IInv'
  <2>1. /\ pending' \in Seq(Tickets) /\ IsInjective(pending')
        /\ \A u \in Tickets : InLine(u)' <=> InLine(u) /\ u # t
    BY <1>0, <1>4, TailInLine DEF TakeTurn, IsTurnOf
  <2>2. Running = {} /\ ~stopped /\ active' = t
    BY <1>4 DEF IInv, QueueInv, TakeTurn, IsTurnOf
  <2>3. /\ phase' \in [Tickets -> Phases] /\ Running' = {t}
        /\ \A u \in Tickets : phase'[u] \in {"queued", "asleep", "awake"} <=>
                              phase[u] \in {"queued", "asleep", "awake"} /\ u # t
    BY <1>0, <1>4, <2>2 DEF TakeTurn, AtPredicate, Running, Phases
  <2> QED
    BY <1>0, <1>4, <2>1, <2>2, <2>3 DEF IInv, TypeOK, QueueInv, OneAtATime, TakeTurn
<1>5. ASSUME NEW t \in Tickets, TurnedAway(t)
      PROVE  IInv'
  <2>1. stopped /\ pending = <<>> /\ pending' = <<>> /\ \A u \in Tickets : ~InLine(u)
    BY <1>0, <1>5 DEF IInv, QueueInv, TurnedAway, Without, InLine
  <2>2. /\ phase' \in [Tickets -> Phases] /\ Running' = Running
    BY <1>0, <1>5 DEF TurnedAway, AtPredicate, Running, Phases
  <2>3. \A u \in Tickets : ~InLine(u)'
    BY <2>1 DEF InLine
  <2> QED
    BY <1>0, <1>5, <2>1, <2>2, <2>3 DEF IInv, TypeOK, QueueInv, OneAtATime, TurnedAway
<1>6. ASSUME NEW t \in Tickets, Complete(t)
      PROVE  IInv'
  <2>1. /\ phase' \in [Tickets -> Phases] /\ Running' = Running \ {t}
        /\ \A u \in Tickets : phase'[u] \in {"queued", "asleep", "awake"} <=>
                              phase[u] \in {"queued", "asleep", "awake"} /\ u # t
    BY <1>0, <1>6 DEF Complete, Running, Phases
  <2>2. CASE active = t
    <3>1. active' = None /\ pending' = pending /\ stopped' = stopped /\ ~stopped
      BY <1>6, <2>2 DEF Complete, IInv, QueueInv
    <3>2. Running' = {} /\ \A u \in Tickets : InLine(u)' <=> InLine(u)
      BY <2>1, <2>2, <3>1 DEF IInv, QueueInv, InLine
    <3>3. ~InLine(t)
      BY <2>2 DEF IInv, TypeOK
    <3> QED
      BY <1>0, <2>1, <3>1, <3>2, <3>3 DEF IInv, TypeOK, QueueInv, OneAtATime
  <2>3. CASE active # t
    <3>1. active' = active /\ pending' = Without(t) /\ stopped' = stopped
      BY <1>6, <2>3 DEF Complete
    <3>2. /\ pending' \in Seq(Tickets) /\ IsInjective(pending')
          /\ \A u \in Tickets : InLine(u)' <=> InLine(u) /\ u # t
      <4>1. /\ Without(t) \in Seq(Tickets) /\ IsInjective(Without(t))
            /\ \A u \in Tickets :
                 (\E k \in 1..Len(Without(t)) : Without(t)[k] = u) <=> InLine(u) /\ u # t
        BY <1>0, WithoutProperties
      <4>2. \A u : InLine(u)' <=> \E k \in 1..Len(Without(t)) : Without(t)[k] = u
        BY <3>1 DEF InLine
      <4> QED
        BY <3>1, <4>1, <4>2
    <3>3. ~stopped => Running' = {active'} \ {None}
      BY <2>1, <2>3, <3>1 DEF IInv, QueueInv
    <3>4. stopped => pending' = <<>>
      BY <3>1 DEF IInv, QueueInv, Without, InLine
    <3> QED
      BY <1>0, <2>1, <3>1, <3>2, <3>3, <3>4 DEF IInv, TypeOK, QueueInv, OneAtATime
  <2> QED
    BY <2>2, <2>3
<1>7. CASE Stop
  <2>1. /\ phase' \in [Tickets -> Phases] /\ Running' = Running
        /\ \A u \in Tickets : ~InLine(u)'
    BY <1>0, <1>7, EmptyDeque DEF Stop, Running, InLine
  <2> QED
    BY <1>0, <1>7, <2>1, EmptyDeque DEF Stop, IInv, TypeOK, QueueInv, OneAtATime
<1>8. CASE Restart
  <2>1. /\ phase' \in [Tickets -> Phases] /\ Running' = {}
        /\ \A u \in Tickets : ~InLine(u)' /\ phase'[u] \notin {"queued", "asleep", "awake"}
    BY <1>0, <1>8, EmptyDeque DEF Restart, Running, InLine, Phases, Live
  <2> QED
    BY <1>0, <1>8, <2>1, EmptyDeque DEF Restart, IInv, TypeOK, QueueInv, OneAtATime
<1>9. CASE UNCHANGED vars
  BY <1>9 DEF vars, IInv, TypeOK, QueueInv, OneAtATime, Running, InLine, IsInjective
<1> QED
  BY <1>1, <1>2, <1>3, <1>4, <1>5, <1>6, <1>7, <1>8, <1>9 DEF Next, WaitForTurn

(***************************************************************************)
(* For any number of threads, in any order of calls, stops and restarts:   *)
(* the queue's bookkeeping (generation_queue.py, _pending and _active)     *)
(* agrees with what the threads do, and one operation runs at a time.      *)
(***************************************************************************)
THEOREM InductiveInvariant == Spec => []IInv
<1>1. Init => IInv
  BY InitIInv
<1>2. IInv /\ [Next]_vars => IInv'
  BY NextIInv
<1> QED
  BY <1>1, <1>2, PTL DEF Spec

\* The queue's bookkeeping agrees with what its threads do.
THEOREM QueueInvariant == Spec => []QueueInv
<1>1. IInv => QueueInv
  BY DEF IInv
<1> QED
  BY <1>1, InductiveInvariant, PTL

\* The types of the queue's fields, with the deque free of duplicates.
THEOREM TypeCorrect == Spec => []TypeOK
<1>1. IInv => TypeOK
  BY DEF IInv
<1> QED
  BY <1>1, InductiveInvariant, PTL

\* At most one generation operation runs in the process, stop() included.
THEOREM MutualExclusion == Spec => []OneAtATime
<1>1. IInv => OneAtATime
  BY DEF IInv
<1> QED
  BY <1>1, InductiveInvariant, PTL

(***************************************************************************)
(* No wake-up is lost: whatever makes the predicate of a sleeping thread   *)
(* true (complete, stop, another thread's turn) also notifies it.          *)
(***************************************************************************)
THEOREM WakeupsArrive == Spec => []NoLostWakeup
<1>1. Init => NoLostWakeup
  BY DEF Init, NoLostWakeup
<1>2. TypeOK /\ NoLostWakeup /\ [Next]_vars => NoLostWakeup'
  <2> SUFFICES ASSUME TypeOK, NoLostWakeup, [Next]_vars PROVE NoLostWakeup'
    OBVIOUS
  <2>0. phase \in [Tickets -> Phases] /\ \A t \in Tickets : Notified[t] # "asleep"
    BY NotifiedProperties DEF TypeOK
  <2>1. ASSUME NEW t \in Tickets, Enqueue(t) \/ TakeTurn(t) \/ Complete(t)
        PROVE  \A u \in Tickets : phase'[u] # "asleep"
    BY <2>0, <2>1, NotifiedProperties DEF Enqueue, TakeTurn, Complete
  <2>2. ASSUME NEW t \in Tickets, Refuse(t) \/ TurnedAway(t)
        PROVE  \A u \in Tickets : phase'[u] # "asleep"
    BY <2>0, <2>2 DEF Refuse, TurnedAway, NoLostWakeup
  <2>3. ASSUME NEW t \in Tickets, Sleep(t)
        PROVE  NoLostWakeup'
    BY <2>0, <2>3 DEF Sleep, NoLostWakeup, IsTurnOf
  <2>4. CASE Stop \/ Restart
    <3>1. \A u \in Tickets : phase'[u] # "asleep"
      BY <2>0, <2>4 DEF Stop, Restart, Live
    <3> QED
      BY <3>1 DEF NoLostWakeup
  <2>5. CASE UNCHANGED vars
    BY <2>5 DEF vars, NoLostWakeup, IsTurnOf
  <2> QED
    BY <2>1, <2>2, <2>3, <2>4, <2>5 DEF Next, WaitForTurn, NoLostWakeup
<1> QED
  BY <1>1, <1>2, TypeCorrect, PTL DEF Spec

(***************************************************************************)
(* The queue implements TurnTaking: who is inside is read off the threads, *)
(* not off `active`, and they go in one by one in the order of the line.   *)
(***************************************************************************)
LEMMA StepTakesTurns == IInv /\ [Next]_vars => [Line!TTNext]_(Line!ttVars)
<1> SUFFICES ASSUME IInv, [Next]_vars PROVE [Line!TTNext]_(Line!ttVars)
  OBVIOUS
<1> USE NoneIsNoTicket
<1>0. /\ pending \in Seq(Tickets) /\ phase \in [Tickets -> Phases]
      /\ \A t \in Tickets : /\ Notified[t] # "asleep"
                            /\ phase[t] # "asleep" => Notified[t] = phase[t]
                            /\ phase[t] = "asleep" => Notified[t] = "awake"
      /\ Notified \in [Tickets -> Phases]
  BY NotifiedProperties DEF IInv, TypeOK
<1>1. ASSUME NEW t \in Tickets, Enqueue(t)
      PROVE  Line!Join(t)
  <2>1. Running' = Running /\ t \notin Running
    BY <1>0, <1>1 DEF Enqueue, Running
  <2>2. ~Line!Waiting(t)
    BY <1>1 DEF IInv, QueueInv, Enqueue, Line!Waiting, InLine
  <2> QED
    BY <1>1, <2>1, <2>2 DEF Enqueue, Line!Join
<1>2. ASSUME NEW t \in Tickets, Refuse(t) \/ Sleep(t)
      PROVE  UNCHANGED Line!ttVars
  <2>1. Running' = Running
    BY <1>0, <1>2 DEF Refuse, Sleep, AtPredicate, Running
  <2> QED
    BY <1>2, <2>1 DEF Refuse, Sleep, Line!ttVars
<1>3. ASSUME NEW t \in Tickets, TakeTurn(t)
      PROVE  Line!GoIn(t)
  <2>1. Running = {} /\ ~stopped
    BY <1>3 DEF IInv, QueueInv, TakeTurn, IsTurnOf
  <2>2. Running' = {t}
    BY <1>0, <1>3, <2>1 DEF TakeTurn, Running
  <2> QED
    BY <1>3, <2>1, <2>2 DEF TakeTurn, IsTurnOf, Line!GoIn
<1>4. ASSUME NEW t \in Tickets, TurnedAway(t)
      PROVE  UNCHANGED Line!ttVars
  <2>1. pending' = pending
    BY <1>0, <1>4, EmptyDeque DEF IInv, QueueInv, TurnedAway, Without, InLine
  <2>2. Running' = Running
    BY <1>0, <1>4 DEF TurnedAway, AtPredicate, Running
  <2> QED
    BY <1>4, <2>1, <2>2 DEF TurnedAway, Line!ttVars
<1>5. ASSUME NEW t \in Tickets, Complete(t), phase[t] = "running"
      PROVE  Line!Leave(t)
  <2>1. Running' = Running \ {t} /\ t \in Running
    BY <1>0, <1>5 DEF Complete, Running
  <2>2. pending' = pending
    <3>1. ~InLine(t)
      BY <1>5 DEF IInv, QueueInv
    <3> QED
      BY <1>5, <3>1 DEF Complete, Without
  <2> QED
    BY <1>5, <2>1, <2>2 DEF Complete, Line!Leave
<1>6. ASSUME NEW t \in Tickets, Complete(t), phase[t] = "queued"
      PROVE  (\E k \in 1..Len(pending) : Line!GiveUp(k)) \/ UNCHANGED Line!ttVars
  <2>1. Running' = Running
    BY <1>0, <1>6 DEF Complete, Running
  <2>2. active # t
    BY <1>6 DEF IInv, QueueInv, Running
  <2>3. CASE InLine(t)
    <3>1. PICK k \in 1..Len(pending) : Without(t) = RemoveAt(pending, k)
      BY <2>3 DEF Without, InLine
    <3>2. pending' = RemoveAt(pending, k)
      BY <1>6, <2>2, <3>1 DEF Complete
    <3>3. Line!GiveUp(k)
      BY <1>6, <2>1, <3>2 DEF Complete, Line!GiveUp, RemoveAt
    <3> QED
      BY <3>3
  <2>4. CASE ~InLine(t)
    BY <1>6, <2>1, <2>4 DEF Complete, Without, Line!ttVars
  <2> QED
    BY <2>3, <2>4
<1>7. CASE Stop
  <2>1. Running' = Running
    BY <1>0, <1>7 DEF Stop, Running
  <2> QED
    BY <1>7, <2>1 DEF Stop, Line!Close, Line!TTNext
<1>8. CASE Restart
  <2>1. Running' = {}
    BY <1>0, <1>8 DEF Restart, Running, Live
  <2> QED
    BY <1>8, <2>1 DEF Restart, Line!StartOver, Line!TTNext
<1>9. CASE UNCHANGED vars
  BY <1>9 DEF vars, Line!ttVars, Running
<1>10. ASSUME NEW t \in Tickets, Complete(t)
       PROVE  [Line!TTNext]_(Line!ttVars)
  BY <1>5, <1>6, <1>10 DEF Complete, Line!TTNext
<1> QED
  BY <1>1, <1>2, <1>3, <1>4, <1>7, <1>8, <1>9, <1>10 DEF Next, WaitForTurn, Line!TTNext

THEOREM ImplementsLine == Spec => TakesTurns
<1>1. Init => Line!TTInit
  BY DEF Init, Line!TTInit, Running
<1>2. IInv /\ [Next]_vars => [Line!TTNext]_(Line!ttVars)
  BY StepTakesTurns
<1> QED
  BY <1>1, <1>2, InductiveInvariant, PTL DEF Spec, TakesTurns, Line!TTSpec
=============================================================================
