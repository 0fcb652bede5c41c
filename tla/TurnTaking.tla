----------------------------- MODULE TurnTaking -----------------------------
(***************************************************************************)
(* What the generation queue promises to its clients, without its lock,    *)
(* its condition variable or its bookkeeping of the active ticket: clients *)
(* stand in one line, the one at the front goes in when nobody is inside,  *)
(* and nobody else ever does.  Closing turns the whole line away at once;  *)
(* the client that is inside finishes undisturbed.  StartOver is a new     *)
(* process with an empty line.                                             *)
(***************************************************************************)
EXTENDS Naturals, Sequences, FiniteSets

CONSTANT Clients

VARIABLES
    line,     \* the clients that wait, in the order in which they arrived
    inside,   \* the clients whose generation is in progress
    open      \* whether the queue takes and serves clients

ttVars == <<line, inside, open>>

Waiting(c) == \E k \in 1..Len(line) : line[k] = c

TTTypeOK ==
    /\ line \in Seq(Clients)
    /\ inside \subseteq Clients
    /\ open \in BOOLEAN

TTInit ==
    /\ line = <<>>
    /\ inside = {}
    /\ open = TRUE

Join(c) ==
    /\ open
    /\ c \notin inside
    /\ ~Waiting(c)
    /\ line' = Append(line, c)
    /\ UNCHANGED <<inside, open>>

GoIn(c) ==
    /\ open
    /\ inside = {}
    /\ line # <<>>
    /\ c = Head(line)
    /\ line' = Tail(line)
    /\ inside' = {c}
    /\ UNCHANGED open

Leave(c) ==
    /\ c \in inside
    /\ inside' = inside \ {c}
    /\ UNCHANGED <<line, open>>

GiveUp(k) ==
    /\ line' = SubSeq(line, 1, k - 1) \o SubSeq(line, k + 1, Len(line))
    /\ UNCHANGED <<inside, open>>

Close ==
    /\ open' = FALSE
    /\ line' = <<>>
    /\ UNCHANGED inside

StartOver ==
    /\ line' = <<>>
    /\ inside' = {}
    /\ open' = TRUE

TTNext ==
    \/ \E c \in Clients : Join(c) \/ GoIn(c) \/ Leave(c)
    \/ \E k \in 1..Len(line) : GiveUp(k)
    \/ Close
    \/ StartOver

TTSpec == TTInit /\ [][TTNext]_ttVars
=============================================================================
