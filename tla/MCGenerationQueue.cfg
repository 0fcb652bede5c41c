SPECIFICATION Spec
CONSTANTS
    t1 = t1  t2 = t2  t3 = t3  t4 = t4
    Tickets = {t1, t2, t3, t4}
    None = None
INVARIANTS NoLostWakeup
PROPERTIES TakesTurns EveryTicketServed
CHECK_DEADLOCK FALSE
