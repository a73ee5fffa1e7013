---------------------------- MODULE Replacement ----------------------------
(* src/replacement/replacement.c: a policy is its type and the state of that *)
(* type; the functions dispatch on the type.                                 *)
EXTENDS Fifo, Lru, Clock, Aging

PolicyType == {"FIFO", "LRU", "CLOCK", "AGING"}

Create(type) ==
  [type |-> type,
   state |-> CASE type = "FIFO" -> FifoStart
               [] type = "LRU" -> LruStart
               [] type = "CLOCK" -> ClockStart
               [] type = "AGING" -> AgingStart]

OnLoad(policy, f) ==
  [policy EXCEPT !.state =
     CASE policy.type = "FIFO" -> FifoOnLoad(@, f)
       [] policy.type = "LRU" -> LruOnLoad(@, f)
       [] policy.type = "CLOCK" -> ClockOnLoad(@, f)
       [] policy.type = "AGING" -> AgingOnLoad(@, f)]

\* FIFO has nothing to record.
OnAccess(policy, f) ==
  [policy EXCEPT !.state =
     CASE policy.type = "FIFO" -> @
       [] policy.type = "LRU" -> LruOnAccess(@, f)
       [] policy.type = "CLOCK" -> ClockOnAccess(@, f)
       [] policy.type = "AGING" -> AgingOnAccess(@, f)]

OnEvict(policy, f) ==
  [policy EXCEPT !.state =
     CASE policy.type = "FIFO" -> FifoOnEvict(@, f)
       [] policy.type = "LRU" -> LruOnEvict(@, f)
       [] policy.type = "CLOCK" -> ClockOnEvict(@, f)
       [] policy.type = "AGING" -> AgingOnEvict(@, f)]

\* What choose_victim returns ...
Victim(policy) ==
  CASE policy.type = "FIFO" -> FifoVictim(policy.state)
    [] policy.type = "LRU" -> LruVictim(policy.state)
    [] policy.type = "CLOCK" -> ClockVictim(policy.state)
    [] policy.type = "AGING" -> AgingVictim(policy.state)

\* ... and the state it leaves: only Clock does more than look.
Chosen(policy) ==
  IF policy.type = "CLOCK" THEN [policy EXCEPT !.state = ClockSweep(@)] ELSE policy

\* Only Aging has work to do at a tick.
Tick(policy) ==
  IF policy.type = "AGING" THEN [policy EXCEPT !.state = AgingTick(@)] ELSE policy

=============================================================================
