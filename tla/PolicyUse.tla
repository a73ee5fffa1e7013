----------------------------- MODULE PolicyUse -----------------------------
(***************************************************************************)
(* How src/virtual_memory.c uses a replacement policy: which of its        *)
(* functions each call reaches, in which order, and what the policy and    *)
(* the memory must agree on for that to work.                              *)
(*                                                                         *)
(* Of the rest of the memory only two things matter here: the frames in    *)
(* use, and those a fault may not take, because they are shared or are     *)
(* dirty while the swap area has no slot for them.  Any call but a refused *)
(* one may change the latter in any way.                                   *)
(*                                                                         *)
(* Histories are kept, each for the policy it is about: the frames in the  *)
(* order of loading for FIFO and of use for LRU, of refused faults for     *)
(* Clock, and of past uses for Aging.                                      *)
(***************************************************************************)
EXTENDS Replacement, ClockLoop, VictimQueue, Sequences

CONSTANTS
  MaxClock,      \* bound: stamps of LRU
  MaxRefusals,   \* bound: refused faults counted in a row
  Window         \* ticks of the past that are remembered

\* Aging cannot tell apart what is further back than an age has bits.
ASSUME WindowAssumption == Window \in 0 .. AgeBits

VARIABLES
  policy,     \* memory->replacement_policy
  occupied,   \* the frames in use
  pinned,     \* those a fault may not take
  order,      \* the frames in the order of loading (FIFO) or of use (LRU)
  refusals,   \* faults refused since the last call that was not
  pending,    \* frames loaded or accessed since the last tick
  past        \* the same before each of the last ticks, the latest first

vars == <<policy, occupied, pinned, order, refusals, pending, past>>

Init ==
  /\ policy \in {Create(type) : type \in PolicyType}
  /\ occupied = {} /\ pinned = {} /\ order = Nobody
  /\ refusals = 0
  /\ pending = {} /\ past = <<>>

\* The lowest free frame, as physical_memory_allocate_frame finds it.
FirstFree(f) ==
  /\ f \in Frame \ occupied
  /\ \A g \in Frame : g < f => g \in occupied

\* What every call but a refused one has in common.
Served ==
  /\ refusals' = 0
  /\ pinned' \in SUBSET occupied'

\* The page in the frames of S is another one: its past is not theirs.
Forgotten(S) == [i \in DOMAIN past |-> past[i] \ S]

\* The history after the frames of S were used and replacement_policy_tick ran.
Ticked(history, S) ==
  /\ pending' = {}
  /\ past' = IF policy.type = "AGING"
               THEN SubSeq(<<S>> \o history, 1, Min({Window, Len(history) + 1}))
               ELSE <<>>

Ordered(queue) ==
  order' = IF policy.type \in {"FIFO", "LRU"} THEN queue ELSE Nobody

\* virtual_memory_load_free_frame
Load(f) ==
  /\ FirstFree(f)
  /\ policy' = Tick(OnLoad(policy, f))
  /\ Ordered(Used(order, f))
  /\ occupied' = occupied \union {f}
  /\ Ticked(past, pending \union {f})
  /\ Served

\* The same when the page cannot be restored.
LoadFails(f) ==
  /\ FirstFree(f)
  /\ policy' = OnEvict(OnLoad(policy, f), f)
  /\ UNCHANGED <<occupied, order, pending, past>>
  /\ Served

\* A write to a shared page gets a copy in frame f.
Copy(f) ==
  /\ FirstFree(f)
  /\ pinned # {}
  /\ policy' = Tick(OnAccess(OnLoad(policy, f), f))
  /\ Ordered(Used(order, f))
  /\ occupied' = occupied \union {f}
  /\ Ticked(past, pending \union {f})
  /\ Served

\* virtual_memory_notify_access
Access(f) ==
  /\ f \in occupied
  /\ policy' = Tick(OnAccess(policy, f))
  /\ Ordered(IF policy.type = "LRU" THEN Used(order, f) ELSE order)
  /\ Ticked(past, pending \union {f})
  /\ UNCHANGED occupied
  /\ Served

Full == occupied = Frame

\* Mutant: the evicted frame is loaded without leaving the policy first.
ReusedWithoutEvict(s, f) == OnLoad(s, f)

\* The victim leaves the policy and comes back with its new page.
Reused(s, f) == OnLoad(OnEvict(s, f), f)

\* virtual_memory_replace_page
Replace ==
  LET f == Victim(policy)
  IN  /\ Full
      /\ f \in occupied \ pinned
      /\ policy' = Tick(Reused(Chosen(policy), f))
      /\ Ordered(Used(order, f))
      /\ Ticked(Forgotten({f}), pending \union {f})
      /\ UNCHANGED occupied
      /\ Served

\* The same when the new page cannot be read from swap: no tick.
ReplaceUnread ==
  LET f == Victim(policy)
  IN  /\ Full
      /\ f \in occupied \ pinned
      /\ policy' = Reused(Chosen(policy), f)
      /\ Ordered(Used(order, f))
      /\ pending' = IF policy.type = "AGING" THEN pending \union {f} ELSE {}
      /\ past' = Forgotten({f})
      /\ UNCHANGED occupied
      /\ Served

\* The same when the victim cannot be taken.
Refuse ==
  /\ Full
  /\ Victim(policy) \in pinned
  /\ policy' = Chosen(policy)
  /\ IF policy.type = "CLOCK"
       THEN refusals < MaxRefusals /\ refusals' = refusals + 1
       ELSE UNCHANGED refusals
  /\ UNCHANGED <<occupied, pinned, order, pending, past>>

\* The policy after the loop of a release, which looks at every frame in turn and
\* gives up those of S.
Evicted(S) ==
  LET seen[n \in 0 .. FrameCount] ==
        IF n = 0 THEN policy
        ELSE IF n - 1 \in S THEN OnEvict(seen[n - 1], n - 1)
        ELSE seen[n - 1]
  IN  seen[FrameCount]

\* virtual_memory_release_process frees the frames of S.
Release(S) ==
  /\ policy' = Evicted(S)
  /\ occupied' = occupied \ S
  /\ Ordered(Left(order, S))
  /\ pending' = pending \ S
  /\ past' = Forgotten(S)
  /\ Served

Next ==
  /\ \/ \E f \in Frame : Load(f) \/ LoadFails(f) \/ Copy(f) \/ Access(f)
     \/ Replace \/ ReplaceUnread \/ Refuse
     \/ \E S \in SUBSET occupied : Release(S)
  /\ policy.type = "LRU" => policy'.state.clock <= MaxClock

Spec == Init /\ [][Next]_vars

-----------------------------------------------------------------------------

\* The policy knows exactly the frames in use, so that none of its functions
\* returns -1 to virtual_memory.c, and its victim is always a frame in use.
PolicyAgrees ==
  /\ policy.state.loaded = occupied
  /\ occupied # {} => Victim(policy) \in occupied

\* However frames come, go and are released in between, and whichever loads
\* fail, the array of FIFO lists the frames once each, in the order they were
\* loaded in, and FIFO gives up the one that was loaded first.
FirstInFirstOut ==
  policy.type = "FIFO" =>
    LET s == policy.state
    IN  /\ Waiting(order) = {s.queue[i] : i \in 0 .. s.size - 1}
        /\ \A i, j \in 0 .. s.size - 1 :
             <<s.queue[i], s.queue[j]>> \in order <=> i <= j
        /\ order # Nobody => Victim(policy) = Foremost(order)

\* The stamps order the frames as a queue of recent use: no two frames have the
\* same one, a failed load does not disturb the others, and LRU gives up the
\* frame that was left idle longest.
LeastRecentlyUsed ==
  policy.type = "LRU" =>
    LET s == policy.state
    IN  /\ Waiting(order) = s.loaded
        /\ \A f, g \in s.loaded :
             /\ <<f, g>> \in order <=> s.last[f] <= s.last[g]
             /\ s.last[f] = s.last[g] => f = g
        /\ order # Nobody => Victim(policy) = Foremost(order)

\* A fault that is refused may be retried: as long as some frame can be taken
\* the clock gets to it.  Each pinned frame is in the way at most twice, once
\* before the hand has cleared every bit and once after.
RetriesReachAVictim ==
  policy.type = "CLOCK" /\ Full /\ pinned # occupied
    => refusals <= 2 * Cardinality(pinned)

\* The loop that looks for a victim of Clock ends, within two rounds of the hand,
\* and has then done what the closed form says, of the victim and of the bits
\* and the hand it leaves behind: the other invariants rely on it.
LoopEndsInClosedForm ==
  policy.type = "CLOCK" =>
    After(policy.state, 2 * FrameCount) =
      [state |-> ClockSweep(policy.state),
       turning |-> FALSE,
       victim |-> ClockVictim(policy.state)]

\* How many ticks ago frame f was used, Window + 1 when it was not.
LastUse(f) ==
  Min({i \in DOMAIN past : f \in past[i]} \union {Window + 1})

\* Aging is LRU with a memory of AgeBits calls, because virtual_memory.c ticks
\* after every access: no frame in use was left idle for longer than the victim.
AgingIsShortLru ==
  policy.type = "AGING" /\ occupied # {}
    => \A f \in occupied : LastUse(f) <= LastUse(Victim(policy))

=============================================================================
