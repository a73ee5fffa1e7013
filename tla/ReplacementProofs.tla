-------------------------- MODULE ReplacementProofs --------------------------
(***************************************************************************)
(* The replacement policies for any number of frames: each of them knows   *)
(* exactly the frames in use, FIFO and LRU give up the frame they are      *)
(* named for, and the loop of Clock ends.                                  *)
(*                                                                         *)
(* Each policy has an invariant of its own state.  A lemma for each        *)
(* function of the interface says that it is kept, with the frames and the *)
(* queue that the function leaves, and the calls of virtual_memory.c are   *)
(* compositions of these.                                                  *)
(***************************************************************************)
EXTENDS PolicyUse, ArrayScanProofs, SequenceTheorems

USE FrameCountAssumption

-----------------------------------------------------------------------------
(* The invariants of the four states; queue is the order of the frames. *)

\* The array of FIFO is sorted by the time of loading, whatever that was.
FifoInv(s, queue) ==
  /\ s \in [queue : [Frame -> Frame], size : 0 .. FrameCount, loaded : SUBSET Frame]
  /\ \A i \in 0 .. s.size - 1 : s.queue[i] \in s.loaded
  /\ \A f \in s.loaded : \E i \in 0 .. s.size - 1 : s.queue[i] = f
  /\ \E time, now :
       /\ now \in Int
       /\ Ranked(queue, s.loaded, time)
       /\ \A f \in s.loaded : time[f] < now
       /\ \A i, j \in 0 .. s.size - 1 : i < j => time[s.queue[i]] < time[s.queue[j]]

LruInv(s, queue) ==
  /\ s \in [loaded : SUBSET Frame, last : [Frame -> Nat], clock : Nat]
  /\ Ranked(queue, s.loaded, s.last)
  /\ \A f \in Frame : s.last[f] <= s.clock

ClockInv(s) ==
  s \in [loaded : SUBSET Frame, referenced : SUBSET Frame, hand : Frame]

AgingInv(s) ==
  s \in [loaded : SUBSET Frame, referenced : SUBSET Frame, age : [Frame -> Nat]]

\* Policy p has the frames of L, in the order of queue.
PolicyInv(p, L, queue) ==
  /\ p = [type |-> p.type, state |-> p.state]
  /\ p.type \in PolicyType
  /\ p.state.loaded = L
  /\ L \subseteq Frame
  /\ p.type = "FIFO" => FifoInv(p.state, queue)
  /\ p.type = "LRU" => LruInv(p.state, queue)
  /\ p.type = "CLOCK" => ClockInv(p.state)
  /\ p.type = "AGING" => AgingInv(p.state)

-----------------------------------------------------------------------------
(* FIFO. *)

LEMMA FifoStarts == FifoInv(FifoStart, Nobody)
<1> DEFINE time == [f \in Frame |-> 0]
<1>1. /\ FifoStart.loaded = {} /\ FifoStart.size = 0
      /\ FifoStart \in [queue : [Frame -> Frame], size : 0 .. FrameCount,
                        loaded : SUBSET Frame]
  BY DEF FifoStart, Frame
<1>2. Ranked(Nobody, FifoStart.loaded, time)
  BY <1>1, RankedEmpty
<1>3. 0 .. FifoStart.size - 1 = {} /\ 0 \in Int
  BY <1>1
<1> HIDE DEF time
<1> QED
  BY <1>1, <1>2, <1>3 DEF FifoInv

\* The positions of the array are as many as the frames loaded.
LEMMA FifoCounts ==
  ASSUME NEW s, NEW queue, FifoInv(s, queue)
  PROVE  /\ \A i, j \in 0 .. s.size - 1 : s.queue[i] = s.queue[j] => i = j
         /\ s.size = Cardinality(s.loaded)
<1> DEFINE at == [i \in 0 .. s.size - 1 |-> s.queue[i]]
<1>1. /\ s.size \in Nat
      /\ \A i \in 0 .. s.size - 1 : s.queue[i] \in s.loaded
      /\ \A f \in s.loaded : \E i \in 0 .. s.size - 1 : s.queue[i] = f
  BY DEF FifoInv
<1>2. \A i, j \in 0 .. s.size - 1 : s.queue[i] = s.queue[j] => i = j
  <2>1. PICK time : /\ \A f \in s.loaded : time[f] \in Int
                    /\ \A i, j \in 0 .. s.size - 1 :
                         i < j => time[s.queue[i]] < time[s.queue[j]]
    BY DEF FifoInv, Ranked
  <2> SUFFICES ASSUME NEW i \in 0 .. s.size - 1, NEW j \in 0 .. s.size - 1,
                      s.queue[i] = s.queue[j], i < j
               PROVE  FALSE
    BY <1>1
  <2>2. time[s.queue[i]] < time[s.queue[i]] /\ time[s.queue[i]] \in Int
    BY <1>1, <2>1
  <2> QED
    BY <2>2
<1>3. at \in Bijection(0 .. s.size - 1, s.loaded)
  BY <1>1, <1>2 DEF Bijection, Injection, IsInjective, Surjection
<1>4. IsFiniteSet(0 .. s.size - 1) /\ Cardinality(0 .. s.size - 1) = s.size
  <2>1. \A n \in Nat : IsFiniteSet(0 .. n - 1) /\ Cardinality(0 .. n - 1) = n
    BY FS_Interval
  <2> QED
    BY <1>1, <2>1
<1>5. ExistsBijection(0 .. s.size - 1, s.loaded)
  BY <1>3 DEF ExistsBijection
<1>6. Cardinality(s.loaded) = s.size
  BY <1>4, <1>5, FS_Bijection
<1> QED
  BY <1>2, <1>6

LEMMA FifoLoads ==
  ASSUME NEW s, NEW queue, NEW f \in Frame, FifoInv(s, queue), f \notin s.loaded
  PROVE  /\ FifoInv(FifoOnLoad(s, f), Used(queue, f))
         /\ FifoOnLoad(s, f).loaded = s.loaded \union {f}
<1> DEFINE t == FifoOnLoad(s, f)
           n == s.size
<1>1. /\ s.queue \in [Frame -> Frame] /\ n \in 0 .. FrameCount
      /\ s.loaded \subseteq Frame
      /\ \A i \in 0 .. n - 1 : s.queue[i] \in s.loaded
      /\ \A g \in s.loaded : \E i \in 0 .. n - 1 : s.queue[i] = g
  BY DEF FifoInv
<1>2. n < FrameCount
  <2>1. IsFiniteSet(Frame) /\ Cardinality(Frame) = FrameCount
    BY FS_Interval DEF Frame
  <2>2. n = Cardinality(s.loaded) /\ s.loaded # Frame
    BY FifoCounts
  <2>3. Cardinality(s.loaded) # FrameCount
    BY <1>1, <2>1, <2>2, FS_Subset
  <2> QED
    BY <1>1, <2>2, <2>3
<1>3. t = [queue |-> [s.queue EXCEPT ![n] = f],
           size |-> n + 1,
           loaded |-> s.loaded \union {f}]
  BY <1>1, <1>2 DEF FifoOnLoad
<1> HIDE DEF t, n
<1>4. n \in Frame /\ \A i \in 0 .. n - 1 : i \in Frame /\ i # n
  <2>1. n \in Int
    BY <1>1
  <2> QED
    BY <1>1, <1>2, <2>1 DEF Frame
<1>5. /\ t.queue \in [Frame -> Frame] /\ t.size = n + 1
      /\ t.loaded = s.loaded \union {f}
      /\ t.queue[n] = f
      /\ \A i \in 0 .. n - 1 : t.queue[i] = s.queue[i]
  BY <1>1, <1>3, <1>4
<1>6. 0 .. t.size - 1 = (0 .. n - 1) \union {n}
  BY <1>1, <1>5
<1>7. /\ \A i \in 0 .. t.size - 1 : t.queue[i] \in t.loaded
      /\ \A g \in t.loaded : \E i \in 0 .. t.size - 1 : t.queue[i] = g
  BY <1>1, <1>5, <1>6
<1>8. t \in [queue : [Frame -> Frame], size : 0 .. FrameCount, loaded : SUBSET Frame]
  <2>1. n + 1 \in 0 .. FrameCount
    BY <1>1, <1>2
  <2>2. [s.queue EXCEPT ![n] = f] \in [Frame -> Frame]
    BY <1>3, <1>5
  <2> QED
    BY <1>1, <1>3, <2>1, <2>2
<1>9. PICK time, now :
        /\ now \in Int
        /\ Ranked(queue, s.loaded, time)
        /\ \A g \in s.loaded : time[g] < now
        /\ \A i, j \in 0 .. n - 1 : i < j => time[s.queue[i]] < time[s.queue[j]]
  BY DEF FifoInv, n
<1> DEFINE later == [g \in Frame |-> IF g = f THEN now ELSE time[g]]
<1>10. /\ later[f] = now
       /\ \A g \in s.loaded : later[g] = time[g]
  BY <1>1
<1> HIDE DEF later
<1>11. Ranked(Used(queue, f), t.loaded, later)
  <2>1. later[f] \in Int
    BY <1>9, <1>10
  <2>2. \A g \in s.loaded \ {f} : later[g] = time[g] /\ later[g] < later[f]
    BY <1>9, <1>10
  <2>3. Ranked(Used(queue, f), s.loaded \union {f}, later)
    BY <1>9, <2>1, <2>2, RankedUsed
  <2> QED
    BY <1>5, <2>3
<1>12. \A g \in t.loaded : later[g] < now + 1
  <2>1. \A g \in s.loaded : time[g] \in Int
    BY <1>9 DEF Ranked
  <2> QED
    BY <1>5, <1>9, <1>10, <2>1
<1>13. \A i, j \in 0 .. t.size - 1 : i < j => later[t.queue[i]] < later[t.queue[j]]
  <2> SUFFICES ASSUME NEW i \in 0 .. t.size - 1, NEW j \in 0 .. t.size - 1, i < j
               PROVE  later[t.queue[i]] < later[t.queue[j]]
    OBVIOUS
  <2>1. i \in 0 .. n - 1
    BY <1>1, <1>6
  <2>2. s.queue[i] \in s.loaded /\ later[t.queue[i]] = time[s.queue[i]]
    BY <1>1, <1>5, <1>10, <2>1
  <2>3. CASE j = n
    BY <1>5, <1>9, <1>10, <2>2, <2>3
  <2>4. CASE j # n
    <3>1. j \in 0 .. n - 1
      BY <1>6, <2>4
    <3>2. later[t.queue[j]] = time[s.queue[j]]
      BY <1>1, <1>5, <1>10, <3>1
    <3> QED
      BY <1>9, <2>1, <2>2, <3>1, <3>2
  <2> QED
    BY <2>3, <2>4
<1>14. now + 1 \in Int
  BY <1>9
<1>15. FifoInv(t, Used(queue, f))
  BY <1>7, <1>8, <1>11, <1>12, <1>13, <1>14 DEF FifoInv
<1> QED
  BY <1>5, <1>15 DEF t

\* The entries behind the frame that leaves move up by one.
LEMMA FifoEvicts ==
  ASSUME NEW s, NEW queue, NEW f \in Frame, FifoInv(s, queue), f \in s.loaded
  PROVE  /\ FifoInv(FifoOnEvict(s, f), Left(queue, {f}))
         /\ FifoOnEvict(s, f).loaded = s.loaded \ {f}
<1> DEFINE t == FifoOnEvict(s, f)
           n == s.size
           positions == {i \in 0 .. n - 1 : s.queue[i] = f}
           moves(i) == i + 1 < n /\ \E j \in positions : j <= i
<1>1. /\ s.queue \in [Frame -> Frame] /\ n \in 0 .. FrameCount
      /\ s.loaded \subseteq Frame
      /\ \A i \in 0 .. n - 1 : s.queue[i] \in s.loaded
      /\ \A g \in s.loaded : \E i \in 0 .. n - 1 : s.queue[i] = g
  BY DEF FifoInv
<1>2. PICK k \in 0 .. n - 1 : s.queue[k] = f
  BY <1>1
<1>3. positions = {k}
  BY <1>2, FifoCounts
<1>4. t = [queue |-> [i \in Frame |-> IF moves(i) THEN s.queue[i + 1] ELSE s.queue[i]],
           size |-> n - 1,
           loaded |-> s.loaded \ {f}]
  <2>1. positions # {}
    BY <1>3
  <2> QED
    BY <2>1 DEF FifoOnEvict
<1>5. \A i \in Frame : moves(i) <=> i + 1 < n /\ k <= i
  BY <1>3
<1> HIDE DEF t, n, moves, positions
<1> DEFINE from == [i \in 0 .. n - 2 |-> IF k <= i THEN i + 1 ELSE i]
<1>6. n \in Int /\ k \in Int /\ t.size - 1 = n - 2
      /\ t.loaded = s.loaded \ {f}
      /\ t.queue = [i \in Frame |-> IF moves(i) THEN s.queue[i + 1] ELSE s.queue[i]]
  BY <1>1, <1>4
<1>7. \A i \in 0 .. n - 2 :
        /\ i \in Int /\ i \in Frame
        /\ from[i] = IF k <= i THEN i + 1 ELSE i
        /\ from[i] \in 0 .. n - 1 /\ from[i] # k
        /\ moves(i) <=> k <= i
  <2> SUFFICES ASSUME NEW i \in 0 .. n - 2
               PROVE  /\ i \in Int /\ i \in Frame
                      /\ from[i] = IF k <= i THEN i + 1 ELSE i
                      /\ from[i] \in 0 .. n - 1 /\ from[i] # k
                      /\ moves(i) <=> k <= i
    OBVIOUS
  <2>1. i \in Int /\ i \in Frame
    BY <1>1, <1>6 DEF Frame
  <2>2. from[i] = IF k <= i THEN i + 1 ELSE i
    OBVIOUS
  <2>3. from[i] \in 0 .. n - 1 /\ from[i] # k
    BY <1>6, <2>1, <2>2
  <2>4. moves(i) <=> k <= i
    BY <1>5, <1>6, <2>1
  <2> QED
    BY <2>1, <2>2, <2>3, <2>4
<1>8. \A i \in 0 .. n - 2 : t.queue[i] = s.queue[from[i]]
  BY <1>6, <1>7
<1>9. \A l \in (0 .. n - 1) \ {k} : \E i \in 0 .. n - 2 : from[i] = l
  <2> SUFFICES ASSUME NEW l \in (0 .. n - 1) \ {k}
               PROVE  \E i \in 0 .. n - 2 : from[i] = l
    OBVIOUS
  <2>1. CASE l < k
    <3>1. l \in 0 .. n - 2
      BY <1>6, <2>1
    <3> QED
      BY <1>6, <2>1, <3>1
  <2>2. CASE k < l
    <3>1. l - 1 \in 0 .. n - 2 /\ k <= l - 1
      BY <1>6, <2>2
    <3> QED
      BY <1>6, <3>1
  <2> QED
    BY <1>6, <2>1, <2>2
<1>10. \A i, j \in 0 .. n - 2 : i < j => from[i] < from[j]
  BY <1>6, <1>7
<1> HIDE DEF from
<1>11. /\ \A i \in 0 .. n - 2 : t.queue[i] \in t.loaded
       /\ \A g \in t.loaded : \E i \in 0 .. n - 2 : t.queue[i] = g
  <2>1. ASSUME NEW i \in 0 .. n - 2 PROVE t.queue[i] \in t.loaded
    <3>1. s.queue[from[i]] \in s.loaded
      BY <1>1, <1>7
    <3>2. s.queue[from[i]] # f
      <4>1. from[i] \notin positions
        BY <1>3, <1>7
      <4> QED
        BY <1>7, <4>1 DEF positions
    <3> QED
      BY <1>6, <1>8, <3>1, <3>2
  <2>2. ASSUME NEW g \in t.loaded PROVE \E i \in 0 .. n - 2 : t.queue[i] = g
    <3>1. PICK l \in 0 .. n - 1 : s.queue[l] = g /\ l # k
      BY <1>1, <1>2, <1>6
    <3> QED
      BY <1>8, <1>9, <3>1
  <2> QED
    BY <2>1, <2>2
<1>12. t \in [queue : [Frame -> Frame], size : 0 .. FrameCount, loaded : SUBSET Frame]
  <2>1. \A i \in Frame : moves(i) => i + 1 \in Frame
    BY <1>1, <1>5 DEF Frame
  <2>2. n - 1 \in 0 .. FrameCount
    BY <1>1, <1>2
  <2>3. [i \in Frame |-> IF moves(i) THEN s.queue[i + 1] ELSE s.queue[i]]
          \in [Frame -> Frame]
    BY <1>1, <2>1
  <2> QED
    BY <1>1, <1>4, <2>2, <2>3
<1>13. PICK time, now :
        /\ now \in Int
        /\ Ranked(queue, s.loaded, time)
        /\ \A g \in s.loaded : time[g] < now
        /\ \A i, j \in 0 .. n - 1 : i < j => time[s.queue[i]] < time[s.queue[j]]
  BY DEF FifoInv, n
<1>14. Ranked(Left(queue, {f}), t.loaded, time)
  BY <1>6, <1>13, RankedLeft
<1>15. \A i, j \in 0 .. n - 2 : i < j => time[t.queue[i]] < time[t.queue[j]]
  BY <1>7, <1>8, <1>10, <1>13
<1>16. \A g \in t.loaded : time[g] < now
  BY <1>6, <1>13
<1>17. FifoInv(t, Left(queue, {f}))
  BY <1>6, <1>11, <1>12, <1>13, <1>14, <1>15, <1>16 DEF FifoInv
<1> QED
  BY <1>6, <1>17 DEF t

LEMMA FifoGivesUp ==
  ASSUME NEW s, NEW queue, FifoInv(s, queue), s.loaded # {}
  PROVE  FifoVictim(s) \in s.loaded /\ FifoVictim(s) = Foremost(queue)
<1>1. /\ s.size \in Nat /\ s.size # 0
      /\ \A i \in 0 .. s.size - 1 : s.queue[i] \in s.loaded
      /\ \A g \in s.loaded : \E i \in 0 .. s.size - 1 : s.queue[i] = g
  BY DEF FifoInv
<1>2. PICK time :
        /\ Ranked(queue, s.loaded, time)
        /\ \A i, j \in 0 .. s.size - 1 : i < j => time[s.queue[i]] < time[s.queue[j]]
  BY DEF FifoInv
<1>3. 0 \in 0 .. s.size - 1 /\ FifoVictim(s) = s.queue[0]
  BY <1>1 DEF FifoVictim
<1>4. ASSUME NEW g \in s.loaded PROVE time[s.queue[0]] <= time[g]
  <2>1. PICK i \in 0 .. s.size - 1 : s.queue[i] = g
    BY <1>1
  <2>2. i = 0 \/ 0 < i
    BY <1>1
  <2>3. time[g] \in Int /\ time[s.queue[0]] \in Int
    BY <1>1, <1>2, <1>3 DEF Ranked
  <2> QED
    BY <1>2, <1>3, <2>1, <2>2, <2>3
<1>5. s.queue[0] \in s.loaded
  BY <1>1, <1>3
<1> QED
  BY <1>2, <1>3, <1>4, <1>5, RankedForemost

-----------------------------------------------------------------------------
(* LRU. *)

LEMMA LruStarts == LruInv(LruStart, Nobody)
BY RankedEmpty DEF LruInv, LruStart

\* A frame that gets a stamp goes to the back of the queue.
LEMMA LruStamps ==
  ASSUME NEW s, NEW queue, NEW f \in Frame, LruInv(s, queue),
         NEW r, r \in {s, [s EXCEPT !.loaded = @ \union {f}]},
         s.loaded \union {f} = r.loaded
  PROVE  /\ LruInv(Stamped(r, f), Used(queue, f))
         /\ Stamped(r, f).loaded = r.loaded
<1>1. /\ s.loaded \subseteq Frame /\ s.last \in [Frame -> Nat] /\ s.clock \in Nat
      /\ Ranked(queue, s.loaded, s.last)
      /\ \A g \in Frame : s.last[g] <= s.clock
  BY DEF LruInv
<1>2. /\ r.last = s.last /\ r.clock = s.clock /\ r.loaded = s.loaded \union {f}
      /\ r = [loaded |-> r.loaded, last |-> r.last, clock |-> r.clock]
  BY DEF LruInv
<1> DEFINE t == Stamped(r, f)
<1>3. t = [loaded |-> r.loaded, last |-> [s.last EXCEPT ![f] = s.clock + 1],
           clock |-> s.clock + 1]
  BY <1>2 DEF Stamped
<1> HIDE DEF t
<1>4. /\ t.loaded = s.loaded \union {f} /\ t.clock = s.clock + 1
      /\ t.last \in [Frame -> Nat]
      /\ t.last[f] = s.clock + 1
      /\ \A g \in Frame \ {f} : t.last[g] = s.last[g]
  BY <1>1, <1>2, <1>3
<1>5. t \in [loaded : SUBSET Frame, last : [Frame -> Nat], clock : Nat]
  <2>1. [s.last EXCEPT ![f] = s.clock + 1] \in [Frame -> Nat]
    BY <1>1
  <2> QED
    BY <1>1, <1>2, <1>3, <2>1
<1>6. Ranked(Used(queue, f), t.loaded, t.last)
  <2>1. t.last[f] \in Int
    BY <1>1, <1>4
  <2>2. \A g \in s.loaded \ {f} : t.last[g] = s.last[g] /\ t.last[g] < t.last[f]
    BY <1>1, <1>4
  <2>3. Ranked(Used(queue, f), s.loaded \union {f}, t.last)
    BY <1>1, <2>1, <2>2, RankedUsed
  <2> QED
    BY <1>4, <2>3
<1>7. \A g \in Frame : t.last[g] <= t.clock
  BY <1>1, <1>4
<1>8. LruInv(t, Used(queue, f))
  BY <1>5, <1>6, <1>7 DEF LruInv
<1> QED
  BY <1>2, <1>4, <1>8 DEF t

LEMMA LruLoads ==
  ASSUME NEW s, NEW queue, NEW f \in Frame, LruInv(s, queue)
  PROVE  /\ LruInv(LruOnLoad(s, f), Used(queue, f))
         /\ LruOnLoad(s, f).loaded = s.loaded \union {f}
<1> DEFINE r == [s EXCEPT !.loaded = @ \union {f}]
<1>1. r.loaded = s.loaded \union {f}
  BY DEF LruInv
<1> QED
  BY <1>1, LruStamps, ZenonT(60) DEF LruOnLoad

LEMMA LruAccesses ==
  ASSUME NEW s, NEW queue, NEW f \in s.loaded, LruInv(s, queue)
  PROVE  /\ LruInv(LruOnAccess(s, f), Used(queue, f))
         /\ LruOnAccess(s, f).loaded = s.loaded
<1>1. f \in Frame /\ s.loaded \union {f} = s.loaded
  BY DEF LruInv
<1> QED
  BY <1>1, LruStamps DEF LruOnAccess

LEMMA LruEvicts ==
  ASSUME NEW s, NEW queue, NEW f \in s.loaded, LruInv(s, queue)
  PROVE  /\ LruInv(LruOnEvict(s, f), Left(queue, {f}))
         /\ LruOnEvict(s, f).loaded = s.loaded \ {f}
<1> DEFINE t == LruOnEvict(s, f)
<1>1. /\ s.loaded \subseteq Frame /\ s.last \in [Frame -> Nat] /\ s.clock \in Nat
      /\ Ranked(queue, s.loaded, s.last)
      /\ \A g \in Frame : s.last[g] <= s.clock
      /\ s = [loaded |-> s.loaded, last |-> s.last, clock |-> s.clock]
  BY DEF LruInv
<1>2. t = [loaded |-> s.loaded \ {f}, last |-> [s.last EXCEPT ![f] = 0],
           clock |-> s.clock]
  BY <1>1 DEF LruOnEvict
<1> HIDE DEF t
<1>3. /\ t.loaded = s.loaded \ {f} /\ t.clock = s.clock
      /\ t.last \in [Frame -> Nat]
      /\ \A g \in Frame : t.last[g] = IF g = f THEN 0 ELSE s.last[g]
  BY <1>1, <1>2
<1>4. t \in [loaded : SUBSET Frame, last : [Frame -> Nat], clock : Nat]
  BY <1>1, <1>2, <1>3
<1>5. Ranked(Left(queue, {f}), t.loaded, t.last)
  <2>1. Ranked(Left(queue, {f}), t.loaded, s.last)
    BY <1>1, <1>3, RankedLeft
  <2>2. \A g \in t.loaded : t.last[g] = s.last[g] /\ t.last[g] \in Int
    BY <1>1, <1>3
  <2> QED
    BY <2>1, <2>2, RankedAlike
<1>6. \A g \in Frame : t.last[g] <= t.clock
  BY <1>1, <1>3
<1>7. LruInv(t, Left(queue, {f}))
  BY <1>4, <1>5, <1>6 DEF LruInv
<1> QED
  BY <1>3, <1>7 DEF t

LEMMA LruGivesUp ==
  ASSUME NEW s, NEW queue, LruInv(s, queue), s.loaded # {}
  PROVE  LruVictim(s) \in s.loaded /\ LruVictim(s) = Foremost(queue)
<1>1. /\ s.loaded \subseteq Frame /\ s.last \in [Frame -> Nat]
      /\ Ranked(queue, s.loaded, s.last)
  BY DEF LruInv
<1>2. s.loaded \in SUBSET Nat
  BY <1>1 DEF Frame
<1>3. \E f \in s.loaded : \A g \in s.loaded \ {f} :
        s.last[f] < s.last[g] \/ (s.last[f] = s.last[g] /\ f < g)
  BY <1>1, <1>2, LowestFirst
<1>4. /\ LruVictim(s) \in s.loaded
      /\ \A g \in s.loaded \ {LruVictim(s)} :
           \/ s.last[LruVictim(s)] < s.last[g]
           \/ s.last[LruVictim(s)] = s.last[g] /\ LruVictim(s) < g
  BY <1>3, Zenon DEF LruVictim
<1>5. \A g \in s.loaded : s.last[g] \in Nat
  BY <1>1
<1>6. \A g \in s.loaded : s.last[LruVictim(s)] <= s.last[g]
  BY <1>4, <1>5
<1> QED
  BY <1>1, <1>4, <1>6, RankedForemost

-----------------------------------------------------------------------------
(* Clock. *)

LEMMA ClockKept ==
  ASSUME NEW s, NEW f \in Frame, ClockInv(s)
  PROVE  /\ ClockInv(ClockOnLoad(s, f)) /\ ClockOnLoad(s, f).loaded = s.loaded \union {f}
         /\ ClockInv(ClockOnAccess(s, f)) /\ ClockOnAccess(s, f).loaded = s.loaded
         /\ ClockInv(ClockOnEvict(s, f)) /\ ClockOnEvict(s, f).loaded = s.loaded \ {f}
BY DEF ClockInv, ClockOnLoad, ClockOnAccess, ClockOnEvict

LEMMA ClockStarts == ClockInv(ClockStart)
BY DEF ClockInv, ClockStart, Frame

\* The remainder of a position that is at most two rounds ahead.
LEMMA Rounds ==
  ASSUME NEW x \in Int, 0 <= x, x < 3 * FrameCount
  PROVE  /\ x % FrameCount \in Frame
         /\ x % FrameCount = IF x < FrameCount THEN x
                             ELSE IF x < 2 * FrameCount THEN x - FrameCount
                             ELSE x - 2 * FrameCount
BY DEF Frame

\* The hand may stop after i steps.
Stops(s, i) ==
  /\ Under(s, i) \in s.loaded
  /\ Under(s, i) \notin s.referenced \/ i >= FrameCount

LEMMA UnderFacts ==
  ASSUME NEW s, ClockInv(s), NEW i \in 0 .. 2 * FrameCount
  PROVE  /\ Under(s, i) \in Frame
         /\ s.hand + i = Under(s, i) \/ s.hand + i = Under(s, i) + FrameCount
            \/ s.hand + i = Under(s, i) + 2 * FrameCount
<1> DEFINE x == s.hand + i
<1>1. s.hand \in Frame
  BY DEF ClockInv
<1>2. x \in Int /\ 0 <= x /\ x < 3 * FrameCount
  BY <1>1 DEF Frame
<1>3. Under(s, i) = x % FrameCount
  BY DEF Under
<1> HIDE DEF x
<1>4. /\ x % FrameCount \in Frame
      /\ x % FrameCount = IF x < FrameCount THEN x
                          ELSE IF x < 2 * FrameCount THEN x - FrameCount
                          ELSE x - 2 * FrameCount
  BY <1>2, Rounds
<1>5. \/ x = Under(s, i) \/ x = Under(s, i) + FrameCount
      \/ x = Under(s, i) + 2 * FrameCount
  BY <1>2, <1>3, <1>4
<1> QED
  BY <1>3, <1>4, <1>5 DEF x

\* The hand does stop, within two rounds.
LEMMA ClockStops ==
  ASSUME NEW s, ClockInv(s), s.loaded # {}
  PROVE  /\ StopsAfter(s) \in 0 .. 2 * FrameCount - 1
         /\ Stops(s, StopsAfter(s))
         /\ \A i \in 0 .. StopsAfter(s) - 1 : ~Stops(s, i)
<1> DEFINE N == 2 * FrameCount
           stops == {i \in 0 .. N - 1 : Stops(s, i)}
<1>1. stops # {}
  <2>1. PICK f \in s.loaded : f \in Frame
    BY DEF ClockInv
  <2>2. s.hand \in Frame
    BY DEF ClockInv
  <2>3. PICK i \in FrameCount .. N - 1 :
          s.hand + i = f + FrameCount \/ s.hand + i = f + 2 * FrameCount
    <3>1. CASE s.hand <= f
      <4>1. f - s.hand + FrameCount \in FrameCount .. N - 1
        BY <2>1, <2>2, <3>1 DEF Frame
      <4> QED
        BY <2>1, <2>2, <4>1 DEF Frame
    <3>2. CASE f < s.hand
      <4>1. f - s.hand + N \in FrameCount .. N - 1
        BY <2>1, <2>2, <3>2 DEF Frame
      <4> QED
        BY <2>1, <2>2, <4>1 DEF Frame
    <3> QED
      BY <2>1, <2>2, <3>1, <3>2 DEF Frame
  <2>4. Under(s, i) = f
    BY <2>1, <2>2, <2>3, UnderFacts DEF Frame
  <2>5. i \in stops
    BY <2>1, <2>3, <2>4 DEF Stops
  <2> QED
    BY <2>5
<1>2. stops \in SUBSET (0 .. N - 1) /\ N \in Nat
  OBVIOUS
<1>3. StopsAfter(s) = First(stops)
  BY DEF StopsAfter, Stops, First, Min
<1>4. First(stops) \in stops /\ \A j \in stops : First(stops) <= j
  <2> HIDE DEF stops, N
  <2> QED
    BY <1>1, <1>2, FirstIsIn
<1>5. ASSUME NEW i \in 0 .. StopsAfter(s) - 1 PROVE ~Stops(s, i)
  <2>1. StopsAfter(s) \in 0 .. N - 1
    BY <1>3, <1>4
  <2>2. i \in 0 .. N - 1 /\ i < StopsAfter(s) /\ i \in Int /\ StopsAfter(s) \in Int
    BY <2>1
  <2>3. i \notin stops
    BY <1>3, <1>4, <2>2
  <2> QED
    BY <2>2, <2>3
<1> QED
  BY <1>3, <1>4, <1>5

LEMMA ClockGivesUp ==
  ASSUME NEW s, ClockInv(s), s.loaded # {}
  PROVE  ClockVictim(s) \in s.loaded
BY ClockStops DEF ClockVictim, Stops

LEMMA ClockSweeps ==
  ASSUME NEW s, ClockInv(s)
  PROVE  ClockInv(ClockSweep(s)) /\ ClockSweep(s).loaded = s.loaded
<1>1. CASE s.loaded = {}
  BY <1>1 DEF ClockSweep
<1>2. CASE s.loaded # {}
  <2>1. StopsAfter(s) + 1 \in 0 .. 2 * FrameCount
    BY <1>2, ClockStops
  <2>2. Under(s, StopsAfter(s) + 1) \in Frame
    BY <2>1, UnderFacts
  <2> QED
    BY <1>2, <2>2 DEF ClockSweep, ClockInv
<1> QED
  BY <1>1, <1>2

-----------------------------------------------------------------------------
(* Aging. *)

\* Two to the power of k is the number of subsets of a set of k elements.
LEMMA Powers == ASSUME NEW k \in Nat PROVE 2 ^ k \in Nat /\ 2 ^ k >= 1
<1> DEFINE S == 1 .. k
<1>1. IsFiniteSet(S) /\ Cardinality(S) = k
  BY FS_Interval
<1>2. IsFiniteSet(SUBSET S) /\ Cardinality(SUBSET S) = 2 ^ Cardinality(S)
  BY <1>1, FS_SUBSET
<1>3. Cardinality(SUBSET S) \in Nat
  BY <1>2, FS_CardinalityType
<1>4. {} \in SUBSET S
  OBVIOUS
<1> HIDE DEF S
<1>5. Cardinality(SUBSET S) # 0
  BY <1>2, <1>4, FS_EmptySet
<1> QED
  BY <1>1, <1>2, <1>3, <1>5

\* Half of the subsets of a set have a given element.
LEMMA Doubled == ASSUME NEW k \in Nat PROVE 2 ^ (k + 1) = 2 * 2 ^ k
<1> DEFINE S == 1 .. k
           x == k + 1
           A == SUBSET S
           B == {T \union {x} : T \in A}
           with == [T \in A |-> T \union {x}]
<1>1. /\ IsFiniteSet(S) /\ Cardinality(S) = k
      /\ IsFiniteSet(1 .. k + 1) /\ Cardinality(1 .. k + 1) = k + 1
  BY FS_Interval
<1>2. 1 .. k + 1 = S \union {x} /\ x \notin S
  OBVIOUS
<1> HIDE DEF S, x
<1>3. IsFiniteSet(A) /\ Cardinality(A) = 2 ^ k
  BY <1>1, FS_SUBSET
<1>4. Cardinality(SUBSET (S \union {x})) = 2 ^ (k + 1)
  BY <1>1, <1>2, FS_SUBSET
<1>5. SUBSET (S \union {x}) = A \union B /\ A \cap B = {}
  <2>1. ASSUME NEW T \in SUBSET (S \union {x}), x \in T PROVE T \in B
    <3>1. T \ {x} \in A /\ T = (T \ {x}) \union {x}
      BY <2>1
    <3> QED
      BY <3>1
  <2>2. ASSUME NEW T \in SUBSET (S \union {x}), x \notin T PROVE T \in A
    BY <2>2
  <2>3. ASSUME NEW T \in A PROVE T \in SUBSET (S \union {x}) /\ T \notin B
    BY <1>2
  <2>4. ASSUME NEW T \in B PROVE T \in SUBSET (S \union {x})
    OBVIOUS
  <2> QED
    BY <2>1, <2>2, <2>3, <2>4
<1>6. with \in Bijection(A, B)
  <2>1. ASSUME NEW T \in A, NEW U \in A, T \union {x} = U \union {x} PROVE T = U
    <3>1. x \notin T /\ x \notin U
      BY <1>2
    <3> QED
      BY <2>1, <3>1
  <2>2. ASSUME NEW V \in B PROVE \E T \in A : with[T] = V
    OBVIOUS
  <2>3. with \in [A -> B]
    OBVIOUS
  <2>4. \A T, U \in A : with[T] = with[U] => T = U
    BY <2>1
  <2> HIDE DEF with, A, B
  <2> QED
    BY <2>2, <2>3, <2>4 DEF Bijection, Injection, IsInjective, Surjection
<1>7. IsFiniteSet(B) /\ Cardinality(B) = Cardinality(A)
  <2>1. ExistsBijection(A, B)
    BY <1>6 DEF ExistsBijection
  <2> QED
    BY <1>3, <2>1, FS_Bijection
<1> HIDE DEF A, B, with
<1>8. Cardinality(A \union B) = Cardinality(A) + Cardinality(B) - Cardinality(A \cap B)
  BY <1>3, <1>7, FS_Union
<1>9. Cardinality(A \cap B) = 0
  BY <1>5, FS_EmptySet
<1>10. Cardinality(SUBSET (S \union {x})) = Cardinality(A \union B)
  BY <1>5
<1>11. 2 ^ k \in Nat
  BY Powers
<1> QED
  BY <1>3, <1>4, <1>7, <1>8, <1>9, <1>10, <1>11

LEMMA AgingStarts == AgingInv(AgingStart)
BY DEF AgingInv, AgingStart

LEMMA AgingKept ==
  ASSUME NEW s, NEW f \in Frame, AgingInv(s)
  PROVE  /\ AgingInv(AgingOnLoad(s, f)) /\ AgingOnLoad(s, f).loaded = s.loaded \union {f}
         /\ AgingInv(AgingOnAccess(s, f)) /\ AgingOnAccess(s, f).loaded = s.loaded
         /\ AgingInv(AgingOnEvict(s, f)) /\ AgingOnEvict(s, f).loaded = s.loaded \ {f}
BY DEF AgingInv, AgingOnLoad, AgingOnAccess, AgingOnEvict

LEMMA AgingTicks ==
  ASSUME NEW s, AgingInv(s)
  PROVE  AgingInv(AgingTick(s)) /\ AgingTick(s).loaded = s.loaded
<1> DEFINE age(f) == IF f \notin s.loaded THEN s.age[f]
                     ELSE s.age[f] \div 2
                          + (IF f \in s.referenced THEN 2 ^ (AgeBits - 1) ELSE 0)
<1>1. ASSUME NEW f \in Frame PROVE age(f) \in Nat
  <2>1. s.age[f] \in Nat /\ s.age[f] \div 2 \in Nat
    BY DEF AgingInv
  <2>2. AgeBits - 1 \in Nat
    BY AgeBitsAssumption
  <2>3. 2 ^ (AgeBits - 1) \in Nat
    BY <2>2, Powers
  <2> HIDE DEF AgingInv
  <2> QED
    BY <2>1, <2>3
<1>2. AgingTick(s) = [loaded |-> s.loaded, referenced |-> s.referenced \ s.loaded,
                      age |-> [f \in Frame |-> age(f)]]
  BY DEF AgingTick
<1> HIDE DEF age
<1> QED
  BY <1>1, <1>2 DEF AgingInv

LEMMA AgingGivesUp ==
  ASSUME NEW s, AgingInv(s), s.loaded # {}
  PROVE  AgingVictim(s) \in s.loaded
<1>1. /\ s.loaded \subseteq Frame /\ s.age \in [Frame -> Nat]
  BY DEF AgingInv
<1>2. s.loaded \in SUBSET Nat
  BY <1>1 DEF Frame
<1>3. \E f \in s.loaded : \A g \in s.loaded \ {f} :
        s.age[f] < s.age[g] \/ (s.age[f] = s.age[g] /\ f < g)
  BY <1>1, <1>2, LowestFirst
<1> QED
  BY <1>3, Zenon DEF AgingVictim

-----------------------------------------------------------------------------
(* The functions of the interface, which dispatch on the type. *)

LEMMA PolicyStarts ==
  ASSUME NEW type \in PolicyType
  PROVE  PolicyInv(Create(type), {}, Nobody)
<1>1. /\ FifoStart.loaded = {} /\ LruStart.loaded = {}
      /\ ClockStart.loaded = {} /\ AgingStart.loaded = {}
  BY DEF FifoStart, LruStart, ClockStart, AgingStart
<1> QED
  BY <1>1, FifoStarts, LruStarts, ClockStarts, AgingStarts DEF PolicyInv, Create, PolicyType

LEMMA PolicyLoads ==
  ASSUME NEW p, NEW L, NEW queue, NEW f \in Frame, PolicyInv(p, L, queue), f \notin L
  PROVE  /\ PolicyInv(OnLoad(p, f), L \union {f}, Used(queue, f))
         /\ OnLoad(p, f).type = p.type
<1>1. /\ p = [type |-> p.type, state |-> p.state] /\ p.type \in PolicyType
      /\ p.state.loaded = L /\ L \subseteq Frame
  BY DEF PolicyInv
<1>2. /\ OnLoad(p, f) = [type |-> p.type, state |-> OnLoad(p, f).state]
      /\ OnLoad(p, f).type = p.type
      /\ p.type = "FIFO" => OnLoad(p, f).state = FifoOnLoad(p.state, f)
      /\ p.type = "LRU" => OnLoad(p, f).state = LruOnLoad(p.state, f)
      /\ p.type = "CLOCK" => OnLoad(p, f).state = ClockOnLoad(p.state, f)
      /\ p.type = "AGING" => OnLoad(p, f).state = AgingOnLoad(p.state, f)
  BY <1>1 DEF OnLoad, PolicyType
<1>3. L \union {f} \subseteq Frame
  BY <1>1
<1>4. CASE p.type = "FIFO"
  BY <1>1, <1>2, <1>3, <1>4, FifoLoads DEF PolicyInv
<1>5. CASE p.type = "LRU"
  BY <1>1, <1>2, <1>3, <1>5, LruLoads DEF PolicyInv
<1>6. CASE p.type = "CLOCK"
  BY <1>1, <1>2, <1>3, <1>6, ClockKept DEF PolicyInv
<1>7. CASE p.type = "AGING"
  BY <1>1, <1>2, <1>3, <1>7, AgingKept DEF PolicyInv
<1> QED
  BY <1>1, <1>4, <1>5, <1>6, <1>7 DEF PolicyType

LEMMA PolicyAccesses ==
  ASSUME NEW p, NEW L, NEW queue, NEW f \in L, PolicyInv(p, L, queue)
  PROVE  /\ PolicyInv(OnAccess(p, f), L, IF p.type = "LRU" THEN Used(queue, f) ELSE queue)
         /\ OnAccess(p, f).type = p.type
<1>1. /\ p = [type |-> p.type, state |-> p.state] /\ p.type \in PolicyType
      /\ p.state.loaded = L /\ L \subseteq Frame /\ f \in Frame
  BY DEF PolicyInv
<1>2. /\ OnAccess(p, f) = [type |-> p.type, state |-> OnAccess(p, f).state]
      /\ OnAccess(p, f).type = p.type
      /\ p.type = "FIFO" => OnAccess(p, f).state = p.state
      /\ p.type = "LRU" => OnAccess(p, f).state = LruOnAccess(p.state, f)
      /\ p.type = "CLOCK" => OnAccess(p, f).state = ClockOnAccess(p.state, f)
      /\ p.type = "AGING" => OnAccess(p, f).state = AgingOnAccess(p.state, f)
  BY <1>1 DEF OnAccess, PolicyType
<1>4. CASE p.type = "FIFO"
  BY <1>1, <1>2, <1>4 DEF PolicyInv
<1>5. CASE p.type = "LRU"
  BY <1>1, <1>2, <1>5, LruAccesses DEF PolicyInv
<1>6. CASE p.type = "CLOCK"
  BY <1>1, <1>2, <1>6, ClockKept DEF PolicyInv
<1>7. CASE p.type = "AGING"
  BY <1>1, <1>2, <1>7, AgingKept DEF PolicyInv
<1> QED
  BY <1>1, <1>4, <1>5, <1>6, <1>7 DEF PolicyType

LEMMA PolicyEvicts ==
  ASSUME NEW p, NEW L, NEW queue, NEW f \in L, PolicyInv(p, L, queue)
  PROVE  /\ PolicyInv(OnEvict(p, f), L \ {f}, Left(queue, {f}))
         /\ OnEvict(p, f).type = p.type
<1>1. /\ p = [type |-> p.type, state |-> p.state] /\ p.type \in PolicyType
      /\ p.state.loaded = L /\ L \subseteq Frame /\ f \in Frame
  BY DEF PolicyInv
<1>2. /\ OnEvict(p, f) = [type |-> p.type, state |-> OnEvict(p, f).state]
      /\ OnEvict(p, f).type = p.type
      /\ p.type = "FIFO" => OnEvict(p, f).state = FifoOnEvict(p.state, f)
      /\ p.type = "LRU" => OnEvict(p, f).state = LruOnEvict(p.state, f)
      /\ p.type = "CLOCK" => OnEvict(p, f).state = ClockOnEvict(p.state, f)
      /\ p.type = "AGING" => OnEvict(p, f).state = AgingOnEvict(p.state, f)
  BY <1>1 DEF OnEvict, PolicyType
<1>3. L \ {f} \subseteq Frame
  BY <1>1
<1>4. CASE p.type = "FIFO"
  <2>1. FifoInv(p.state, queue) /\ f \in p.state.loaded
    BY <1>1, <1>4 DEF PolicyInv
  <2>2. /\ FifoInv(FifoOnEvict(p.state, f), Left(queue, {f}))
        /\ FifoOnEvict(p.state, f).loaded = p.state.loaded \ {f}
    BY <1>1, <2>1, FifoEvicts
  <2> QED
    BY <1>1, <1>2, <1>3, <1>4, <2>2 DEF PolicyInv
<1>5. CASE p.type = "LRU"
  <2>1. LruInv(p.state, queue) /\ f \in p.state.loaded
    BY <1>1, <1>5 DEF PolicyInv
  <2>2. /\ LruInv(LruOnEvict(p.state, f), Left(queue, {f}))
        /\ LruOnEvict(p.state, f).loaded = p.state.loaded \ {f}
    BY <2>1, LruEvicts
  <2> QED
    BY <1>1, <1>2, <1>3, <1>5, <2>2 DEF PolicyInv
<1>6. CASE p.type = "CLOCK"
  BY <1>1, <1>2, <1>3, <1>6, ClockKept DEF PolicyInv
<1>7. CASE p.type = "AGING"
  BY <1>1, <1>2, <1>3, <1>7, AgingKept DEF PolicyInv
<1> QED
  BY <1>1, <1>4, <1>5, <1>6, <1>7 DEF PolicyType

LEMMA PolicyTicks ==
  ASSUME NEW p, NEW L, NEW queue, PolicyInv(p, L, queue)
  PROVE  PolicyInv(Tick(p), L, queue) /\ Tick(p).type = p.type
<1>1. CASE p.type = "AGING"
  <2>1. /\ Tick(p) = [type |-> p.type, state |-> AgingTick(p.state)]
        /\ AgingInv(p.state) /\ p.state.loaded = L
    BY <1>1 DEF PolicyInv, Tick
  <2> QED
    BY <1>1, <2>1, AgingTicks DEF PolicyInv
<1>2. CASE p.type # "AGING"
  BY <1>2 DEF Tick
<1> QED
  BY <1>1, <1>2

LEMMA PolicyChooses ==
  ASSUME NEW p, NEW L, NEW queue, PolicyInv(p, L, queue)
  PROVE  /\ PolicyInv(Chosen(p), L, queue) /\ Chosen(p).type = p.type
         /\ L # {} => Victim(p) \in L
         /\ L # {} /\ p.type \in {"FIFO", "LRU"} => Victim(p) = Foremost(queue)
<1>1. CASE p.type = "CLOCK"
  <2>1. /\ Chosen(p) = [type |-> p.type, state |-> ClockSweep(p.state)]
        /\ Victim(p) = ClockVictim(p.state)
        /\ ClockInv(p.state) /\ p.state.loaded = L
    BY <1>1 DEF PolicyInv, Chosen, Victim
  <2> QED
    BY <1>1, <2>1, ClockSweeps, ClockGivesUp DEF PolicyInv
<1>2. CASE p.type = "FIFO"
  <2>1. Chosen(p) = p /\ Victim(p) = FifoVictim(p.state)
    BY <1>2 DEF Chosen, Victim
  <2> QED
    BY <1>2, <2>1, FifoGivesUp DEF PolicyInv
<1>3. CASE p.type = "LRU"
  <2>1. Chosen(p) = p /\ Victim(p) = LruVictim(p.state)
    BY <1>3 DEF Chosen, Victim
  <2> QED
    BY <1>3, <2>1, LruGivesUp DEF PolicyInv
<1>4. CASE p.type = "AGING"
  <2>1. Chosen(p) = p /\ Victim(p) = AgingVictim(p.state)
    BY <1>4 DEF Chosen, Victim
  <2> QED
    BY <1>4, <2>1, AgingGivesUp DEF PolicyInv
<1> QED
  BY <1>1, <1>2, <1>3, <1>4 DEF PolicyInv, PolicyType

\* Clock and Aging keep no order.
LEMMA PolicyUnordered ==
  ASSUME NEW p, NEW L, NEW queue, NEW other, PolicyInv(p, L, queue),
         p.type \notin {"FIFO", "LRU"}
  PROVE  PolicyInv(p, L, other)
BY DEF PolicyInv

\* The order of the policies that keep one.
LEMMA PolicyRanked ==
  ASSUME NEW p, NEW L, NEW queue, PolicyInv(p, L, queue), p.type \in {"FIFO", "LRU"}
  PROVE  \E rank : Ranked(queue, L, rank)
<1>1. CASE p.type = "FIFO"
  BY <1>1 DEF PolicyInv, FifoInv
<1>2. CASE p.type = "LRU"
  <2>1. Ranked(queue, L, p.state.last)
    BY <1>2 DEF PolicyInv, LruInv
  <2> QED
    BY <2>1
<1> QED
  BY <1>1, <1>2

-----------------------------------------------------------------------------
(* A release gives up its frames one by one. *)

\* The frames of S below n.
Below(S, n) == {f \in S : f < n}

\* seen has the policy after each of the first m turns of the loop.
Looping(p, S, seen, m) ==
  seen = [n \in 0 .. m |-> IF n = 0 THEN p
                           ELSE IF n - 1 \in S THEN OnEvict(seen[n - 1], n - 1)
                           ELSE seen[n - 1]]

\* The loop is well defined, whatever the functions do.
LEMMA LoopExists ==
  ASSUME NEW p, NEW S, NEW m \in Nat
  PROVE  \E seen : Looping(p, S, seen, m)
<1> DEFINE bad == {k \in Nat : ~ \E seen : Looping(p, S, seen, k)}
<1> SUFFICES ASSUME bad # {} PROVE FALSE
  OBVIOUS
<1> DEFINE k == First(bad)
<1>1. k \in bad /\ \A j \in bad : k <= j
  <2>1. bad \in SUBSET Nat
    OBVIOUS
  <2> HIDE DEF bad
  <2> QED
    BY <2>1, FirstOfNaturals
<1> HIDE DEF k
<1>2. k \in Nat /\ ~ \E seen : Looping(p, S, seen, k)
  BY <1>1
<1>3. k # 0
  <2> SUFFICES ASSUME k = 0 PROVE FALSE
    OBVIOUS
  <2> DEFINE seen == [n \in 0 .. 0 |-> p]
  <2>1. Looping(p, S, seen, 0)
    <3>1. \A n \in 0 .. 0 : n = 0
      OBVIOUS
    <3> QED
      BY <3>1 DEF Looping
  <2> QED
    BY <1>2, <2>1
<1>4. k - 1 \in Nat /\ k - 1 \notin bad
  BY <1>1, <1>2, <1>3
<1>5. PICK before : Looping(p, S, before, k - 1)
  BY <1>4
<1> DEFINE last == IF k - 1 \in S THEN OnEvict(before[k - 1], k - 1) ELSE before[k - 1]
           seen == [n \in 0 .. k |-> IF n = k THEN last ELSE before[n]]
           turn(n) == IF n = 0 THEN p
                      ELSE IF n - 1 \in S THEN OnEvict(seen[n - 1], n - 1)
                      ELSE seen[n - 1]
<1>6. \A n \in 0 .. k - 1 : seen[n] = before[n]
  BY <1>2
<1>7. ASSUME NEW n \in 0 .. k PROVE seen[n] = turn(n)
  <2>1. CASE n = k
    <3>1. seen[n] = last /\ n # 0 /\ seen[n - 1] = before[n - 1]
      BY <1>2, <1>3, <1>6, <2>1
    <3> QED
      BY <2>1, <3>1
  <2>2. CASE n # k
    <3>1. n \in 0 .. k - 1 /\ (n # 0 => n - 1 \in 0 .. k - 1)
      BY <1>2, <2>2
    <3>2. before[n] = IF n = 0 THEN p
                      ELSE IF n - 1 \in S THEN OnEvict(before[n - 1], n - 1)
                      ELSE before[n - 1]
      BY <1>5, <3>1 DEF Looping
    <3>3. n # 0 => seen[n - 1] = before[n - 1]
      BY <1>6, <3>1
    <3> QED
      BY <1>6, <3>1, <3>2, <3>3
  <2> QED
    BY <2>1, <2>2
<1>8. seen = [n \in 0 .. k |-> seen[n]]
  OBVIOUS
<1>9. seen = [n \in 0 .. k |-> turn(n)]
  <2> HIDE DEF turn, seen
  <2> QED
    BY <1>7, <1>8
<1>10. Looping(p, S, seen, k)
  <2> HIDE DEF seen
  <2> QED
    BY <1>9 DEF Looping
<1> QED
  BY <1>2, <1>10

\* After n turns the frames of S below n are gone.
LEMMA LoopEvicts ==
  ASSUME NEW p, NEW L, NEW queue, PolicyInv(p, L, queue), NEW S \in SUBSET L,
         NEW seen, NEW m \in Nat, Looping(p, S, seen, m)
  PROVE  \A n \in 0 .. m :
           /\ PolicyInv(seen[n], L \ Below(S, n), Left(queue, Below(S, n)))
           /\ seen[n].type = p.type
<1> DEFINE Good(n) == /\ PolicyInv(seen[n], L \ Below(S, n), Left(queue, Below(S, n)))
                      /\ seen[n].type = p.type
           bad == {n \in 0 .. m : ~Good(n)}
<1> SUFFICES ASSUME bad # {} PROVE FALSE
  OBVIOUS
<1> DEFINE k == First(bad)
<1>1. k \in bad /\ \A j \in bad : k <= j
  <2>1. bad \in SUBSET Nat
    OBVIOUS
  <2> HIDE DEF bad
  <2> QED
    BY <2>1, FirstOfNaturals
<1> HIDE DEF k
<1>2. k \in 0 .. m /\ ~Good(k)
  BY <1>1
<1>3. S \subseteq Frame /\ \A f \in S : f \in Nat
  BY DEF PolicyInv, Frame
<1>4. CASE k = 0
  <2>1. seen[0] = p
    BY DEF Looping
  <2>2. Below(S, 0) = {}
    BY <1>3 DEF Below
  <2>3. L \ {} = L /\ Left(queue, {}) = queue
    BY DEF Left
  <2>4. Good(0)
    BY <2>1, <2>2, <2>3
  <2> QED
    BY <1>2, <1>4, <2>4
<1>5. CASE k # 0
  <2> DEFINE j == k - 1
             x == seen[j]
  <2>1. j \in 0 .. m /\ j \notin bad /\ k = j + 1 /\ j \in Nat
    <3>1. j \in 0 .. m /\ k = j + 1 /\ j \in Nat /\ k \in Int /\ ~(k <= j)
      BY <1>2, <1>5
    <3> HIDE DEF bad, j
    <3> QED
      BY <1>1, <3>1
  <2>2. PolicyInv(x, L \ Below(S, j), Left(queue, Below(S, j))) /\ x.type = p.type
    BY <2>1
  <2>3. seen[k] = IF j \in S THEN OnEvict(x, j) ELSE x
    BY <1>2, <1>5 DEF Looping
  <2>4. Below(S, k) = Below(S, j) \union {f \in S : f = j}
    BY <1>3, <2>1 DEF Below
  <2>5. CASE j \in S
    <3>1. Below(S, k) = Below(S, j) \union {j} /\ j \in L \ Below(S, j)
      BY <2>1, <2>4, <2>5 DEF Below
    <3> HIDE DEF j, x
    <3>2. /\ PolicyInv(OnEvict(x, j), (L \ Below(S, j)) \ {j},
                       Left(Left(queue, Below(S, j)), {j}))
          /\ OnEvict(x, j).type = x.type
      BY <2>2, <3>1, PolicyEvicts
    <3>3. /\ (L \ Below(S, j)) \ {j} = L \ Below(S, k)
          /\ Left(Left(queue, Below(S, j)), {j}) = Left(queue, Below(S, k))
      BY <3>1, LeftTogether
    <3> QED
      BY <1>2, <2>2, <2>3, <2>5, <3>2, <3>3
  <2>6. CASE j \notin S
    <3>1. Below(S, k) = Below(S, j)
      BY <2>4, <2>6
    <3> QED
      BY <1>2, <2>2, <2>3, <2>6, <3>1
  <2> QED
    BY <2>5, <2>6
<1> QED
  BY <1>4, <1>5

LEMMA PolicyReleases ==
  ASSUME NEW L, NEW queue, PolicyInv(policy, L, queue), NEW S \in SUBSET L
  PROVE  PolicyInv(Evicted(S), L \ S, Left(queue, S)) /\ Evicted(S).type = policy.type
<1> DEFINE seen == CHOOSE g : Looping(policy, S, g, FrameCount)
<1>1. FrameCount \in Nat /\ FrameCount \in 0 .. FrameCount
  OBVIOUS
<1>2. Looping(policy, S, seen, FrameCount)
  BY <1>1, LoopExists
<1>3. Evicted(S) = seen[FrameCount]
  BY DEF Evicted, Looping
<1>4. Below(S, FrameCount) = S
  BY DEF Below, PolicyInv, Frame
<1> HIDE DEF seen
<1>5. \A n \in 0 .. FrameCount :
        /\ PolicyInv(seen[n], L \ Below(S, n), Left(queue, Below(S, n)))
        /\ seen[n].type = policy.type
  BY <1>1, <1>2, LoopEvicts
<1> QED
  BY <1>1, <1>3, <1>4, <1>5

-----------------------------------------------------------------------------
(* Every call keeps the policy and the memory in agreement. *)

Agreed ==
  /\ occupied \subseteq Frame /\ pinned \subseteq occupied
  /\ PolicyInv(policy, occupied, order)

\* What the order is worth to a policy.
LEMMA OrderedInv ==
  ASSUME NEW p, NEW L, NEW queue, PolicyInv(p, L, queue), p.type = policy.type,
         Ordered(queue)
  PROVE  PolicyInv(p, L, order')
<1>1. CASE policy.type \in {"FIFO", "LRU"}
  BY <1>1 DEF Ordered
<1>2. CASE policy.type \notin {"FIFO", "LRU"}
  BY <1>2, PolicyUnordered
<1> QED
  BY <1>1, <1>2

LEMMA AgreedAtInit == Init => Agreed
<1> SUFFICES ASSUME Init PROVE Agreed
  OBVIOUS
<1>1. PICK type \in PolicyType : policy = Create(type)
  BY DEF Init
<1> QED
  BY <1>1, PolicyStarts DEF Init, Agreed

LEMMA LoadKeeps ==
  ASSUME Agreed, NEW f \in Frame, Load(f)
  PROVE  Agreed'
<1>1. f \notin occupied /\ PolicyInv(policy, occupied, order)
  BY DEF Agreed, Load, FirstFree
<1>2. /\ PolicyInv(OnLoad(policy, f), occupied \union {f}, Used(order, f))
      /\ OnLoad(policy, f).type = policy.type
  BY <1>1, PolicyLoads
<1>3. /\ PolicyInv(policy', occupied', Used(order, f))
      /\ policy'.type = policy.type
  BY <1>2, PolicyTicks DEF Load
<1>4. PolicyInv(policy', occupied', order')
  BY <1>3, OrderedInv DEF Load
<1> QED
  BY <1>4 DEF Agreed, Load, Served

\* A failed load leaves the policy and the order as they were.
LEMMA LoadFailsKeeps ==
  ASSUME Agreed, NEW f \in Frame, LoadFails(f)
  PROVE  Agreed'
<1>1. f \notin occupied /\ PolicyInv(policy, occupied, order)
  BY DEF Agreed, LoadFails, FirstFree
<1> DEFINE p == OnLoad(policy, f)
<1>2. /\ PolicyInv(p, occupied \union {f}, Used(order, f))
      /\ p.type = policy.type
  BY <1>1, PolicyLoads
<1>3. policy' = OnEvict(p, f)
  BY DEF LoadFails
<1> HIDE DEF p
<1>4. /\ PolicyInv(OnEvict(p, f), (occupied \union {f}) \ {f}, Left(Used(order, f), {f}))
      /\ OnEvict(p, f).type = p.type
  BY <1>2, PolicyEvicts
<1>5. (occupied \union {f}) \ {f} = occupied
  BY <1>1
<1>6. CASE policy.type \in {"FIFO", "LRU"}
  <2>1. PICK rank : Ranked(order, occupied, rank)
    BY <1>1, <1>6, PolicyRanked
  <2>2. Left(Used(order, f), {f}) = order
    BY <1>1, <2>1, LeftAfterUsed
  <2>3. PolicyInv(policy', occupied, order)
    BY <1>3, <1>4, <1>5, <2>2
  <2> QED
    BY <2>3 DEF Agreed, LoadFails, Served
<1>7. CASE policy.type \notin {"FIFO", "LRU"}
  <2>1. PolicyInv(policy', occupied, order)
    BY <1>2, <1>3, <1>4, <1>5, <1>7, PolicyUnordered
  <2> QED
    BY <2>1 DEF Agreed, LoadFails, Served
<1> QED
  BY <1>6, <1>7

LEMMA CopyKeeps ==
  ASSUME Agreed, NEW f \in Frame, Copy(f)
  PROVE  Agreed'
<1>1. f \notin occupied /\ PolicyInv(policy, occupied, order)
  BY DEF Agreed, Copy, FirstFree
<1> DEFINE p == OnLoad(policy, f)
           L == occupied \union {f}
           queue == IF p.type = "LRU" THEN Used(Used(order, f), f) ELSE Used(order, f)
<1>2. PolicyInv(p, L, Used(order, f)) /\ p.type = policy.type /\ f \in L
  BY <1>1, PolicyLoads
<1>3. policy' = Tick(OnAccess(p, f)) /\ occupied' = L
  BY DEF Copy
<1> HIDE DEF p, L
<1>4. /\ PolicyInv(OnAccess(p, f), L, queue)
      /\ OnAccess(p, f).type = policy.type
  BY <1>2, PolicyAccesses
<1>5. PolicyInv(policy', L, queue) /\ policy'.type = policy.type
  <2> HIDE DEF queue
  <2> QED
    BY <1>3, <1>4, PolicyTicks
<1>6. p.type = "LRU" => Used(Used(order, f), f) = Used(order, f)
  <2> SUFFICES ASSUME p.type = "LRU" PROVE Used(Used(order, f), f) = Used(order, f)
    OBVIOUS
  <2>1. PICK rank : Ranked(order, occupied, rank)
    BY <1>1, <1>2, PolicyRanked
  <2> QED
    BY <2>1, UsedTwice
<1>7. queue = Used(order, f)
  BY <1>6
<1>8. PolicyInv(policy', L, order')
  <2> HIDE DEF queue
  <2> QED
    BY <1>5, <1>7, OrderedInv DEF Copy
<1> QED
  BY <1>2, <1>3, <1>8 DEF Agreed, Copy, Served, PolicyInv

LEMMA AccessKeeps ==
  ASSUME Agreed, NEW f \in Frame, Access(f)
  PROVE  Agreed'
<1> DEFINE queue == IF policy.type = "LRU" THEN Used(order, f) ELSE order
<1>1. f \in occupied /\ PolicyInv(policy, occupied, order) /\ occupied' = occupied
  BY DEF Agreed, Access
<1>2. /\ PolicyInv(OnAccess(policy, f), occupied, queue)
      /\ OnAccess(policy, f).type = policy.type
  BY <1>1, PolicyAccesses
<1>3. Ordered(queue) /\ policy' = Tick(OnAccess(policy, f))
  BY DEF Access
<1> HIDE DEF queue
<1>4. PolicyInv(policy', occupied, queue) /\ policy'.type = policy.type
  BY <1>2, <1>3, PolicyTicks
<1>5. PolicyInv(policy', occupied, order')
  BY <1>3, <1>4, OrderedInv
<1> QED
  BY <1>1, <1>5 DEF Agreed, Access, Served

\* The victim leaves and comes back behind all others.
LEMMA ReusedInv ==
  ASSUME Agreed, NEW f \in occupied
  PROVE  /\ PolicyInv(Reused(Chosen(policy), f), occupied, Used(order, f))
         /\ Reused(Chosen(policy), f).type = policy.type
<1> DEFINE p == Chosen(policy)
           q == OnEvict(p, f)
<1>1. PolicyInv(p, occupied, order) /\ p.type = policy.type
  BY PolicyChooses DEF Agreed
<1> HIDE DEF p
<1>2. PolicyInv(q, occupied \ {f}, Left(order, {f})) /\ q.type = policy.type
  BY <1>1, PolicyEvicts
<1>3. Reused(p, f) = OnLoad(q, f)
  BY DEF Reused
<1> HIDE DEF q
<1>4. f \in Frame /\ f \notin occupied \ {f} /\ (occupied \ {f}) \union {f} = occupied
  BY DEF Agreed
<1>5. /\ PolicyInv(OnLoad(q, f), (occupied \ {f}) \union {f}, Used(Left(order, {f}), f))
      /\ OnLoad(q, f).type = q.type
  BY <1>2, <1>4, PolicyLoads
<1>6. Used(Left(order, {f}), f) = Used(order, f)
  BY UsedAfterLeft
<1>7. PolicyInv(Reused(p, f), occupied, Used(order, f)) /\ Reused(p, f).type = policy.type
  BY <1>2, <1>3, <1>4, <1>5, <1>6
<1> QED
  BY <1>7 DEF p

LEMMA ReplaceKeeps ==
  ASSUME Agreed, Replace \/ ReplaceUnread
  PROVE  Agreed'
<1> DEFINE f == Victim(policy)
           p == Reused(Chosen(policy), f)
<1>1. f \in occupied /\ occupied' = occupied /\ Ordered(Used(order, f))
  BY DEF Replace, ReplaceUnread
<1>2. policy' = Tick(p) \/ policy' = p
  BY DEF Replace, ReplaceUnread
<1>3. PolicyInv(p, occupied, Used(order, f)) /\ p.type = policy.type
  <2> HIDE DEF f
  <2> QED
    BY <1>1, ReusedInv
<1> HIDE DEF f, p
<1>4. PolicyInv(policy', occupied, Used(order, f)) /\ policy'.type = policy.type
  BY <1>2, <1>3, PolicyTicks
<1>5. PolicyInv(policy', occupied, order')
  BY <1>1, <1>4, OrderedInv
<1> QED
  BY <1>1, <1>5 DEF Agreed, Replace, ReplaceUnread, Served

LEMMA RefuseKeeps ==
  ASSUME Agreed, Refuse
  PROVE  Agreed'
<1>1. PolicyInv(policy', occupied, order)
  BY PolicyChooses DEF Agreed, Refuse
<1> QED
  BY <1>1 DEF Agreed, Refuse

LEMMA ReleaseKeeps ==
  ASSUME Agreed, NEW S \in SUBSET occupied, Release(S)
  PROVE  Agreed'
<1>1. PolicyInv(policy', occupied', Left(order, S)) /\ policy'.type = policy.type
  BY PolicyReleases DEF Agreed, Release
<1>2. PolicyInv(policy', occupied', order')
  BY <1>1, OrderedInv DEF Release
<1> QED
  BY <1>2 DEF Agreed, Release, Served

LEMMA AgreedKept == Agreed /\ [Next]_vars => Agreed'
<1> SUFFICES ASSUME Agreed, [Next]_vars PROVE Agreed'
  OBVIOUS
<1>1. CASE UNCHANGED vars
  BY <1>1 DEF Agreed, vars
<1>2. CASE \E f \in Frame : Load(f) \/ LoadFails(f) \/ Copy(f) \/ Access(f)
  BY <1>2, LoadKeeps, LoadFailsKeeps, CopyKeeps, AccessKeeps
<1>3. CASE Replace \/ ReplaceUnread
  BY <1>3, ReplaceKeeps
<1>4. CASE Refuse
  BY <1>4, RefuseKeeps
<1>5. CASE \E S \in SUBSET occupied : Release(S)
  BY <1>5, ReleaseKeeps
<1> QED
  BY <1>1, <1>2, <1>3, <1>4, <1>5 DEF Next

LEMMA AlwaysAgreed == Spec => []Agreed
<1> QED
  BY AgreedAtInit, AgreedKept, PTL DEF Spec

\* The policy knows exactly the frames in use, for every policy, any number of
\* frames and every sequence of calls: virtual_memory.c never gets -1 from it.
THEOREM PolicyAgreesCorrect == Spec => []PolicyAgrees
<1>1. Agreed => PolicyAgrees
  <2> SUFFICES ASSUME Agreed PROVE PolicyAgrees
    OBVIOUS
  <2>1. PolicyInv(policy, occupied, order)
    BY DEF Agreed
  <2>2. occupied # {} => Victim(policy) \in occupied
    BY <2>1, PolicyChooses
  <2> QED
    BY <2>1, <2>2 DEF PolicyInv, PolicyAgrees
<1> QED
  BY <1>1, AlwaysAgreed, PTL

LEMMA VictimIsForemost ==
  ASSUME Agreed, occupied # {}, policy.type = "FIFO" \/ policy.type = "LRU"
  PROVE  Victim(policy) = Foremost(order)
<1>1. PolicyInv(policy, occupied, order)
  BY DEF Agreed
<1>2. policy.type \in {"FIFO", "LRU"}
  OBVIOUS
<1>3. occupied # {} /\ policy.type \in {"FIFO", "LRU"} => Victim(policy) = Foremost(order)
  BY <1>1, PolicyChooses
<1> QED
  BY <1>2, <1>3

\* However frames come and go, FIFO gives up the one that was loaded first, and
\* its array lists all of them in the order they were loaded in.
THEOREM FirstInFirstOutCorrect == Spec => []FirstInFirstOut
<1> DEFINE s == policy.state
<1>1. ASSUME Agreed, policy.type = "FIFO"
      PROVE  /\ Waiting(order) = {s.queue[i] : i \in 0 .. s.size - 1}
             /\ \A i, j \in 0 .. s.size - 1 : <<s.queue[i], s.queue[j]>> \in order <=> i <= j
             /\ order # Nobody => Victim(policy) = Foremost(order)
  <2>1. FifoInv(s, order) /\ s.loaded = occupied /\ PolicyInv(policy, occupied, order)
    BY <1>1 DEF Agreed, PolicyInv
  <2>2. PICK time :
          /\ Ranked(order, occupied, time)
          /\ \A i, j \in 0 .. s.size - 1 : i < j => time[s.queue[i]] < time[s.queue[j]]
    BY <2>1 DEF FifoInv
  <2>3. /\ \A i \in 0 .. s.size - 1 : s.queue[i] \in occupied
        /\ \A f \in occupied : \E i \in 0 .. s.size - 1 : s.queue[i] = f
    BY <2>1 DEF FifoInv
  <2>4. Waiting(order) = occupied
    BY <2>2, RankedWaiting
  <2>5. Waiting(order) = {s.queue[i] : i \in 0 .. s.size - 1}
    <3> HIDE DEF s
    <3> QED
      BY <2>3, <2>4
  <2>6. ASSUME NEW i \in 0 .. s.size - 1, NEW j \in 0 .. s.size - 1
        PROVE  <<s.queue[i], s.queue[j]>> \in order <=> i <= j
    <3>1. <<s.queue[i], s.queue[j]>> \in order <=> time[s.queue[i]] <= time[s.queue[j]]
      BY <2>2, <2>3 DEF Ranked
    <3>2. time[s.queue[i]] \in Int /\ time[s.queue[j]] \in Int
      BY <2>2, <2>3 DEF Ranked
    <3>3. i < j \/ j < i \/ i = j
      OBVIOUS
    <3>4. /\ i < j => time[s.queue[i]] < time[s.queue[j]]
          /\ j < i => time[s.queue[j]] < time[s.queue[i]]
      BY <2>2
    <3>5. i \in Int /\ j \in Int
      OBVIOUS
    <3> HIDE DEF s
    <3> QED
      BY <3>1, <3>2, <3>3, <3>4, <3>5
  <2>7. ASSUME order # Nobody PROVE Victim(policy) = Foremost(order)
    <3>1. occupied # {}
      BY <2>2, <2>7 DEF Ranked, Nobody
    <3> QED
      BY <1>1, <3>1, VictimIsForemost
  <2> QED
    BY <2>5, <2>6, <2>7
<1>2. Agreed => FirstInFirstOut
  BY <1>1 DEF FirstInFirstOut
<1> QED
  BY <1>2, AlwaysAgreed, PTL

\* The stamps of LRU order the frames by their last use, no two being alike, and
\* LRU gives up the one that was left idle longest.
THEOREM LeastRecentlyUsedCorrect == Spec => []LeastRecentlyUsed
<1> DEFINE s == policy.state
<1>1. ASSUME Agreed, policy.type = "LRU"
      PROVE  /\ Waiting(order) = s.loaded
             /\ \A f, g \in s.loaded :
                  /\ <<f, g>> \in order <=> s.last[f] <= s.last[g]
                  /\ s.last[f] = s.last[g] => f = g
             /\ order # Nobody => Victim(policy) = Foremost(order)
  <2>1. Ranked(order, s.loaded, s.last) /\ PolicyInv(policy, s.loaded, order)
    BY <1>1 DEF Agreed, PolicyInv, LruInv
  <2>2. Waiting(order) = s.loaded
    BY <2>1, RankedWaiting
  <2>3. ASSUME order # Nobody PROVE Victim(policy) = Foremost(order)
    <3>1. s.loaded # {}
      BY <2>1, <2>3 DEF Ranked, Nobody
    <3>2. s.loaded = occupied
      BY <1>1 DEF Agreed, PolicyInv
    <3> QED
      BY <1>1, <3>1, <3>2, VictimIsForemost
  <2> QED
    BY <2>1, <2>2, <2>3 DEF Ranked
<1>2. Agreed => LeastRecentlyUsed
  BY <1>1 DEF LeastRecentlyUsed
<1> QED
  BY <1>2, AlwaysAgreed, PTL

-----------------------------------------------------------------------------
(* The loop of Clock. *)

\* The state after i turns, as long as the hand has not stopped before.
Swept(s, i) ==
  [loaded |-> s.loaded,
   referenced |-> s.referenced \ {Under(s, j) : j \in 0 .. i - 1},
   hand |-> Under(s, i)]

ClosedLoop(s, i) ==
  IF s.loaded # {} /\ i <= StopsAfter(s)
    THEN [state |-> Swept(s, i), turning |-> TRUE, victim |-> InvalidFrame]
    ELSE [state |-> ClockSweep(s), turning |-> FALSE, victim |-> ClockVictim(s)]

\* From k steps ahead it is i steps to k + i.
LEMMA UnderShift ==
  ASSUME NEW s, ClockInv(s), NEW k \in 0 .. 2 * FrameCount, NEW i \in 0 .. FrameCount,
         k + i <= 2 * FrameCount
  PROVE  (Under(s, k) + i) % FrameCount = Under(s, k + i)
<1>1. s.hand \in Frame /\ i \in Int /\ k \in Int
  BY DEF ClockInv
<1> DEFINE x == s.hand + k
           y == s.hand + (k + i)
           z == Under(s, k) + i
<1>3. /\ x \in Int /\ 0 <= x /\ x < 3 * FrameCount
      /\ y = x + i /\ y < 3 * FrameCount /\ y \in Int /\ 0 <= y
  BY <1>1 DEF Frame
<1>4. Under(s, k) = x % FrameCount /\ Under(s, k + i) = y % FrameCount
  BY DEF Under
<1>5. z = (x % FrameCount) + i
  BY <1>4
<1> HIDE DEF x, y, z
<1>6. /\ x % FrameCount \in Frame
      /\ x % FrameCount = IF x < FrameCount THEN x
                          ELSE IF x < 2 * FrameCount THEN x - FrameCount
                          ELSE x - 2 * FrameCount
  BY <1>3, Rounds
<1>7. /\ y % FrameCount = IF y < FrameCount THEN y
                          ELSE IF y < 2 * FrameCount THEN y - FrameCount
                          ELSE y - 2 * FrameCount
      /\ y % FrameCount \in Frame
  BY <1>3, Rounds
<1>8. z \in Int /\ 0 <= z /\ z < 2 * FrameCount
  BY <1>1, <1>5, <1>6 DEF Frame
<1>9. z < 3 * FrameCount
  BY <1>8
<1>10. z % FrameCount = IF z < FrameCount THEN z ELSE z - FrameCount
  BY <1>8, <1>9, Rounds
<1>11. z % FrameCount = y % FrameCount
  BY <1>1, <1>3, <1>5, <1>6, <1>7, <1>8, <1>10 DEF Frame
<1> QED
  BY <1>4, <1>11 DEF z

\* Within a round the hand is over each frame once.
LEMMA UnderOnce ==
  ASSUME NEW s, ClockInv(s), NEW i \in 0 .. FrameCount - 1, NEW j \in 0 .. i - 1
  PROVE  Under(s, i) # Under(s, j)
<1>1. i \in 0 .. 2 * FrameCount /\ j \in 0 .. 2 * FrameCount /\ s.hand \in Int
  BY DEF ClockInv, Frame
<1>2. \/ s.hand + i = Under(s, i) \/ s.hand + i = Under(s, i) + FrameCount
      \/ s.hand + i = Under(s, i) + 2 * FrameCount
  BY <1>1, UnderFacts
<1>3. \/ s.hand + j = Under(s, j) \/ s.hand + j = Under(s, j) + FrameCount
      \/ s.hand + j = Under(s, j) + 2 * FrameCount
  BY <1>1, UnderFacts
<1>4. Under(s, i) \in Int /\ Under(s, j) \in Int
  BY <1>1, UnderFacts DEF Frame
<1> QED
  BY <1>1, <1>2, <1>3, <1>4

\* One round later it is over the same frame.
LEMMA UnderAgain ==
  ASSUME NEW s, ClockInv(s), NEW i \in FrameCount .. 2 * FrameCount
  PROVE  Under(s, i) = Under(s, i - FrameCount)
<1> DEFINE j == i - FrameCount
<1>1. i \in 0 .. 2 * FrameCount /\ j \in 0 .. 2 * FrameCount /\ s.hand \in Int
  BY DEF ClockInv, Frame
<1>2. \/ s.hand + i = Under(s, i) \/ s.hand + i = Under(s, i) + FrameCount
      \/ s.hand + i = Under(s, i) + 2 * FrameCount
  BY <1>1, UnderFacts
<1>3. \/ s.hand + j = Under(s, j) \/ s.hand + j = Under(s, j) + FrameCount
      \/ s.hand + j = Under(s, j) + 2 * FrameCount
  BY <1>1, UnderFacts
<1>4. Under(s, i) \in Frame /\ Under(s, j) \in Frame
  BY <1>1, UnderFacts
<1>5. s.hand + i = s.hand + j + FrameCount
  BY <1>1
<1> HIDE DEF j
<1>6. Under(s, i) = Under(s, j)
  BY <1>1, <1>2, <1>3, <1>4, <1>5 DEF Frame
<1> QED
  BY <1>6 DEF j

LEMMA TurnOf ==
  ASSUME NEW L, NEW R, NEW hand, NEW turning, NEW victim
  PROVE  Turn([state |-> [loaded |-> L, referenced |-> R, hand |-> hand],
               turning |-> turning, victim |-> victim]) =
           [state |-> [loaded |-> L, referenced |-> R \ {hand},
                       hand |-> (hand + 1) % FrameCount],
            turning |-> ~(hand \in L \ R),
            victim |-> IF hand \in L \ R THEN hand ELSE InvalidFrame]
BY DEF Turn, Under

LEMMA TurnsAsClosed ==
  ASSUME NEW s, ClockInv(s), s.loaded # {}, NEW i \in 0 .. StopsAfter(s)
  PROVE  Turn(ClosedLoop(s, i)) = ClosedLoop(s, i + 1)
<1> DEFINE d == StopsAfter(s)
           gone(k) == {Under(s, j) : j \in 0 .. k - 1}
           f == Under(s, i)
           found == f \in s.loaded \ (s.referenced \ gone(i))
<1>1. /\ d \in 0 .. 2 * FrameCount - 1
      /\ Stops(s, d)
      /\ \A j \in 0 .. d - 1 : ~Stops(s, j)
  BY ClockStops
<1>2. i \in 0 .. d /\ i \in 0 .. 2 * FrameCount - 1 /\ i \in Int /\ d \in Int
  BY <1>1
<1>3. ClosedLoop(s, i) = [state |-> Swept(s, i), turning |-> TRUE, victim |-> InvalidFrame]
  BY <1>2 DEF ClosedLoop
<1>4. gone(i + 1) = gone(i) \union {f}
  BY <1>2
<1>6. Turn(ClosedLoop(s, i)) =
        [state |-> [loaded |-> s.loaded,
                    referenced |-> (s.referenced \ gone(i)) \ {f},
                    hand |-> Under(s, i + 1)],
         turning |-> ~found,
         victim |-> IF found THEN f ELSE InvalidFrame]
  <2>1. Swept(s, i) = [loaded |-> s.loaded, referenced |-> s.referenced \ gone(i), hand |-> f]
    BY DEF Swept
  <2>2. (f + 1) % FrameCount = Under(s, i + 1)
    <3>1. i \in 0 .. 2 * FrameCount /\ 1 \in 0 .. FrameCount /\ i + 1 <= 2 * FrameCount
      BY <1>2
    <3> QED
      BY <3>1, UnderShift
  <2> HIDE DEF gone, f
  <2> QED
    BY <1>3, <2>1, <2>2, TurnOf
<1>7. (s.referenced \ gone(i)) \ {f} = s.referenced \ gone(i + 1)
  <2> HIDE DEF gone, f
  <2> QED
    BY <1>4
<1>8. CASE i = d
  <2>1. f \in s.loaded
    BY <1>1, <1>8 DEF Stops
  <2>2. f \notin s.referenced \ gone(i)
    <3>1. CASE f \notin s.referenced
      BY <3>1
    <3>2. CASE i >= FrameCount
      <4>1. i - FrameCount \in 0 .. i - 1 /\ i \in FrameCount .. 2 * FrameCount
        BY <1>2, <3>2
      <4>2. f = Under(s, i - FrameCount)
        BY <4>1, UnderAgain
      <4> QED
        BY <4>1, <4>2
    <3> QED
      BY <1>1, <1>8, <3>1, <3>2 DEF Stops
  <2>3. (s.referenced \ gone(i)) \ {f} = s.referenced \ gone(i)
    <3> HIDE DEF gone, f
    <3> QED
      BY <2>2
  <2>4. ClockSweep(s) = [loaded |-> s.loaded,
                         referenced |-> s.referenced \ gone(i),
                         hand |-> Under(s, i + 1)]
    BY <1>8 DEF ClockSweep, ClockInv
  <2>5. ClosedLoop(s, i + 1) =
          [state |-> ClockSweep(s), turning |-> FALSE, victim |-> f]
    <3>1. ~(i + 1 <= d)
      BY <1>2, <1>8
    <3> QED
      BY <1>8, <3>1 DEF ClosedLoop, ClockVictim
  <2>6. found
    BY <2>1, <2>2
  <2> HIDE DEF found, f, gone
  <2> QED
    BY <1>6, <2>3, <2>4, <2>5, <2>6
<1>9. CASE i # d
  <2>1. i \in 0 .. d - 1 /\ i + 1 <= d
    BY <1>2, <1>9
  <2>2. ~Stops(s, i)
    BY <1>1, <2>1
  <2>3. ~found
    <3> SUFFICES ASSUME f \in s.loaded PROVE f \in s.referenced \ gone(i)
      OBVIOUS
    <3>1. f \in s.referenced /\ i \in 0 .. FrameCount - 1
      BY <1>2, <2>2 DEF Stops
    <3>2. \A j \in 0 .. i - 1 : f # Under(s, j)
      BY <3>1, UnderOnce
    <3> QED
      BY <3>1, <3>2
  <2>4. ClosedLoop(s, i + 1) =
          [state |-> Swept(s, i + 1), turning |-> TRUE, victim |-> InvalidFrame]
    BY <2>1 DEF ClosedLoop
  <2>5. Swept(s, i + 1) = [loaded |-> s.loaded, referenced |-> s.referenced \ gone(i + 1),
                           hand |-> Under(s, i + 1)]
    BY DEF Swept
  <2> HIDE DEF found, f, gone
  <2> QED
    BY <1>6, <1>7, <2>3, <2>4, <2>5
<1> QED
  BY <1>8, <1>9

LEMMA LoopAsClosed ==
  ASSUME NEW s, ClockInv(s), NEW m \in Nat
  PROVE  After(s, m) = ClosedLoop(s, m)
<1> DEFINE turns(loop) ==
             loop = [i \in 0 .. m |->
                       IF i = 0 THEN Called(s)
                       ELSE IF loop[i - 1].turning THEN Turn(loop[i - 1]) ELSE loop[i - 1]]
           closed == [i \in 0 .. m |-> ClosedLoop(s, i)]
<1>1. Called(s) = ClosedLoop(s, 0)
  <2>1. CASE s.loaded = {}
    BY <2>1 DEF Called, ClosedLoop, ClockSweep, ClockVictim
  <2>2. CASE s.loaded # {}
    <3>1. 0 <= StopsAfter(s)
      BY <2>2, ClockStops
    <3>2. Under(s, 0) = s.hand
      <4>1. 0 \in 0 .. 2 * FrameCount /\ s.hand \in Frame
        BY DEF ClockInv
      <4>2. Under(s, 0) \in Frame
            /\ (\/ s.hand + 0 = Under(s, 0) \/ s.hand + 0 = Under(s, 0) + FrameCount
                \/ s.hand + 0 = Under(s, 0) + 2 * FrameCount)
        BY <4>1, UnderFacts
      <4> QED
        BY <4>1, <4>2 DEF Frame
    <3>3. Swept(s, 0) = s
      <4>1. {Under(s, j) : j \in 0 .. 0 - 1} = {}
        OBVIOUS
      <4>2. s.referenced \ {Under(s, j) : j \in 0 .. 0 - 1} = s.referenced
        BY <4>1
      <4> QED
        BY <3>2, <4>2 DEF Swept, ClockInv
    <3> QED
      BY <2>2, <3>1, <3>3 DEF Called, ClosedLoop
  <2> QED
    BY <2>1, <2>2
<1>2. ASSUME NEW i \in Nat
      PROVE  ClosedLoop(s, i + 1) = IF ClosedLoop(s, i).turning
                                      THEN Turn(ClosedLoop(s, i)) ELSE ClosedLoop(s, i)
  <2>1. CASE s.loaded # {} /\ i <= StopsAfter(s)
    <3>1. ClosedLoop(s, i).turning
      BY <2>1 DEF ClosedLoop
    <3>2. i \in 0 .. StopsAfter(s)
      BY <2>1, ClockStops
    <3> QED
      BY <2>1, <3>1, <3>2, TurnsAsClosed
  <2>2. CASE ~(s.loaded # {} /\ i <= StopsAfter(s))
    <3>1. ~(s.loaded # {} /\ i + 1 <= StopsAfter(s))
      BY <2>2, ClockStops
    <3>2. ~ClosedLoop(s, i).turning /\ ClosedLoop(s, i + 1) = ClosedLoop(s, i)
      BY <2>2, <3>1 DEF ClosedLoop
    <3> QED
      BY <3>2
  <2> QED
    BY <2>1, <2>2
<1>3. turns(closed)
  <2>1. ASSUME NEW i \in 0 .. m
        PROVE  ClosedLoop(s, i) = IF i = 0 THEN Called(s)
                                  ELSE IF closed[i - 1].turning THEN Turn(closed[i - 1])
                                  ELSE closed[i - 1]
    <3>1. CASE i = 0
      BY <1>1, <3>1
    <3>2. CASE i # 0
      <4>1. i - 1 \in Nat /\ i - 1 \in 0 .. m /\ (i - 1) + 1 = i
        BY <3>2
      <4>2. closed[i - 1] = ClosedLoop(s, i - 1)
        BY <4>1
      <4> HIDE DEF closed
      <4> QED
        BY <1>2, <3>2, <4>1, <4>2
    <3> QED
      BY <3>1, <3>2
  <2> QED
    BY <2>1, Zenon
<1> DEFINE loop == CHOOSE g : turns(g)
<1>4. turns(loop)
  <2> HIDE DEF turns, closed
  <2> QED
    BY <1>3
<1>5. After(s, m) = loop[m]
  BY DEF After
<1> HIDE DEF loop
<1>6. loop[0] = Called(s)
  BY <1>4
<1>7. ASSUME NEW i \in 0 .. m, i # 0
      PROVE  loop[i] = IF loop[i - 1].turning THEN Turn(loop[i - 1]) ELSE loop[i - 1]
  BY <1>4, <1>7
<1> DEFINE bad == {i \in 0 .. m : loop[i] # ClosedLoop(s, i)}
<1>8. bad = {}
  <2> SUFFICES ASSUME bad # {} PROVE FALSE
    OBVIOUS
  <2> DEFINE k == First(bad)
  <2>1. k \in bad /\ \A j \in bad : k <= j
    <3>1. bad \in SUBSET Nat
      OBVIOUS
    <3> HIDE DEF bad
    <3> QED
      BY <3>1, FirstOfNaturals
  <2> HIDE DEF k
  <2>2. k \in 0 .. m /\ loop[k] # ClosedLoop(s, k)
    BY <2>1
  <2>3. k # 0
    BY <1>1, <1>6, <2>2
  <2> DEFINE j == k - 1
  <2>4. j \in 0 .. m /\ j \in Nat /\ j + 1 = k /\ k \in Int /\ ~(k <= j)
    BY <2>2, <2>3
  <2>5. loop[k] = IF loop[j].turning THEN Turn(loop[j]) ELSE loop[j]
    BY <1>7, <2>2, <2>3
  <2>6. j \notin bad
    <3> HIDE DEF bad, j
    <3> QED
      BY <2>1, <2>4
  <2>7. loop[j] = ClosedLoop(s, j)
    BY <2>4, <2>6
  <2> HIDE DEF j
  <2>8. loop[k] = ClosedLoop(s, j + 1)
    BY <1>2, <2>4, <2>5, <2>7
  <2> QED
    BY <2>2, <2>4, <2>8
<1> QED
  BY <1>5, <1>8

\* The while (true) of Clock returns within two rounds of the hand, with the
\* victim and the state of the closed form.
THEOREM LoopEndsInClosedFormCorrect == Spec => []LoopEndsInClosedForm
<1>1. Agreed => LoopEndsInClosedForm
  <2> SUFFICES ASSUME Agreed, policy.type = "CLOCK"
               PROVE  After(policy.state, 2 * FrameCount) =
                        [state |-> ClockSweep(policy.state),
                         turning |-> FALSE,
                         victim |-> ClockVictim(policy.state)]
    BY DEF LoopEndsInClosedForm
  <2> DEFINE s == policy.state
             m == 2 * FrameCount
  <2>1. ClockInv(s) /\ m \in Nat
    BY DEF Agreed, PolicyInv
  <2>2. ~(s.loaded # {} /\ m <= StopsAfter(s))
    BY <2>1, ClockStops
  <2> HIDE DEF s, m
  <2>3. After(s, m) = ClosedLoop(s, m)
    BY <2>1, LoopAsClosed
  <2>4. ClosedLoop(s, m) = [state |-> ClockSweep(s), turning |-> FALSE,
                            victim |-> ClockVictim(s)]
    BY <2>2 DEF ClosedLoop
  <2> QED
    BY <2>3, <2>4 DEF s, m
<1> QED
  BY <1>1, AlwaysAgreed, PTL

-----------------------------------------------------------------------------
(* Refused faults.  While they repeat the hand leaves a trail of frames it has *)
(* passed.  In its first round these are unreferenced, and one pinned frame of  *)
(* the trail stands for each refusal.  From then on no bit is set, the hand     *)
(* goes from frame to frame, and the trail of the second round is all pinned.   *)

\* The m frames behind the hand.
Trail(s, m) == {Under(s, i) : i \in FrameCount - m .. FrameCount - 1}

Patience(s, P, n) ==
  \E m \in 0 .. FrameCount :
    \/ /\ Trail(s, m) \cap s.referenced = {}
       /\ n <= Cardinality(P \cap Trail(s, m))
    \/ /\ s.referenced = {}
       /\ m < FrameCount
       /\ Trail(s, m) \subseteq P
       /\ n <= Cardinality(P) + Cardinality(Trail(s, m))

LEMMA UnderAll ==
  ASSUME NEW s, ClockInv(s), NEW f \in Frame
  PROVE  \E i \in 0 .. FrameCount - 1 : f = Under(s, i)
<1>1. s.hand \in Frame
  BY DEF ClockInv
<1>2. PICK i \in 0 .. FrameCount - 1 : s.hand + i = f \/ s.hand + i = f + FrameCount
  <2>1. CASE s.hand <= f
    <3>1. f - s.hand \in 0 .. FrameCount - 1
      BY <1>1, <2>1 DEF Frame
    <3> QED
      BY <1>1, <3>1 DEF Frame
  <2>2. CASE f < s.hand
    <3>1. f - s.hand + FrameCount \in 0 .. FrameCount - 1
      BY <1>1, <2>2 DEF Frame
    <3> QED
      BY <1>1, <3>1 DEF Frame
  <2> QED
    BY <1>1, <2>1, <2>2 DEF Frame
<1>3. i \in 0 .. 2 * FrameCount
  OBVIOUS
<1>4. /\ Under(s, i) \in Frame
      /\ \/ s.hand + i = Under(s, i) \/ s.hand + i = Under(s, i) + FrameCount
         \/ s.hand + i = Under(s, i) + 2 * FrameCount
  BY <1>3, UnderFacts
<1>5. f = Under(s, i)
  BY <1>1, <1>2, <1>4 DEF Frame
<1> QED
  BY <1>5

\* Where the hand stops when every frame is in use.
LEMMA StopsWhenFull ==
  ASSUME NEW s, ClockInv(s), s.loaded = Frame
  PROVE  /\ StopsAfter(s) \in 0 .. FrameCount
         /\ StopsAfter(s) < FrameCount => Under(s, StopsAfter(s)) \notin s.referenced
         /\ s.referenced = {} => StopsAfter(s) = 0
         /\ ClockVictim(s) = Under(s, StopsAfter(s))
         /\ ClockSweep(s).hand = Under(s, StopsAfter(s) + 1)
         /\ ClockSweep(s).referenced =
              s.referenced \ {Under(s, i) : i \in 0 .. StopsAfter(s) - 1}
<1> DEFINE d == StopsAfter(s)
<1>1. s.loaded # {}
  <2>1. 0 \in Frame
    BY DEF Frame
  <2> QED
    BY <2>1
<1>2. /\ d \in 0 .. 2 * FrameCount - 1 /\ Stops(s, d)
      /\ \A j \in 0 .. d - 1 : ~Stops(s, j)
  BY <1>1, ClockStops
<1>3. \A i \in 0 .. 2 * FrameCount : Under(s, i) \in Frame
  BY UnderFacts
<1>4. Stops(s, FrameCount)
  BY <1>3 DEF Stops
<1>5. d \in 0 .. FrameCount
  BY <1>2, <1>4
<1>6. d < FrameCount => Under(s, d) \notin s.referenced
  BY <1>2, <1>5 DEF Stops
<1>7. s.referenced = {} => d = 0
  <2>1. s.referenced = {} => Stops(s, 0)
    BY <1>3 DEF Stops
  <2> QED
    BY <1>2, <2>1
<1>8. /\ ClockSweep(s).hand = Under(s, d + 1)
      /\ ClockSweep(s).referenced = s.referenced \ {Under(s, i) : i \in 0 .. d - 1}
  BY <1>1 DEF ClockSweep, ClockInv
<1>9. ClockVictim(s) = Under(s, d)
  BY <1>1 DEF ClockVictim
<1> QED
  BY <1>5, <1>6, <1>7, <1>8, <1>9

\* A trail that is not a round yet grows by the frames that the hand passes.
LEMMA TrailGrows ==
  ASSUME NEW s, ClockInv(s), s.loaded = Frame, NEW m \in 0 .. FrameCount,
         StopsAfter(s) + m < FrameCount
  PROVE  /\ Trail(ClockSweep(s), m + StopsAfter(s) + 1) =
              Trail(s, m) \union {Under(s, i) : i \in 0 .. StopsAfter(s)}
         /\ Under(s, StopsAfter(s)) \notin Trail(s, m)
<1> DEFINE d == StopsAfter(s)
           t == ClockSweep(s)
           passed == {Under(s, i) : i \in 0 .. d}
           n == m + d + 1
<1>1. d \in 0 .. FrameCount - 1 /\ d \in Int /\ m \in Int /\ d + m < FrameCount
      /\ n \in Int /\ n = m + d + 1
  BY StopsWhenFull
<1>2. t.hand = Under(s, d + 1)
  BY StopsWhenFull
<1> HIDE DEF d, t, n
<1>3. ASSUME NEW i \in 0 .. FrameCount - 1 PROVE Under(t, i) = Under(s, d + 1 + i)
  <2>1. d + 1 \in 0 .. 2 * FrameCount /\ i \in 0 .. FrameCount
        /\ (d + 1) + i <= 2 * FrameCount
    BY <1>1
  <2>2. (Under(s, d + 1) + i) % FrameCount = Under(s, (d + 1) + i)
    BY <2>1, UnderShift
  <2> QED
    BY <1>2, <2>2 DEF Under
<1>4. ASSUME NEW f \in Trail(t, n) PROVE f \in Trail(s, m) \union passed
  <2>1. PICK i \in FrameCount - n .. FrameCount - 1 : f = Under(t, i)
    BY DEF Trail
  <2> DEFINE k == d + 1 + i
  <2>2. i \in 0 .. FrameCount - 1 /\ k \in FrameCount - m .. FrameCount + d /\ k \in Int
    BY <1>1
  <2>3. f = Under(s, k)
    BY <1>3, <2>1, <2>2
  <2> HIDE DEF k
  <2>4. CASE k < FrameCount
    <3>1. k \in FrameCount - m .. FrameCount - 1
      BY <1>1, <2>2, <2>4
    <3> QED
      BY <2>3, <3>1 DEF Trail
  <2>5. CASE k >= FrameCount
    <3>1. k \in FrameCount .. 2 * FrameCount /\ k - FrameCount \in 0 .. d
      BY <1>1, <2>2, <2>5
    <3>2. f = Under(s, k - FrameCount)
      BY <2>3, <3>1, UnderAgain
    <3> QED
      BY <3>1, <3>2
  <2> QED
    BY <2>2, <2>4, <2>5
<1>5. ASSUME NEW f \in Trail(s, m) PROVE f \in Trail(t, n)
  <2>1. PICK k \in FrameCount - m .. FrameCount - 1 : f = Under(s, k)
    BY DEF Trail
  <2> DEFINE i == k - d - 1
  <2>2. i \in FrameCount - n .. FrameCount - 1 /\ i \in 0 .. FrameCount - 1 /\ d + 1 + i = k
    BY <1>1
  <2> HIDE DEF i
  <2>3. f = Under(t, i)
    BY <1>3, <2>1, <2>2
  <2> QED
    BY <2>2, <2>3 DEF Trail
<1>6. ASSUME NEW f \in passed PROVE f \in Trail(t, n)
  <2>1. PICK k \in 0 .. d : f = Under(s, k)
    OBVIOUS
  <2> DEFINE i == FrameCount + k - d - 1
  <2>2. /\ i \in FrameCount - n .. FrameCount - 1 /\ i \in 0 .. FrameCount - 1
        /\ d + 1 + i = FrameCount + k
        /\ FrameCount + k \in FrameCount .. 2 * FrameCount
        /\ (FrameCount + k) - FrameCount = k
    BY <1>1
  <2> HIDE DEF i
  <2>3. Under(t, i) = Under(s, FrameCount + k)
    BY <1>3, <2>2
  <2>4. Under(s, FrameCount + k) = Under(s, k)
    BY <2>2, UnderAgain
  <2> QED
    BY <2>1, <2>2, <2>3, <2>4 DEF Trail
<1>7. Under(s, d) \notin Trail(s, m)
  <2> SUFFICES ASSUME NEW k \in FrameCount - m .. FrameCount - 1
               PROVE  Under(s, k) # Under(s, d)
    BY DEF Trail
  <2>1. k \in 0 .. FrameCount - 1 /\ d \in 0 .. k - 1
    BY <1>1
  <2> QED
    BY <2>1, UnderOnce
<1>8. Trail(t, n) = Trail(s, m) \union passed
  <2> HIDE DEF passed
  <2> QED
    BY <1>4, <1>5, <1>6
<1> QED
  BY <1>7, <1>8 DEF d, t, n

LEMMA PatienceKept ==
  ASSUME NEW s, ClockInv(s), s.loaded = Frame, NEW P \in SUBSET Frame, P # Frame,
         NEW n \in Nat, Patience(s, P, n), ClockVictim(s) \in P
  PROVE  Patience(ClockSweep(s), P, n + 1)
<1> DEFINE d == StopsAfter(s)
           v == Under(s, d)
           t == ClockSweep(s)
           cleared == {Under(s, i) : i \in 0 .. d - 1}
           passed == {Under(s, i) : i \in 0 .. d}
<1>1. /\ d \in 0 .. FrameCount /\ d \in Int
      /\ d < FrameCount => v \notin s.referenced
      /\ s.referenced = {} => d = 0
      /\ v \in P
      /\ t.hand = Under(s, d + 1)
      /\ t.referenced = s.referenced \ cleared
  BY StopsWhenFull
<1>2. passed = cleared \union {v}
  BY <1>1
<1>3. v \in Frame /\ s.referenced \subseteq Frame
  BY <1>1 DEF ClockInv
<1>4. IsFiniteSet(Frame) /\ IsFiniteSet(P)
  <2>1. IsFiniteSet(Frame)
    BY FS_Interval DEF Frame
  <2> QED
    BY <2>1, FS_Subset
<1>5. ASSUME NEW m \in 0 .. FrameCount
      PROVE  Trail(s, m) \subseteq Frame /\ IsFiniteSet(Trail(s, m))
  <2>1. ASSUME NEW i \in FrameCount - m .. FrameCount - 1 PROVE Under(s, i) \in Frame
    <3>1. i \in 0 .. 2 * FrameCount
      OBVIOUS
    <3> QED
      BY <3>1, UnderFacts
  <2>2. Trail(s, m) \subseteq Frame
    BY <2>1 DEF Trail
  <2> QED
    BY <1>4, <2>2, FS_Subset
<1>6. PICK m \in 0 .. FrameCount :
        \/ /\ Trail(s, m) \cap s.referenced = {}
           /\ n <= Cardinality(P \cap Trail(s, m))
        \/ /\ s.referenced = {}
           /\ m < FrameCount
           /\ Trail(s, m) \subseteq P
           /\ n <= Cardinality(P) + Cardinality(Trail(s, m))
  BY DEF Patience
<1>7. /\ IsFiniteSet(Trail(s, m)) /\ IsFiniteSet(P \cap Trail(s, m))
      /\ Cardinality(Trail(s, m)) \in Nat /\ Cardinality(P) \in Nat
      /\ Cardinality(P \cap Trail(s, m)) \in Nat
      /\ Cardinality(P \cap Trail(s, m)) <= Cardinality(P)
  <2>1. IsFiniteSet(Trail(s, m))
    BY <1>5
  <2>2. P \cap Trail(s, m) \subseteq P
    OBVIOUS
  <2>3. /\ IsFiniteSet(P \cap Trail(s, m))
        /\ Cardinality(P \cap Trail(s, m)) <= Cardinality(P)
    BY <1>4, <2>2, FS_Subset
  <2> QED
    BY <1>4, <2>1, <2>3, FS_CardinalityType
\* Every frame is in the trail or ahead of the hand.
<1>8. ASSUME d + m < FrameCount, Trail(s, m) \cap s.referenced = {},
             n <= Cardinality(P \cap Trail(s, m))
      PROVE  Patience(t, P, n + 1)
  <2> DEFINE k == m + d + 1
  <2>1. Trail(t, k) = Trail(s, m) \union passed /\ v \notin Trail(s, m)
    BY <1>8, TrailGrows
  <2>2. k \in 0 .. FrameCount
    BY <1>1, <1>8
  <2> HIDE DEF d, v, t, cleared, passed, k
  <2>3. Trail(t, k) \cap t.referenced = {}
    <3>1. v \notin s.referenced
      BY <1>1, <1>8
    <3> QED
      BY <1>1, <1>2, <1>8, <2>1, <3>1
  <2>4. P \cap Trail(s, m) \subseteq P /\ v \notin P \cap Trail(s, m)
    BY <2>1
  <2>5. Cardinality((P \cap Trail(s, m)) \union {v}) = Cardinality(P \cap Trail(s, m)) + 1
    BY <1>7, <2>4, FS_AddElement
  <2>6. /\ (P \cap Trail(s, m)) \union {v} \subseteq P \cap Trail(t, k)
        /\ IsFiniteSet(P \cap Trail(t, k))
    <3>1. P \cap Trail(t, k) \subseteq P
      OBVIOUS
    <3> QED
      BY <1>1, <1>2, <1>4, <2>1, <3>1, FS_Subset
  <2>7. /\ Cardinality((P \cap Trail(s, m)) \union {v}) <= Cardinality(P \cap Trail(t, k))
        /\ Cardinality(P \cap Trail(t, k)) \in Nat
    BY <2>6, FS_Subset, FS_CardinalityType
  <2>8. n + 1 <= Cardinality(P \cap Trail(t, k))
    BY <1>7, <1>8, <2>5, <2>7
  <2> QED
    BY <2>2, <2>3, <2>8 DEF Patience
<1>9. ASSUME d + m >= FrameCount, Trail(s, m) \cap s.referenced = {},
             n <= Cardinality(P \cap Trail(s, m))
      PROVE  Patience(t, P, n + 1)
  <2>1. t.referenced = {}
    <3> SUFFICES ASSUME NEW f \in s.referenced, f \notin cleared PROVE FALSE
      BY <1>1
    <3>1. PICK i \in 0 .. FrameCount - 1 : f = Under(s, i)
      BY <1>3, UnderAll
    <3>2. i >= d
      BY <1>1, <3>1
    <3>3. i \in FrameCount - m .. FrameCount - 1
      BY <1>1, <1>9, <3>2
    <3>4. f \in Trail(s, m)
      BY <3>1, <3>3 DEF Trail
    <3> QED
      BY <1>9, <3>4
  <2>2. Trail(t, 1) = {v}
    <3> DEFINE last == FrameCount - 1
    <3>1. (Under(s, d + 1) + last) % FrameCount = Under(s, (d + 1) + last)
      <4>1. d + 1 \in 0 .. 2 * FrameCount /\ last \in 0 .. FrameCount
            /\ (d + 1) + last <= 2 * FrameCount
        BY <1>1
      <4> HIDE DEF d, last
      <4> QED
        BY <4>1, UnderShift
    <3>2. (d + 1) + last = d + FrameCount /\ d + FrameCount \in FrameCount .. 2 * FrameCount
          /\ (d + FrameCount) - FrameCount = d
      BY <1>1
    <3>3. Under(s, d + FrameCount) = v
      BY <3>2, UnderAgain
    <3>4. Under(t, last) = v
      BY <1>1, <3>1, <3>2, <3>3 DEF Under
    <3>5. FrameCount - 1 .. FrameCount - 1 = {FrameCount - 1}
      OBVIOUS
    <3> HIDE DEF v, t
    <3> QED
      BY <3>4, <3>5 DEF Trail
  <2>3. 1 < FrameCount
    <3> SUFFICES ASSUME FrameCount = 1 PROVE FALSE
      OBVIOUS
    <3>1. Frame = {0}
      BY DEF Frame
    <3> HIDE DEF v
    <3> QED
      BY <1>1, <1>3, <3>1
  <2>4. Cardinality({v}) = 1
    BY FS_Singleton
  <2> HIDE DEF d, v, t, cleared, passed
  <2>5. n + 1 <= Cardinality(P) + Cardinality(Trail(t, 1))
    BY <1>7, <1>9, <2>2, <2>4
  <2>6. Trail(t, 1) \subseteq P /\ 1 \in 0 .. FrameCount
    BY <1>1, <2>2
  <2> QED
    BY <2>1, <2>3, <2>5, <2>6 DEF Patience
<1>10. ASSUME s.referenced = {}, m < FrameCount, Trail(s, m) \subseteq P,
              n <= Cardinality(P) + Cardinality(Trail(s, m))
       PROVE  Patience(t, P, n + 1)
  <2> DEFINE k == m + d + 1
  <2>1. d = 0 /\ d + m < FrameCount /\ k = m + 1 /\ k \in 0 .. FrameCount
    BY <1>1, <1>10
  <2>2. Trail(t, k) = Trail(s, m) \union passed /\ v \notin Trail(s, m)
    BY <2>1, TrailGrows
  <2>3. cleared = {}
    BY <2>1
  <2> HIDE DEF d, v, t, cleared, passed, k
  <2>4. Trail(t, k) = Trail(s, m) \union {v}
    BY <1>2, <2>2, <2>3
  <2>5. Cardinality(Trail(t, k)) = Cardinality(Trail(s, m)) + 1
    BY <1>7, <2>2, <2>4, FS_AddElement
  <2>6. Trail(t, k) \subseteq P
    BY <1>1, <1>10, <2>4
  <2>7. k < FrameCount
    <3> SUFFICES ASSUME k = FrameCount PROVE FALSE
      BY <2>1
    <3>1. ClockInv(t)
      BY ClockSweeps DEF t
    <3>2. PICK f \in Frame : f \notin P
      OBVIOUS
    <3>3. PICK i \in 0 .. FrameCount - 1 : f = Under(t, i)
      BY <3>1, UnderAll
    <3>4. FrameCount - k .. FrameCount - 1 = 0 .. FrameCount - 1
      OBVIOUS
    <3> QED
      BY <2>6, <3>2, <3>3, <3>4 DEF Trail
  <2>8. n + 1 <= Cardinality(P) + Cardinality(Trail(t, k))
    BY <1>7, <1>10, <2>5
  <2>9. t.referenced = {}
    BY <1>1, <1>10
  <2> QED
    BY <2>1, <2>6, <2>7, <2>8, <2>9 DEF Patience
<1>11. d + m < FrameCount \/ d + m >= FrameCount
  BY <1>1
<1> QED
  BY <1>6, <1>8, <1>9, <1>10, <1>11

RetryInv ==
  /\ refusals \in Nat
  /\ policy.type = "CLOCK" /\ Full /\ pinned # occupied
       => Patience(policy.state, pinned, refusals)

LEMMA PatienceAtFirst == ASSUME NEW s, ClockInv(s), NEW P PROVE Patience(s, P, 0)
<1>1. Trail(s, 0) = {}
  BY DEF Trail
<1>2. P \cap Trail(s, 0) = {} /\ Cardinality({}) = 0 /\ 0 \in 0 .. FrameCount
  BY <1>1, FS_EmptySet
<1> QED
  BY <1>1, <1>2 DEF Patience

LEMMA RetryKept == Agreed /\ RetryInv /\ [Next]_vars => RetryInv'
<1> SUFFICES ASSUME Agreed, RetryInv, [Next]_vars PROVE RetryInv'
  OBVIOUS
<1>0. Agreed'
  BY AgreedKept
<1>1. CASE UNCHANGED vars
  BY <1>1 DEF RetryInv, Full, vars
<1>2. CASE Served
  <2>1. policy'.type = "CLOCK" => ClockInv(policy'.state)
    BY <1>0 DEF Agreed, PolicyInv
  <2> SUFFICES ASSUME policy'.type = "CLOCK"
               PROVE  Patience(policy'.state, pinned', 0)
    BY <1>2 DEF RetryInv, Served, Full
  <2> QED
    BY <2>1, PatienceAtFirst
<1>3. CASE Refuse
  <2>1. policy' = Chosen(policy) /\ UNCHANGED <<occupied, pinned>> /\ Full
    BY <1>3 DEF Refuse
  <2>2. PolicyInv(policy, occupied, order) /\ policy'.type = policy.type
    BY <2>1, PolicyChooses DEF Agreed
  <2>3. refusals' \in Nat
    BY <1>3 DEF Refuse, RetryInv
  <2>4. ASSUME policy.type = "CLOCK", pinned # occupied
        PROVE  Patience(policy'.state, pinned', refusals')
    <3>1. ClockInv(policy.state) /\ policy.state.loaded = Frame
      BY <2>1, <2>2, <2>4 DEF PolicyInv, Full
    <3>2. /\ Patience(policy.state, pinned, refusals)
          /\ pinned \in SUBSET Frame /\ pinned # Frame /\ refusals \in Nat
      BY <2>1, <2>4 DEF RetryInv, Agreed, Full
    <3>3. Victim(policy) = ClockVictim(policy.state)
      BY <2>4 DEF Victim
    <3>4. ClockVictim(policy.state) \in pinned /\ refusals' = refusals + 1
      BY <1>3, <2>4, <3>3 DEF Refuse
    <3>5. policy'.state = ClockSweep(policy.state)
      <4>1. policy = [type |-> policy.type, state |-> policy.state]
        BY <2>2 DEF PolicyInv
      <4> QED
        BY <2>1, <2>4, <4>1 DEF Chosen
    <3>6. Patience(ClockSweep(policy.state), pinned, refusals + 1)
      BY <3>1, <3>2, <3>4, PatienceKept
    <3> QED
      BY <2>1, <3>4, <3>5, <3>6
  <2> QED
    BY <2>1, <2>2, <2>3, <2>4 DEF RetryInv, Full
<1> QED
  BY <1>1, <1>2, <1>3
  DEF Next, Load, LoadFails, Copy, Access, Replace, ReplaceUnread, Release

\* As long as some frame can be taken, retrying gets to it: Clock has at most two
\* victims refused for each frame that cannot.
THEOREM RetriesReachAVictimCorrect == Spec => []RetriesReachAVictim
<1>1. Init => RetryInv
  <2> SUFFICES ASSUME Init PROVE RetryInv
    OBVIOUS
  <2>1. policy.type = "CLOCK" => ClockInv(policy.state)
    BY AgreedAtInit DEF Agreed, PolicyInv
  <2>2. refusals = 0
    BY DEF Init
  <2> QED
    BY <2>1, <2>2, PatienceAtFirst DEF RetryInv
<1>2. Agreed /\ RetryInv => RetriesReachAVictim
  <2> SUFFICES ASSUME Agreed, RetryInv, policy.type = "CLOCK", Full, pinned # occupied
               PROVE  refusals <= 2 * Cardinality(pinned)
    BY DEF RetriesReachAVictim
  <2>1. IsFiniteSet(pinned) /\ Cardinality(pinned) \in Nat
    <3>1. IsFiniteSet(Frame)
      BY FS_Interval DEF Frame
    <3> QED
      BY <3>1, FS_Subset, FS_CardinalityType DEF Agreed
  <2>2. PICK m \in 0 .. FrameCount :
          \/ refusals <= Cardinality(pinned \cap Trail(policy.state, m))
          \/ /\ Trail(policy.state, m) \subseteq pinned
             /\ refusals <= Cardinality(pinned) + Cardinality(Trail(policy.state, m))
    BY DEF RetryInv, Patience
  <2> DEFINE T == Trail(policy.state, m)
  <2>3. refusals \in Nat
    BY DEF RetryInv
  <2> HIDE DEF T
  <2>4. CASE refusals <= Cardinality(pinned \cap T)
    <3>1. pinned \cap T \subseteq pinned
      OBVIOUS
    <3>2. /\ Cardinality(pinned \cap T) <= Cardinality(pinned)
          /\ Cardinality(pinned \cap T) \in Nat
      BY <2>1, <3>1, FS_Subset, FS_CardinalityType
    <3> QED
      BY <2>1, <2>3, <2>4, <3>2
  <2>5. CASE T \subseteq pinned /\ refusals <= Cardinality(pinned) + Cardinality(T)
    <3>1. Cardinality(T) <= Cardinality(pinned) /\ Cardinality(T) \in Nat
      BY <2>1, <2>5, FS_Subset, FS_CardinalityType
    <3> QED
      BY <2>1, <2>3, <2>5, <3>1
  <2> QED
    BY <2>2, <2>4, <2>5 DEF T
<1> QED
  BY <1>1, <1>2, RetryKept, AlwaysAgreed, PTL DEF Spec

-----------------------------------------------------------------------------
(* The age of a frame is its past in binary, the last tick at the left end. *)

Cleared(history, S) == [i \in DOMAIN history |-> history[i] \ S]

\* The ages of the frames of L lie between the powers of two that the history of
\* n ticks gives; used has the frames used since.
Aged(s, L, used, history, n) ==
  /\ AgingInv(s) /\ s.loaded = L
  /\ s.referenced = used /\ used \subseteq L
  /\ history \in [1 .. n -> SUBSET L]
  /\ \A f \in L, i \in 1 .. n : f \in history[i] => 2 ^ (AgeBits - i) <= s.age[f]
  /\ \A f \in L, k \in 0 .. n :
       (\A i \in 1 .. k : f \notin history[i]) => s.age[f] < 2 ^ (AgeBits - k)

LEMMA AgedPowers ==
  ASSUME NEW k \in 0 .. Window
  PROVE  2 ^ (AgeBits - k) \in Nat /\ 2 ^ (AgeBits - k) >= 1
<1>1. AgeBits - k \in Nat
  BY AgeBitsAssumption, WindowAssumption
<1> QED
  BY <1>1, Powers

LEMMA AgedAtFirst == Aged(AgingStart, {}, {}, <<>>, 0)
<1>1. AgingStart.loaded = {} /\ AgingStart.referenced = {}
  BY DEF AgingStart
<1>2. <<>> \in [1 .. 0 -> SUBSET {}]
  OBVIOUS
<1> QED
  BY <1>1, <1>2, AgingStarts DEF Aged

LEMMA AgedLoad ==
  ASSUME NEW s, NEW L, NEW used, NEW history, NEW n \in 0 .. Window,
         Aged(s, L, used, history, n), NEW f \in Frame, f \notin L
  PROVE  Aged(AgingOnLoad(s, f), L \union {f}, used \union {f}, history, n)
<1> DEFINE t == AgingOnLoad(s, f)
<1>1. AgingInv(s) /\ s.loaded = L /\ s.referenced = used
  BY DEF Aged
<1>2. AgingInv(t) /\ t.loaded = L \union {f} /\ t.referenced = used \union {f}
  BY <1>1, AgingKept DEF AgingOnLoad
<1>3. t.age[f] = 0 /\ L \subseteq Frame /\ \A g \in L : t.age[g] = s.age[g]
  BY <1>1 DEF AgingOnLoad, AgingInv
<1> HIDE DEF t
<1>4. history \in [1 .. n -> SUBSET L]
  BY DEF Aged
<1>5. history \in [1 .. n -> SUBSET (L \union {f})] /\ \A i \in 1 .. n : f \notin history[i]
  BY <1>4
<1>6. ASSUME NEW g \in L \union {f}, NEW i \in 1 .. n, g \in history[i]
      PROVE  2 ^ (AgeBits - i) <= t.age[g]
  <2>1. g \in L
    BY <1>5, <1>6
  <2> QED
    BY <1>3, <1>6, <2>1 DEF Aged
<1>7. ASSUME NEW g \in L \union {f}, NEW k \in 0 .. n, \A i \in 1 .. k : g \notin history[i]
      PROVE  t.age[g] < 2 ^ (AgeBits - k)
  <2>1. CASE g = f
    <3>1. k \in 0 .. Window
      BY WindowAssumption
    <3>2. 2 ^ (AgeBits - k) \in Nat /\ 2 ^ (AgeBits - k) >= 1
      BY <3>1, AgedPowers
    <3> QED
      BY <1>3, <2>1, <3>2
  <2>2. CASE g \in L
    BY <1>3, <1>7, <2>2 DEF Aged
  <2> QED
    BY <2>1, <2>2
<1>8. used \union {f} \subseteq L \union {f}
  BY DEF Aged
<1> QED
  BY <1>2, <1>5, <1>6, <1>7, <1>8 DEF Aged, t

LEMMA AgedAccess ==
  ASSUME NEW s, NEW L, NEW used, NEW history, NEW n \in 0 .. Window,
         Aged(s, L, used, history, n), NEW f \in L
  PROVE  Aged(AgingOnAccess(s, f), L, used \union {f}, history, n)
<1> DEFINE t == AgingOnAccess(s, f)
<1>1. AgingInv(s) /\ s.loaded = L /\ s.referenced = used /\ f \in Frame
  BY DEF Aged, AgingInv
<1>2. AgingInv(t) /\ t.loaded = L
  BY <1>1, AgingKept
<1>3. t.referenced = used \union {f} /\ t.age = s.age
  BY <1>1 DEF AgingOnAccess, AgingInv
<1> HIDE DEF t
<1> QED
  BY <1>2, <1>3 DEF Aged, t

LEMMA AgedEvict ==
  ASSUME NEW s, NEW L, NEW used, NEW history, NEW n \in 0 .. Window,
         Aged(s, L, used, history, n), NEW f \in L
  PROVE  Aged(AgingOnEvict(s, f), L \ {f}, used \ {f}, Cleared(history, {f}), n)
<1> DEFINE t == AgingOnEvict(s, f)
           rest == Cleared(history, {f})
<1>1. AgingInv(s) /\ s.loaded = L /\ s.referenced = used /\ f \in Frame /\ used \subseteq L
  BY DEF Aged, AgingInv
<1>2. AgingInv(t) /\ t.loaded = L \ {f}
  BY <1>1, AgingKept
<1>3. t.referenced = used \ {f} /\ \A g \in L \ {f} : t.age[g] = s.age[g]
  BY <1>1 DEF AgingOnEvict, AgingInv
<1>4. history \in [1 .. n -> SUBSET L]
  BY DEF Aged
<1>5. /\ rest \in [1 .. n -> SUBSET (L \ {f})]
      /\ \A g \in L \ {f}, i \in 1 .. n : g \in rest[i] <=> g \in history[i]
  BY <1>4 DEF Cleared
<1> HIDE DEF t, rest
<1>6. ASSUME NEW g \in L \ {f}, NEW i \in 1 .. n, g \in rest[i]
      PROVE  2 ^ (AgeBits - i) <= t.age[g]
  BY <1>3, <1>5, <1>6 DEF Aged
<1>7. ASSUME NEW g \in L \ {f}, NEW k \in 0 .. n, \A i \in 1 .. k : g \notin rest[i]
      PROVE  t.age[g] < 2 ^ (AgeBits - k)
  <2>1. \A i \in 1 .. k : g \notin history[i]
    BY <1>5, <1>7
  <2> QED
    BY <1>3, <2>1 DEF Aged
<1>8. used \ {f} \subseteq L \ {f}
  BY <1>1
<1> QED
  BY <1>2, <1>3, <1>5, <1>6, <1>7, <1>8 DEF Aged, t, rest

\* A tick: what was used comes first, and every age is halved.
LEMMA AgedTick ==
  ASSUME NEW s, NEW L, NEW used, NEW history, NEW n \in 0 .. Window,
         Aged(s, L, used, history, n),
         NEW later, NEW m \in 0 .. Window, m <= n + 1,
         later \in [1 .. m -> SUBSET L],
         \A i \in 1 .. m : later[i] = IF i = 1 THEN used ELSE history[i - 1]
  PROVE  Aged(AgingTick(s), L, {}, later, m)
<1> DEFINE t == AgingTick(s)
           top == 2 ^ (AgeBits - 1)
           half(f) == s.age[f] \div 2
<1>1. /\ AgingInv(s) /\ s.loaded = L /\ s.referenced = used /\ L \subseteq Frame
      /\ s.age \in [Frame -> Nat] /\ used \subseteq L
  BY DEF Aged, AgingInv
<1>2. AgingInv(t) /\ t.loaded = L
  BY <1>1, AgingTicks
<1>3. t.referenced = {}
  BY <1>1 DEF AgingTick
<1>4. \A f \in L : t.age[f] = half(f) + (IF f \in used THEN top ELSE 0)
  BY <1>1 DEF AgingTick
<1>5. AgeBits \in Nat /\ AgeBits >= 1 /\ Window \in Nat /\ Window <= AgeBits
  BY AgeBitsAssumption, WindowAssumption
<1>6. top \in Nat
  BY <1>5, Powers
<1>7. \A f \in L : s.age[f] \in Nat
  BY <1>1
<1>8. ASSUME NEW f \in L, NEW i \in 1 .. m, f \in later[i]
      PROVE  2 ^ (AgeBits - i) <= t.age[f]
  <2>1. half(f) \in Nat
    BY <1>7
  <2>2. CASE i = 1
    <3>1. f \in used
      BY <1>8, <2>2
    <3>2. t.age[f] = half(f) + top
      BY <1>4, <3>1
    <3> HIDE DEF half, t, top
    <3>3. top <= t.age[f]
      BY <1>6, <2>1, <3>2
    <3> QED
      BY <2>2, <3>3 DEF top
  <2>3. CASE i # 1
    <3> DEFINE j == i - 1
               p == 2 ^ (AgeBits - i)
    <3>1. j \in 1 .. n /\ f \in history[j] /\ AgeBits - i \in Nat
          /\ AgeBits - j = (AgeBits - i) + 1
      BY <1>5, <1>8, <2>3
    <3>2. 2 ^ (AgeBits - j) <= s.age[f]
      BY <3>1 DEF Aged
    <3>3. 2 ^ (AgeBits - j) = 2 * p /\ p \in Nat
      BY <3>1, Doubled, Powers
    <3> HIDE DEF p, j, t, top
    <3>4. p <= half(f)
      BY <1>7, <3>2, <3>3
    <3> HIDE DEF half
    <3>5. p <= t.age[f]
      BY <1>4, <1>6, <2>1, <3>3, <3>4
    <3> QED
      BY <3>5 DEF p
  <2> QED
    BY <2>2, <2>3
<1>9. ASSUME NEW f \in L, NEW k \in 0 .. m, \A i \in 1 .. k : f \notin later[i]
      PROVE  t.age[f] < 2 ^ (AgeBits - k)
  <2>1. half(f) \in Nat
    BY <1>7
  <2>2. CASE k = 0
    <3>1. 0 \in 0 .. n /\ \A i \in 1 .. 0 : f \notin history[i]
      OBVIOUS
    <3>2. s.age[f] < 2 ^ (AgeBits - 0)
      BY <3>1 DEF Aged
    <3>3. 2 ^ (AgeBits - 0) = 2 * top
      <4>1. AgeBits - 1 \in Nat /\ (AgeBits - 1) + 1 = AgeBits - 0
        BY <1>5
      <4> QED
        BY <4>1, Doubled
    <3> HIDE DEF top, t
    <3>4. half(f) < top
      BY <1>6, <1>7, <3>2, <3>3
    <3> HIDE DEF half
    <3>5. t.age[f] < 2 * top
      BY <1>4, <1>6, <2>1, <3>4
    <3> QED
      BY <2>2, <3>3, <3>5
  <2>3. CASE k # 0
    <3> DEFINE j == k - 1
               p == 2 ^ (AgeBits - k)
    <3>1. /\ j \in 0 .. n /\ 1 \in 1 .. k /\ 1 \in 1 .. m
          /\ AgeBits - k \in Nat /\ AgeBits - j = (AgeBits - k) + 1
      BY <1>5, <2>3
    <3>2. f \notin used
      BY <1>9, <3>1
    <3>3. \A i \in 1 .. j : f \notin history[i]
      <4> TAKE i \in 1 .. j
      <4>1. i + 1 \in 1 .. k /\ i + 1 \in 1 .. m /\ i + 1 # 1 /\ (i + 1) - 1 = i
        OBVIOUS
      <4> QED
        BY <1>9, <4>1
    <3>4. s.age[f] < 2 ^ (AgeBits - j)
      BY <3>1, <3>3 DEF Aged
    <3>5. 2 ^ (AgeBits - j) = 2 * p /\ p \in Nat
      BY <3>1, Doubled, Powers
    <3> HIDE DEF p, j, t, top
    <3>6. half(f) < p
      BY <1>7, <3>4, <3>5
    <3> HIDE DEF half
    <3>7. t.age[f] < p
      BY <1>4, <2>1, <3>2, <3>6
    <3> QED
      BY <3>7 DEF p
  <2> QED
    BY <2>2, <2>3
<1> HIDE DEF t, half, top
<1> QED
  BY <1>2, <1>3, <1>8, <1>9 DEF Aged, t

\* The frame of the smallest age was used last the longest ago.
LEMMA AgedVictim ==
  ASSUME Aged(policy.state, occupied, pending, past, Len(past)), Len(past) \in 0 .. Window,
         NEW v \in occupied, NEW f \in occupied, policy.state.age[v] <= policy.state.age[f]
  PROVE  LastUse(f) <= LastUse(v)
<1> DEFINE uses(g) == {i \in DOMAIN past : g \in past[i]} \union {Window + 1}
           n == Len(past)
<1>1. Window \in Nat
  BY WindowAssumption
<1>2. DOMAIN past = 1 .. n
  BY DEF Aged
<1> HIDE DEF n
<1>3. n \in 0 .. Window
  BY DEF n
<1>4. ASSUME NEW g
      PROVE  LastUse(g) \in uses(g) /\ \A i \in uses(g) : LastUse(g) <= i
  <2>1. uses(g) \in SUBSET Nat /\ uses(g) # {}
    BY <1>1, <1>2
  <2>2. LastUse(g) = First(uses(g))
    BY DEF LastUse, Min, First
  <2> HIDE DEF uses
  <2> QED
    BY <2>1, <2>2, FirstOfNaturals
<1>5. \A g, i : i \in uses(g) <=> i = Window + 1 \/ (i \in 1 .. n /\ g \in past[i])
  BY <1>2
<1>6. ASSUME NEW g PROVE LastUse(g) \in 1 .. Window + 1
  BY <1>1, <1>3, <1>4, <1>5
<1> HIDE DEF uses
<1> SUFFICES ASSUME LastUse(v) < LastUse(f) PROVE FALSE
  BY <1>6
<1> DEFINE i == LastUse(v)
<1>7. i \in 1 .. n /\ v \in past[i]
  <2>1. i # Window + 1
    BY <1>1, <1>6
  <2> QED
    BY <1>4, <1>5, <2>1
<1>8. \A j \in 1 .. i : f \notin past[j]
  <2> TAKE j \in 1 .. i
  <2> SUFFICES ASSUME f \in past[j] PROVE FALSE
    OBVIOUS
  <2>1. j \in 1 .. n /\ j \in Int /\ j <= i /\ i \in Int
    BY <1>3, <1>7
  <2>2. LastUse(f) <= j /\ LastUse(f) \in Int
    BY <1>4, <1>5, <1>6, <2>1
  <2> HIDE DEF i
  <2> QED
    BY <2>1, <2>2 DEF i
<1> HIDE DEF i
<1>9. i \in 0 .. n /\ i \in 0 .. Window
  BY <1>1, <1>3, <1>7
<1>10. 2 ^ (AgeBits - i) <= policy.state.age[v]
  BY <1>7 DEF Aged, n
<1>11. policy.state.age[f] < 2 ^ (AgeBits - i)
  BY <1>8, <1>9 DEF Aged, n
<1>12. 2 ^ (AgeBits - i) \in Nat
  BY <1>9, AgedPowers
<1>13. policy.state.age[v] \in Nat /\ policy.state.age[f] \in Nat
  BY DEF Aged, AgingInv
<1> QED
  BY <1>10, <1>11, <1>12, <1>13

LEMMA HistoryLen ==
  ASSUME NEW L, NEW n \in Nat, NEW history \in [1 .. n -> SUBSET L]
  PROVE  history \in Seq(SUBSET L) /\ Len(history) = n
<1>1. history \in Seq(SUBSET L)
  BY SeqDef
<1>2. DOMAIN history = 1 .. Len(history) /\ Len(history) \in Nat
  BY <1>1, LenProperties
<1>3. 1 .. n = 1 .. Len(history)
  BY <1>2
<1> QED
  BY <1>1, <1>2, <1>3

\* The history that a tick leaves.
Later(used, history) ==
  SubSeq(<<used>> \o history, 1, Min({Window, Len(history) + 1}))

\* later has what was used before the history of n ticks, or of as many as it can.
Follows(later, L, used, history, n) ==
  \E m \in 0 .. Window :
    /\ m <= n + 1
    /\ later \in [1 .. m -> SUBSET L]
    /\ \A i \in 1 .. m : later[i] = IF i = 1 THEN used ELSE history[i - 1]

LEMMA LaterIs ==
  ASSUME NEW L, NEW used, NEW n, NEW history,
         used \in SUBSET L, n \in Nat, history \in [1 .. n -> SUBSET L]
  PROVE  Follows(Later(used, history), L, used, history, n)
<1> DEFINE m == IF Window <= n + 1 THEN Window ELSE n + 1
           all == <<used>> \o history
           later == SubSeq(all, 1, m)
<1>1. Window \in Nat
  BY WindowAssumption
<1>2. m \in 0 .. Window /\ m <= n + 1 /\ m \in Nat
  BY <1>1
<1>3. history \in Seq(SUBSET L) /\ Len(history) = n
  BY HistoryLen
<1>4. Min({Window, Len(history) + 1}) = m
  BY <1>1, <1>3 DEF Min
<1>5. <<used>> \in Seq(SUBSET L) /\ Len(<<used>>) = 1 /\ <<used>>[1] = used
  OBVIOUS
<1>6. /\ all \in Seq(SUBSET L) /\ Len(all) = 1 + n
      /\ \A i \in 1 .. 1 + n : all[i] = IF i <= 1 THEN <<used>>[i] ELSE history[i - 1]
  BY <1>3, <1>5, ConcatProperties
<1> HIDE DEF m, all
<1>7. \A i \in 1 .. m : all[i] \in SUBSET L
  BY <1>2, <1>6, ElementOfSeq
<1>8. /\ later \in Seq(SUBSET L)
      /\ Len(later) = IF 1 <= m THEN m - 1 + 1 ELSE 0
      /\ \A i \in 1 .. m - 1 + 1 : later[i] = all[1 + i - 1]
  BY <1>2, <1>7, SubSeqProperties
<1>9. Len(later) = m
  BY <1>2, <1>8
<1>10. later \in [1 .. m -> SUBSET L]
  BY <1>8, <1>9, LenProperties
<1>11. ASSUME NEW i \in 1 .. m
       PROVE  later[i] = IF i = 1 THEN used ELSE history[i - 1]
  <2>1. later[i] = all[i] /\ i \in 1 .. 1 + n
    <3>1. i \in 1 .. m - 1 + 1 /\ 1 + i - 1 = i
      BY <1>2
    <3> QED
      BY <1>2, <1>8, <3>1
  <2>2. all[i] = IF i <= 1 THEN <<used>>[i] ELSE history[i - 1]
    BY <1>6, <2>1
  <2>3. i <= 1 <=> i = 1
    BY <1>2
  <2> QED
    BY <1>5, <2>1, <2>2, <2>3
<1>12. Later(used, history) = later
  BY <1>4 DEF Later, all
<1> HIDE DEF later
<1> QED
  BY <1>2, <1>10, <1>11, <1>12 DEF Follows

\* Policy p is Aging, and the ages of its frames tell their history.
AgingOf(p, L, used, history) ==
  /\ p = [type |-> "AGING", state |-> p.state]
  /\ \E n \in 0 .. Window : Aged(p.state, L, used, history, n)

LEMMA AgingOfLoad ==
  ASSUME NEW p, NEW L, NEW used, NEW history, AgingOf(p, L, used, history),
         NEW f \in Frame, f \notin L
  PROVE  AgingOf(OnLoad(p, f), L \union {f}, used \union {f}, history)
<1>1. PICK n \in 0 .. Window : Aged(p.state, L, used, history, n)
  BY DEF AgingOf
<1>2. OnLoad(p, f) = [type |-> "AGING", state |-> AgingOnLoad(p.state, f)]
  BY DEF AgingOf, OnLoad
<1>3. Aged(AgingOnLoad(p.state, f), L \union {f}, used \union {f}, history, n)
  BY <1>1, AgedLoad
<1> QED
  BY <1>2, <1>3 DEF AgingOf

LEMMA AgingOfAccess ==
  ASSUME NEW p, NEW L, NEW used, NEW history, AgingOf(p, L, used, history), NEW f \in L
  PROVE  AgingOf(OnAccess(p, f), L, used \union {f}, history)
<1>1. PICK n \in 0 .. Window : Aged(p.state, L, used, history, n)
  BY DEF AgingOf
<1>2. OnAccess(p, f) = [type |-> "AGING", state |-> AgingOnAccess(p.state, f)]
  BY DEF AgingOf, OnAccess
<1>3. Aged(AgingOnAccess(p.state, f), L, used \union {f}, history, n)
  BY <1>1, AgedAccess
<1> QED
  BY <1>2, <1>3 DEF AgingOf

LEMMA AgingOfEvict ==
  ASSUME NEW p, NEW L, NEW used, NEW history, AgingOf(p, L, used, history), NEW f \in L
  PROVE  AgingOf(OnEvict(p, f), L \ {f}, used \ {f}, Cleared(history, {f}))
<1>1. PICK n \in 0 .. Window : Aged(p.state, L, used, history, n)
  BY DEF AgingOf
<1>2. OnEvict(p, f) = [type |-> "AGING", state |-> AgingOnEvict(p.state, f)]
  BY DEF AgingOf, OnEvict
<1>3. Aged(AgingOnEvict(p.state, f), L \ {f}, used \ {f}, Cleared(history, {f}), n)
  BY <1>1, AgedEvict
<1> QED
  BY <1>2, <1>3 DEF AgingOf

LEMMA AgingOfTick ==
  ASSUME NEW p, NEW L, NEW used, NEW history, AgingOf(p, L, used, history),
         policy.type = "AGING", Ticked(history, used)
  PROVE  AgingOf(Tick(p), L, pending', past')
<1>1. PICK n \in 0 .. Window : Aged(p.state, L, used, history, n)
  BY DEF AgingOf
<1>2. Tick(p) = [type |-> "AGING", state |-> AgingTick(p.state)]
  BY DEF AgingOf, Tick
<1>3. used \in SUBSET L /\ n \in Nat /\ history \in [1 .. n -> SUBSET L]
  BY <1>1, WindowAssumption DEF Aged
<1>4. PICK m \in 0 .. Window :
        /\ m <= n + 1
        /\ Later(used, history) \in [1 .. m -> SUBSET L]
        /\ \A i \in 1 .. m : Later(used, history)[i] =
                               IF i = 1 THEN used ELSE history[i - 1]
  <2>1. Follows(Later(used, history), L, used, history, n)
    BY <1>3, LaterIs
  <2> QED
    BY <2>1 DEF Follows
<1>5. past' = Later(used, history) /\ pending' = {}
  BY DEF Ticked, Later
<1>6. Aged(AgingTick(p.state), L, {}, Later(used, history), m)
  BY <1>1, <1>4, AgedTick
<1> QED
  BY <1>2, <1>5, <1>6 DEF AgingOf

LEMMA ClearedAbsent ==
  ASSUME NEW p, NEW L, NEW used, NEW history, AgingOf(p, L, used, history),
         NEW S, S \cap L = {}
  PROVE  Cleared(history, S) = history /\ used \ S = used
<1>1. PICK n \in 0 .. Window : Aged(p.state, L, used, history, n)
  BY DEF AgingOf
<1>2. history \in [1 .. n -> SUBSET L] /\ used \subseteq L
  BY <1>1 DEF Aged
<1>3. \A i \in 1 .. n : history[i] \ S = history[i]
  BY <1>2
<1> QED
  BY <1>2, <1>3 DEF Cleared

LEMMA ClearedTogether ==
  ASSUME NEW history, NEW S, NEW T
  PROVE  Cleared(Cleared(history, S), T) = Cleared(history, S \union T)
<1>1. \A i \in DOMAIN history : (history[i] \ S) \ T = history[i] \ (S \union T)
  OBVIOUS
<1> QED
  BY <1>1, Zenon DEF Cleared

LEMMA AgingOfLoop ==
  ASSUME NEW p, NEW L, NEW used, NEW history, AgingOf(p, L, used, history),
         NEW S \in SUBSET L, NEW seen, NEW m \in Nat, Looping(p, S, seen, m)
  PROVE  \A n \in 0 .. m :
           AgingOf(seen[n], L \ Below(S, n), used \ Below(S, n), Cleared(history, Below(S, n)))
<1> DEFINE Good(n) == AgingOf(seen[n], L \ Below(S, n), used \ Below(S, n),
                              Cleared(history, Below(S, n)))
           bad == {n \in 0 .. m : ~Good(n)}
<1> SUFFICES ASSUME bad # {} PROVE FALSE
  OBVIOUS
<1> DEFINE k == First(bad)
<1>1. k \in bad /\ \A j \in bad : k <= j
  <2>1. bad \in SUBSET Nat
    OBVIOUS
  <2> HIDE DEF bad
  <2> QED
    BY <2>1, FirstOfNaturals
<1> HIDE DEF k
<1>2. k \in 0 .. m /\ ~Good(k)
  BY <1>1
<1>3. S \subseteq Frame /\ \A f \in S : f \in Nat
  BY DEF AgingOf, Aged, AgingInv, Frame
<1>4. CASE k = 0
  <2>1. seen[0] = p
    BY DEF Looping
  <2>2. Below(S, 0) = {}
    BY <1>3 DEF Below
  <2>3. L \ {} = L /\ Cleared(history, {}) = history /\ used \ {} = used
    BY ClearedAbsent
  <2>4. Good(0)
    BY <2>1, <2>2, <2>3
  <2> QED
    BY <1>2, <1>4, <2>4
<1>5. CASE k # 0
  <2> DEFINE j == k - 1
             x == seen[j]
  <2>1. j \in 0 .. m /\ j \notin bad /\ k = j + 1 /\ j \in Nat
    <3>1. j \in 0 .. m /\ k = j + 1 /\ j \in Nat /\ k \in Int /\ ~(k <= j)
      BY <1>2, <1>5
    <3> HIDE DEF bad, j
    <3> QED
      BY <1>1, <3>1
  <2>2. AgingOf(x, L \ Below(S, j), used \ Below(S, j), Cleared(history, Below(S, j)))
    BY <2>1
  <2>3. seen[k] = IF j \in S THEN OnEvict(x, j) ELSE x
    BY <1>2, <1>5 DEF Looping
  <2>4. Below(S, k) = Below(S, j) \union {f \in S : f = j}
    BY <1>3, <2>1 DEF Below
  <2>5. CASE j \in S
    <3>1. Below(S, k) = Below(S, j) \union {j} /\ j \in L \ Below(S, j)
      BY <2>1, <2>4, <2>5 DEF Below
    <3> HIDE DEF j, x
    <3>2. AgingOf(OnEvict(x, j), (L \ Below(S, j)) \ {j}, (used \ Below(S, j)) \ {j},
                  Cleared(Cleared(history, Below(S, j)), {j}))
      BY <2>2, <3>1, AgingOfEvict
    <3>3. /\ (L \ Below(S, j)) \ {j} = L \ Below(S, k)
          /\ (used \ Below(S, j)) \ {j} = used \ Below(S, k)
          /\ Cleared(Cleared(history, Below(S, j)), {j}) = Cleared(history, Below(S, k))
      BY <3>1, ClearedTogether
    <3> QED
      BY <1>2, <2>3, <2>5, <3>2, <3>3
  <2>6. CASE j \notin S
    <3>1. Below(S, k) = Below(S, j)
      BY <2>4, <2>6
    <3> QED
      BY <1>2, <2>2, <2>3, <2>6, <3>1
  <2> QED
    BY <2>5, <2>6
<1> QED
  BY <1>4, <1>5

LEMMA AgingOfRelease ==
  ASSUME AgingOf(policy, occupied, pending, past), NEW S \in SUBSET occupied
  PROVE  AgingOf(Evicted(S), occupied \ S, pending \ S, Forgotten(S))
<1> DEFINE seen == CHOOSE g : Looping(policy, S, g, FrameCount)
<1>1. FrameCount \in Nat /\ FrameCount \in 0 .. FrameCount
  OBVIOUS
<1>2. Looping(policy, S, seen, FrameCount)
  BY <1>1, LoopExists
<1>3. Evicted(S) = seen[FrameCount]
  BY DEF Evicted, Looping
<1>4. Below(S, FrameCount) = S
  BY DEF Below, AgingOf, Aged, AgingInv, Frame
<1>5. Forgotten(S) = Cleared(past, S)
  BY DEF Forgotten, Cleared
<1> HIDE DEF seen
<1>6. \A n \in 0 .. FrameCount :
        AgingOf(seen[n], occupied \ Below(S, n), pending \ Below(S, n),
                Cleared(past, Below(S, n)))
  BY <1>1, <1>2, AgingOfLoop
<1> QED
  BY <1>1, <1>3, <1>4, <1>5, <1>6

-----------------------------------------------------------------------------
(* The calls, when the policy is Aging. *)

HistoryInv == policy.type = "AGING" => AgingOf(policy, occupied, pending, past)

LEMMA HistoryKept ==
  ASSUME Agreed, HistoryInv, policy.type = "AGING", [Next]_vars
  PROVE  AgingOf(policy', occupied', pending', past')
<1>1. AgingOf(policy, occupied, pending, past) /\ occupied \subseteq Frame
  BY DEF HistoryInv, Agreed
<1>2. CASE UNCHANGED vars
  BY <1>1, <1>2 DEF vars
<1>3. ASSUME NEW f \in Frame, Load(f) \/ Copy(f)
      PROVE  AgingOf(policy', occupied', pending', past')
  <2>1. AgingOf(OnLoad(policy, f), occupied \union {f}, pending \union {f}, past)
    BY <1>1, <1>3, AgingOfLoad DEF Load, Copy, FirstFree
  <2>2. /\ Ticked(past, pending \union {f}) /\ occupied' = occupied \union {f}
        /\ \/ policy' = Tick(OnLoad(policy, f))
           \/ policy' = Tick(OnAccess(OnLoad(policy, f), f))
    BY <1>3 DEF Load, Copy
  <2>3. AgingOf(OnAccess(OnLoad(policy, f), f), occupied \union {f},
                (pending \union {f}) \union {f}, past)
    BY <2>1, AgingOfAccess
  <2>4. (pending \union {f}) \union {f} = pending \union {f}
    OBVIOUS
  <2>5. PICK p : /\ AgingOf(p, occupied \union {f}, pending \union {f}, past)
                 /\ policy' = Tick(p)
    BY <2>1, <2>2, <2>3, <2>4
  <2> QED
    BY <2>2, <2>5, AgingOfTick
<1>4. ASSUME NEW f \in Frame, LoadFails(f)
      PROVE  AgingOf(policy', occupied', pending', past')
  <2>1. f \notin occupied
    BY <1>4 DEF LoadFails, FirstFree
  <2>2. AgingOf(OnLoad(policy, f), occupied \union {f}, pending \union {f}, past)
    BY <1>1, <2>1, AgingOfLoad
  <2>3. AgingOf(OnEvict(OnLoad(policy, f), f), (occupied \union {f}) \ {f},
                (pending \union {f}) \ {f}, Cleared(past, {f}))
    BY <2>2, AgingOfEvict
  <2>4. Cleared(past, {f}) = past /\ pending \ {f} = pending
    BY <1>1, <2>1, ClearedAbsent
  <2>5. (occupied \union {f}) \ {f} = occupied /\ (pending \union {f}) \ {f} = pending
    BY <2>1, <2>4
  <2> QED
    BY <1>4, <2>3, <2>4, <2>5 DEF LoadFails
<1>5. ASSUME NEW f \in Frame, Access(f)
      PROVE  AgingOf(policy', occupied', pending', past')
  <2>1. AgingOf(OnAccess(policy, f), occupied, pending \union {f}, past)
    BY <1>1, <1>5, AgingOfAccess DEF Access
  <2>2. /\ Ticked(past, pending \union {f}) /\ occupied' = occupied
        /\ policy' = Tick(OnAccess(policy, f))
    BY <1>5 DEF Access
  <2> QED
    BY <2>1, <2>2, AgingOfTick
<1>6. CASE Replace \/ ReplaceUnread
  <2> DEFINE f == Victim(policy)
             p == Reused(policy, f)
  <2>1. f \in occupied /\ occupied' = occupied /\ Chosen(policy) = policy
    BY <1>6 DEF Replace, ReplaceUnread, Chosen
  <2> HIDE DEF f
  <2>2. f \in Frame /\ f \notin occupied \ {f} /\ (occupied \ {f}) \union {f} = occupied
        /\ (pending \ {f}) \union {f} = pending \union {f}
        /\ Forgotten({f}) = Cleared(past, {f})
    BY <1>1, <2>1 DEF Forgotten, Cleared
  <2>3. AgingOf(OnEvict(policy, f), occupied \ {f}, pending \ {f}, Cleared(past, {f}))
    BY <1>1, <2>1, AgingOfEvict
  <2>4. AgingOf(OnLoad(OnEvict(policy, f), f), (occupied \ {f}) \union {f},
                (pending \ {f}) \union {f}, Cleared(past, {f}))
    BY <2>2, <2>3, AgingOfLoad
  <2>5. AgingOf(p, occupied, pending \union {f}, Forgotten({f}))
    BY <2>2, <2>4 DEF Reused
  <2> HIDE DEF p
  <2>6. CASE Replace
    <3>1. Ticked(Forgotten({f}), pending \union {f}) /\ policy' = Tick(p)
      BY <2>1, <2>6 DEF Replace, f, p
    <3> QED
      BY <2>1, <2>5, <3>1, AgingOfTick
  <2>7. CASE ReplaceUnread
    <3>1. /\ policy' = p /\ pending' = pending \union {f} /\ past' = Forgotten({f})
      BY <2>1, <2>7 DEF ReplaceUnread, f, p
    <3> QED
      BY <2>1, <2>5, <3>1
  <2> QED
    BY <1>6, <2>6, <2>7
<1>7. CASE Refuse
  BY <1>1, <1>7 DEF Refuse, Chosen
<1>8. ASSUME NEW S \in SUBSET occupied, Release(S)
      PROVE  AgingOf(policy', occupied', pending', past')
  BY <1>1, <1>8, AgingOfRelease DEF Release
<1> QED
  BY <1>2, <1>3, <1>4, <1>5, <1>6, <1>7, <1>8 DEF Next

\* The type of a policy is never changed.
LEMMA TypesKept ==
  ASSUME NEW p, NEW f, p = [type |-> p.type, state |-> p.state], p.type \in PolicyType
  PROVE  /\ OnLoad(p, f) = [type |-> p.type, state |-> OnLoad(p, f).state]
         /\ OnAccess(p, f) = [type |-> p.type, state |-> OnAccess(p, f).state]
         /\ OnEvict(p, f) = [type |-> p.type, state |-> OnEvict(p, f).state]
         /\ Tick(p).type = p.type
         /\ Chosen(p) = [type |-> p.type, state |-> Chosen(p).state]
<1>1. OnLoad(p, f) = [type |-> p.type, state |-> OnLoad(p, f).state]
  BY DEF OnLoad, PolicyType
<1>2. OnAccess(p, f) = [type |-> p.type, state |-> OnAccess(p, f).state]
  BY DEF OnAccess, PolicyType
<1>3. OnEvict(p, f) = [type |-> p.type, state |-> OnEvict(p, f).state]
  BY DEF OnEvict, PolicyType
<1>4. Tick(p).type = p.type
  BY DEF Tick
<1>5. Chosen(p) = [type |-> p.type, state |-> Chosen(p).state]
  BY DEF Chosen
<1> QED
  BY <1>1, <1>2, <1>3, <1>4, <1>5

LEMMA TypeKept == Agreed /\ [Next]_vars => policy'.type = policy.type
<1> SUFFICES ASSUME Agreed, [Next]_vars PROVE policy'.type = policy.type
  OBVIOUS
<1> DEFINE Typed(p) == p = [type |-> p.type, state |-> p.state] /\ p.type = policy.type
<1>1. PolicyInv(policy, occupied, order) /\ policy.type \in PolicyType /\ Typed(policy)
  BY DEF Agreed, PolicyInv
<1>2. ASSUME NEW p, NEW f, Typed(p)
      PROVE  /\ Typed(OnLoad(p, f)) /\ Typed(OnAccess(p, f)) /\ Typed(OnEvict(p, f))
             /\ Typed(Chosen(p)) /\ Tick(p).type = policy.type
  BY <1>1, <1>2, TypesKept
<1>3. \A p : Typed(p) => p.type = policy.type
  OBVIOUS
<1> HIDE DEF Typed
<1>4. ASSUME NEW f \in Frame, Load(f) \/ LoadFails(f) \/ Copy(f) \/ Access(f)
      PROVE  policy'.type = policy.type
  <2>1. \/ policy' = Tick(OnLoad(policy, f))
        \/ policy' = OnEvict(OnLoad(policy, f), f)
        \/ policy' = Tick(OnAccess(OnLoad(policy, f), f))
        \/ policy' = Tick(OnAccess(policy, f))
    BY <1>4 DEF Load, LoadFails, Copy, Access
  <2>2. Typed(OnLoad(policy, f)) /\ Typed(OnAccess(policy, f))
    BY <1>1, <1>2
  <2> QED
    BY <1>2, <1>3, <2>1, <2>2
<1>5. CASE Replace \/ ReplaceUnread \/ Refuse
  <2>1. PICK f : \/ policy' = Tick(OnLoad(OnEvict(Chosen(policy), f), f))
                 \/ policy' = OnLoad(OnEvict(Chosen(policy), f), f)
                 \/ policy' = Chosen(policy)
    BY <1>5 DEF Replace, ReplaceUnread, Refuse, Reused
  <2>2. Typed(OnLoad(OnEvict(Chosen(policy), f), f)) /\ Typed(Chosen(policy))
    BY <1>1, <1>2
  <2> QED
    BY <1>2, <1>3, <2>1, <2>2
<1>6. ASSUME NEW S \in SUBSET occupied, Release(S) PROVE policy'.type = policy.type
  BY <1>1, <1>6, PolicyReleases DEF Release
<1>7. CASE UNCHANGED vars
  BY <1>7 DEF vars
<1> QED
  BY <1>4, <1>5, <1>6, <1>7 DEF Next

\* Aging is LRU as far back as its ages reach: no frame in use was left idle for
\* longer than the victim, in as many ticks as an age has bits.
THEOREM AgingIsShortLruCorrect == Spec => []AgingIsShortLru
<1>1. Init => HistoryInv
  <2> SUFFICES ASSUME Init, policy.type = "AGING"
               PROVE  AgingOf(policy, occupied, pending, past)
    BY DEF HistoryInv
  <2>1. policy = [type |-> "AGING", state |-> AgingStart]
    BY DEF Init, Create, PolicyType
  <2>2. 0 \in 0 .. Window
    BY WindowAssumption
  <2> QED
    BY <2>1, <2>2, AgedAtFirst DEF Init, AgingOf
<1>2. Agreed /\ HistoryInv /\ [Next]_vars => HistoryInv'
  BY TypeKept, HistoryKept DEF HistoryInv
<1>3. Agreed /\ HistoryInv => AgingIsShortLru
  <2> SUFFICES ASSUME Agreed, HistoryInv, policy.type = "AGING", NEW f \in occupied
               PROVE  LastUse(f) <= LastUse(Victim(policy))
    BY DEF AgingIsShortLru
  <2> DEFINE v == Victim(policy)
             s == policy.state
  <2>1. PICK n \in 0 .. Window : Aged(s, occupied, pending, past, n)
    BY DEF HistoryInv, AgingOf
  <2>2. n = Len(past)
    <3>1. n \in Nat /\ past \in [1 .. n -> SUBSET occupied]
      BY <2>1, WindowAssumption DEF Aged
    <3> QED
      BY <3>1, HistoryLen
  <2>3. s.loaded = occupied /\ s.age \in [Frame -> Nat] /\ occupied \subseteq Frame
    BY <2>1 DEF Aged, AgingInv
  <2>4. v \in occupied /\ \A g \in occupied \ {v} : s.age[v] < s.age[g] \/ s.age[v] = s.age[g]
    <3>1. occupied \in SUBSET Nat /\ \A g \in occupied : s.age[g] \in Nat
      BY <2>3 DEF Frame
    <3>2. \E x \in occupied : \A g \in occupied \ {x} :
            s.age[x] < s.age[g] \/ (s.age[x] = s.age[g] /\ x < g)
      BY <3>1, LowestFirst
    <3>3. v = CHOOSE x \in occupied : \A g \in occupied \ {x} :
                s.age[x] < s.age[g] \/ (s.age[x] = s.age[g] /\ x < g)
      BY <2>3 DEF Victim, AgingVictim
    <3> HIDE DEF v, s
    <3> QED
      BY <3>2, <3>3, Zenon
  <2>5. s.age[v] <= s.age[f]
    <3>1. s.age[v] \in Nat /\ s.age[f] \in Nat
      BY <2>3, <2>4
    <3> QED
      BY <2>4, <3>1
  <2> HIDE DEF v
  <2> QED
    BY <2>1, <2>2, <2>4, <2>5, AgedVictim DEF v
<1> QED
  BY <1>1, <1>2, <1>3, AlwaysAgreed, PTL DEF Spec

=============================================================================
