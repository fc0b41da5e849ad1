------------------------- MODULE NuDBReader_proofs -------------------------
(***************************************************************************)
(* Proofs about NuDBReader: the level of concurrency calibration returns   *)
(* is safe, whatever the ladders are and whatever the probes measure; a    *)
(* walk, at that level, finds every node of its tree once; and the diffs   *)
(* of a batch are what NodeDiff promises and what the importer accepts.    *)
(*                                                                         *)
(* For the diffs: inner nodes of a tree ordered by keys keep their depth,  *)
(* and what is under a slot stays under slots of its number, so what the   *)
(* recursion lists for one slot never meets what it lists for another.     *)
(***************************************************************************)
EXTENDS NuDBReader, FiniteSetTheorems, WellFoundedInduction, TLAPS

-----------------------------------------------------------------------------
(* The inductive invariant                                                 *)

Probes == [level : Nat \ {0}, n : Nat \ {0}, elapsed : Nat \ {0}]

\* p's throughput is at most q's.
AtMost(p, q) == p.n * q.elapsed <= q.n * p.elapsed

\* Rung by rung, and the sample is a sequence while it is in use.
LadderInv ==
  /\ probes \in Seq(Probes) /\ Len(probes) <= Len(Levels)
  /\ \A k \in DOMAIN probes : probes[k].level = Levels[k]
  /\ pc \in {"sample", "probe"} => found \in Seq(ToSet(found))

\* While the ladder is climbed, the last probe is the best and none queued up.
ClimbInv ==
  /\ pc = "sample" => probes = <<>>
  /\ pc = "sample" \/ probes = <<>> => conc = 1 \/ call.op = "diff"
  /\ pc = "probe" =>
       /\ \A k \in DOMAIN probes : ~QueuesUp(probes[k]) /\ AtMost(probes[k], probes[Len(probes)])
       /\ probes # <<>> => conc = probes[Len(probes)].level

\* The level is a probe's, that did not queue up and is about the fastest.
Chosen == \E k \in DOMAIN probes :
            /\ probes[k].level = conc /\ ~QueuesUp(probes[k])
            /\ \A j \in DOMAIN probes : ~Faster(probes[j], probes[k])

\* Once a level is chosen, it is 1 or one of the best tried.
ChosenInv ==
  pc \notin {"sample", "probe"} =>
    /\ conc = 1 \/ call.op = "diff" \/ Chosen
    /\ \A k \in DOMAIN probes : QueuesUp(probes[k]) => k = Len(probes)

CalibrationInv == LadderInv /\ ClimbInv /\ ChosenInv

\* A node is looked for among the tree's.
ReachInv ==
  /\ pc \in {"sample", "serial", "levels"} =>
       stack \in Seq(NodesOf(Root)) /\ visited \subseteq NodesOf(Root)
  /\ pc \in {"serial", "levels", "done"} =>
       found \in Seq(NodesOf(Root)) /\ IsInjective(found)
  /\ pc = "failed" => \E n \in NodesOf(Root) : ~Readable(n)

\* Serial: what was visited was found, and its children are visited or to be.
SerialInv ==
  pc = "serial" =>
    /\ ToSet(found) = visited /\ Root \in visited \cup ToSet(stack)
    /\ \A n \in visited : child_hashes(n) \subseteq visited \cup ToSet(stack)

\* By levels: the children of what was found are found or in the frontier.
LevelsInv ==
  pc = "levels" =>
    /\ IsInjective(stack) /\ ToSet(stack) \cap ToSet(found) = {}
    /\ visited = ToSet(found) \cup ToSet(stack) /\ Root \in visited
    /\ \A n \in ToSet(found) : child_hashes(n) \subseteq visited

\* All a walk keeps true, from its first node to its result.
OnWay ==
  /\ pc \in {"sample", "probe", "chosen", "serial", "levels", "done", "failed"}
  /\ ReachInv /\ SerialInv /\ LevelsInv
  /\ pc = "done" => ToSet(found) = NodesOf(Root)

\* The walk's invariant; calls of other kinds it says nothing about.
WalkInv == call \in Calls /\ (call.op = "walk" => OnWay)

-----------------------------------------------------------------------------
(* Throughputs                                                             *)

(* Products of natural numbers are natural numbers, and keep an order.     *)
LEMMA Multiplying ==
  ASSUME NEW a \in Nat, NEW b \in Nat, NEW c \in Nat, a <= b
  PROVE  a * c \in Nat /\ b * c \in Nat /\ a * c <= b * c
<1>1. PICK d \in Nat : b = a + d
  <2>1. b - a \in Nat /\ b = a + (b - a)
    OBVIOUS
  <2> QED
    BY <2>1
<1>2. b * c = a * c + d * c
  BY <1>1
<1>3. a * c \in Nat /\ b * c \in Nat /\ d * c \in Nat
  OBVIOUS
<1> QED
  BY <1>2, <1>3

(* And a common factor may be left out.                                    *)
LEMMA Cancelling ==
  ASSUME NEW a \in Nat, NEW b \in Nat, NEW c \in Nat \ {0}, a * c <= b * c
  PROVE  a <= b
<1> SUFFICES ASSUME b + 1 <= a
             PROVE  FALSE
  OBVIOUS
<1>1. (b + 1) * c <= a * c
  BY Multiplying
<1>2. (b + 1) * c = b * c + c
  OBVIOUS
<1>3. a * c \in Nat /\ b * c \in Nat
  OBVIOUS
<1> QED
  BY <1>1, <1>2, <1>3

(* The order of throughputs is transitive.                                 *)
LEMMA AtMostTransitive ==
  ASSUME NEW p \in Probes, NEW q \in Probes, NEW r \in Probes, AtMost(p, q), AtMost(q, r)
  PROVE  AtMost(p, r)
<1>1. PICK a \in Nat, b \in Nat, c \in Nat, d \in Nat \ {0}, e \in Nat, f \in Nat :
        /\ a = p.n /\ b = p.elapsed /\ c = q.n /\ d = q.elapsed /\ e = r.n /\ f = r.elapsed
  BY DEF Probes
<1>2. a * d <= c * b /\ c * f <= e * d
  BY <1>1 DEF AtMost
<1>3. (a * d) * f <= (c * b) * f
  <2>1. a * d \in Nat /\ c * b \in Nat
    OBVIOUS
  <2> QED
    BY <1>2, <2>1, Multiplying
<1>4. (c * f) * b <= (e * d) * b
  <2>1. c * f \in Nat /\ e * d \in Nat
    OBVIOUS
  <2> QED
    BY <1>2, <2>1, Multiplying
<1>5. (a * d) * f = (a * f) * d /\ (c * b) * f = (c * f) * b /\ (e * d) * b = (e * b) * d
  OBVIOUS
<1>6. a * f \in Nat /\ e * b \in Nat
  OBVIOUS
<1>7. (a * f) * d <= (e * b) * d
  <2>1. (a * f) * d \in Nat /\ (e * b) * d \in Nat /\ (c * f) * b \in Nat
    OBVIOUS
  <2> QED
    BY <1>3, <1>4, <1>5, <2>1
<1>8. a * f <= e * b
  BY <1>6, <1>7, Cancelling
<1> QED
  BY <1>1, <1>8 DEF AtMost

(* A probe that is no better than another is not faster by the gain.       *)
LEMMA AtMostIsNotFaster ==
  ASSUME NEW p \in Probes, NEW q \in Probes, AtMost(p, q)
  PROVE  ~Faster(p, q)
<1>1. PICK x \in Nat, y \in Nat : x = p.n * q.elapsed /\ y = q.n * p.elapsed
  BY DEF Probes
<1>2. x <= y
  BY <1>1 DEF AtMost
<1>3. Faster(p, q) <=> x * 100 > y * 115
  BY <1>1 DEF Faster
<1> QED
  BY <1>2, <1>3

(* One that is faster by the gain is at least as good.                     *)
LEMMA FasterIsBetter ==
  ASSUME NEW p \in Probes, NEW q \in Probes, Faster(q, p)
  PROVE  AtMost(p, q)
<1>1. PICK x \in Nat, y \in Nat : x = q.n * p.elapsed /\ y = p.n * q.elapsed
  BY DEF Probes
<1>2. x * 100 > y * 115
  BY <1>1 DEF Faster
<1>3. y <= x
  BY <1>2
<1> QED
  BY <1>1, <1>3 DEF AtMost

(* A probe that queued up is not faster than one that did not: its average *)
(* latency is above the limit and the other's is not.                      *)
LEMMA QueuedIsNotFaster ==
  ASSUME NEW p \in Probes, NEW q \in Probes, QueuesUp(p), ~QueuesUp(q)
  PROVE  AtMost(p, q)
<1>1. PICK a \in Nat, b \in Nat, c \in Nat, d \in Nat, l \in Nat :
        a = p.n /\ b = p.elapsed /\ c = q.n /\ d = q.elapsed /\ l = ABORT_LATENCY
  BY LadderAssumption DEF Probes
<1>2. l * a <= b /\ d <= l * c
  BY <1>1 DEF QueuesUp
<1>3. l * a \in Nat /\ l * c \in Nat
  OBVIOUS
<1>4. d * a <= (l * c) * a /\ (l * a) * c <= b * c
  BY <1>2, <1>3, Multiplying
<1>5. (l * c) * a = (l * a) * c /\ a * d = d * a /\ b * c = c * b
  OBVIOUS
<1>6. d * a \in Nat /\ (l * a) * c \in Nat /\ b * c \in Nat
  OBVIOUS
<1>7. a * d <= c * b
  BY <1>4, <1>5, <1>6
<1> QED
  BY <1>1, <1>7 DEF AtMost

-----------------------------------------------------------------------------
(* Probes                                                                  *)

(* Either ladder climbs, and a store that shares the system's disk gets    *)
(* the shared one.                                                         *)
LEMMA LevelsFacts ==
  /\ Levels \in Seq(Nat \ {0}) /\ Len(Levels) \in Nat /\ Len(Levels) > 1
  /\ \A k, l \in DOMAIN Levels : k < l => Levels[k] < Levels[l]
  /\ call.onRootDisk # {} => Levels = SHARED_DISK_LEVELS
<1>1. Levels \in {SHARED_DISK_LEVELS, DEDICATED_LEVELS}
  BY DEF Levels
<1>2. call.onRootDisk # {} => Levels = SHARED_DISK_LEVELS
  BY DEF Levels
<1> HIDE DEF Levels
<1>3. Levels \in Seq(Nat \ {0}) /\ Len(Levels) > 1
  BY <1>1, LadderAssumption
<1>4. \A k, l \in DOMAIN Levels : k < l => Levels[k] < Levels[l]
  BY <1>1, LadderAssumption
<1> QED
  BY <1>2, <1>3, <1>4

(* What a probe is, whatever it measures.                                  *)
LEMMA ProbeFacts ==
  ASSUME LadderInv, CanProbe, NEW latency \in Latencies
  PROVE  /\ Probe(latency) \in Probes
         /\ Probe(latency).level = Levels[Len(probes) + 1]
         /\ Len(probes) \in Nat /\ Len(probes) < Len(Levels)
<1>1. Len(probes) \in Nat /\ Len(probes) < Len(Levels)
  BY DEF LadderInv, CanProbe
<1>2. Rung \in Nat \ {0}
  <2>1. Len(probes) + 1 \in 1..Len(Levels)
    BY <1>1, LevelsFacts
  <2> QED
    BY <2>1, LevelsFacts DEF Rung
<1>3. Len(found) \in Nat /\ Rung <= Len(found)
  BY DEF LadderInv, CanProbe
<1> DEFINE S == {4 * Rung, 128, Len(found)}
           n == Min(S)
<1>4. n \in Nat \ {0}
  <2>1. S \subseteq Nat \ {0}
    BY <1>2, <1>3
  <2>2. \E x \in S : \A y \in S : x <= y
    <3>1. PICK a \in Nat, b \in Nat : a = 4 * Rung /\ b = Len(found)
      BY <1>2, <1>3
    <3>2. S = {a, 128, b}
      BY <3>1
    <3> HIDE DEF S
    <3> QED
      BY <3>1, <3>2
  <2> HIDE DEF S
  <2>3. n \in S
    BY <2>2 DEF Min
  <2> QED
    BY <2>1, <2>3
<1>5. ((n + Rung - 1) \div Rung) * latency \in Nat \ {0}
  <2> HIDE DEF n
  <2>1. PICK r \in Nat \ {0}, m \in Nat : r = Rung /\ m + 1 = n
    <3>1. n - 1 \in Nat /\ n - 1 + 1 = n
      BY <1>4
    <3> QED
      BY <1>2, <3>1
  <2>2. PICK d \in Nat \ {0} : d = (m + r) \div r
    <3>1. (m + r) \div r \in Nat \ {0}
      BY <2>1
    <3> QED
      BY <3>1
  <2>3. n + Rung - 1 = m + r
    BY <2>1, <1>4
  <2>4. latency \in Nat \ {0}
    BY LadderAssumption
  <2>5. d * latency \in Nat \ {0}
    BY <2>4
  <2> QED
    BY <2>1, <2>2, <2>3, <2>5
<1>6. Probe(latency) = [level |-> Rung, n |-> n, elapsed |-> ((n + Rung - 1) \div Rung) * latency]
  BY DEF Probe
<1> HIDE DEF n
<1> QED
  BY <1>1, <1>2, <1>4, <1>5, <1>6 DEF Probes, Rung

(* The ladder after a probe.                                               *)
LEMMA ProbeAdded ==
  ASSUME LadderInv, CanProbe, UNCHANGED <<call, found>>,
         NEW latency \in Latencies, NEW p, p = Probe(latency), probes' = Append(probes, p)
  PROVE  /\ LadderInv' /\ p \in Probes
         /\ probes \in Seq(Probes) /\ Len(probes) \in Nat
         /\ Len(probes') = Len(probes) + 1 /\ probes'[Len(probes) + 1] = p
         /\ \A k \in DOMAIN probes : probes'[k] = probes[k] /\ k < Len(probes')
         /\ DOMAIN probes' = DOMAIN probes \cup {Len(probes) + 1}
<1>1. /\ p \in Probes /\ p.level = Levels[Len(probes) + 1]
      /\ Len(probes) \in Nat /\ Len(probes) < Len(Levels) /\ probes \in Seq(Probes)
  BY ProbeFacts DEF LadderInv
<1>2. /\ probes' \in Seq(Probes) /\ Len(probes') = Len(probes) + 1
      /\ probes'[Len(probes) + 1] = p
      /\ \A k \in DOMAIN probes : probes'[k] = probes[k] /\ k < Len(probes')
  BY <1>1
<1>3. DOMAIN probes' = DOMAIN probes \cup {Len(probes) + 1}
  BY <1>1, <1>2
<1>4. Levels' = Levels
  BY DEF Levels
<1>5. Len(probes') <= Len(Levels)
  BY <1>1, <1>2, LevelsFacts
<1>6. \A k \in DOMAIN probes' : probes'[k].level = Levels[k]
  BY <1>1, <1>2, <1>3 DEF LadderInv
<1>7. found \in Seq(ToSet(found))
  BY DEF LadderInv, CanProbe
<1>8. (found \in Seq(ToSet(found)))'
  BY <1>7 DEF ToSet
<1>9. (probes \in Seq(Probes) /\ Len(probes) <= Len(Levels))'
  BY <1>2, <1>4, <1>5 DEF Probes
<1>10. (\A k \in DOMAIN probes : probes[k].level = Levels[k])'
  BY <1>4, <1>6
<1>11. LadderInv'
  BY <1>8, <1>9, <1>10 DEF LadderInv
<1> QED
  BY <1>1, <1>2, <1>3, <1>11

-----------------------------------------------------------------------------
(* Calibration                                                             *)

(* A call starts before any probe, with the level 1.                       *)
LEMMA InitCalibration ==
  ASSUME Init
  PROVE  CalibrationInv
<1>1. probes = <<>> /\ found = <<>> /\ Len(probes) = 0 /\ DOMAIN probes = {}
  BY DEF Init
<1>2. call.op \in {"walk", "txns", "diff"} /\ (conc = 1 \/ call.op = "diff")
  BY CallsAssumption DEF Init
<1>3. pc # "probe"
  BY <1>2 DEF Init
<1>4. LadderInv
  <2>1. found \in Seq(ToSet(found)) /\ probes \in Seq(Probes)
    BY <1>1
  <2> QED
    BY <1>1, <2>1, LevelsFacts DEF LadderInv
<1>5. ClimbInv
  BY <1>1, <1>2, <1>3 DEF ClimbInv
<1>6. ChosenInv
  BY <1>1, <1>2 DEF ChosenInv
<1> QED
  BY <1>4, <1>5, <1>6 DEF CalibrationInv

(* A step that is none of calibration's leaves what it measured alone.     *)
LEMMA OtherSteps ==
  ASSUME CalibrationInv, UNCHANGED <<call, probes, conc>>,
         pc \notin {"sample", "probe"}, pc' \notin {"sample", "probe"}
  PROVE  CalibrationInv'
<1>1. Levels' = Levels
  BY DEF Levels
<1>2. LadderInv'
  BY <1>1 DEF CalibrationInv, LadderInv, Probes
<1>3. ClimbInv'
  BY DEF CalibrationInv, ClimbInv
<1>4. ChosenInv'
  <2>1. Chosen' <=> Chosen
    BY DEF Chosen, QueuesUp, Faster
  <2> QED
    BY <2>1 DEF CalibrationInv, ChosenInv, QueuesUp
<1> QED
  BY <1>2, <1>3, <1>4 DEF CalibrationInv

(* Leaving the ladder with the probes there are.                           *)
LEMMA LeavingLadder ==
  ASSUME CalibrationInv, UNCHANGED <<call, probes, conc>>,
         pc \in {"sample", "probe"}, pc' \notin {"sample", "probe"}
  PROVE  CalibrationInv'
<1>1. Levels' = Levels
  BY DEF Levels
<1>2. LadderInv'
  BY <1>1 DEF CalibrationInv, LadderInv, Probes
<1>3. ClimbInv'
  BY DEF CalibrationInv, ClimbInv
<1>4. ChosenInv'
  <2>1. \A k \in DOMAIN probes : ~QueuesUp(probes[k])
    <3>1. CASE pc = "sample"
      BY <3>1 DEF CalibrationInv, ClimbInv
    <3>2. CASE pc = "probe"
      BY <3>2 DEF CalibrationInv, ClimbInv
    <3> QED
      BY <3>1, <3>2
  <2>2. conc = 1 \/ call.op = "diff" \/ Chosen
    <3>1. CASE probes = <<>>
      BY <3>1 DEF CalibrationInv, ClimbInv
    <3>2. CASE probes # <<>>
      <4>1. pc = "probe" /\ probes \in Seq(Probes)
        BY <3>2 DEF CalibrationInv, ClimbInv, LadderInv
      <4>2. Len(probes) \in DOMAIN probes /\ \A k \in DOMAIN probes : probes[k] \in Probes
        BY <3>2, <4>1
      <4>3. probes[Len(probes)].level = conc
        BY <3>2, <4>1 DEF CalibrationInv, ClimbInv
      <4>4. \A j \in DOMAIN probes : AtMost(probes[j], probes[Len(probes)])
        BY <4>1 DEF CalibrationInv, ClimbInv
      <4>5. \A j \in DOMAIN probes : ~Faster(probes[j], probes[Len(probes)])
        BY <4>2, <4>4, AtMostIsNotFaster
      <4> QED
        BY <2>1, <4>2, <4>3, <4>5 DEF Chosen
    <3> QED
      BY <3>1, <3>2
  <2>3. Chosen => Chosen'
    BY DEF Chosen, QueuesUp, Faster
  <2> QED
    BY <2>1, <2>2, <2>3 DEF ChosenInv, QueuesUp
<1> QED
  BY <1>2, <1>3, <1>4 DEF CalibrationInv

(* A rung that gains: the new probe is the best so far.                    *)
LEMMA Climbing ==
  ASSUME CalibrationInv, ProbeGains
  PROVE  CalibrationInv'
<1>0. PICK latency \in Latencies : \E p \in {Probe(latency)} :
        ~QueuesUp(p) /\ Gains(p) /\ probes' = Append(probes, p)
  BY DEF ProbeGains
<1>1. PICK p : /\ p = Probe(latency)
               /\ ~QueuesUp(p) /\ Gains(p) /\ probes' = Append(probes, p)
  BY <1>0
<1>2. /\ CanProbe /\ LadderInv /\ ClimbInv /\ pc = "probe" /\ pc' = "probe" /\ conc' = Rung
      /\ UNCHANGED <<call, found>>
  BY DEF ProbeGains, CanProbe, CalibrationInv
<1>3. /\ LadderInv' /\ p \in Probes
      /\ probes \in Seq(Probes) /\ Len(probes) \in Nat
      /\ Len(probes') = Len(probes) + 1 /\ probes'[Len(probes) + 1] = p
      /\ \A k \in DOMAIN probes : probes'[k] = probes[k] /\ k < Len(probes')
      /\ DOMAIN probes' = DOMAIN probes \cup {Len(probes) + 1}
  BY <1>1, <1>2, ProbeAdded
<1>4. probes' # <<>> /\ p.level = Rung
  BY <1>1, <1>2, <1>3 DEF Probe
<1>5. AtMost(p, p)
  <2>1. p.n * p.elapsed \in Nat
    BY <1>3 DEF Probes
  <2>2. \A x \in Nat : x <= x
    OBVIOUS
  <2> QED
    BY <2>1, <2>2 DEF AtMost
<1>6. \A k \in DOMAIN probes : AtMost(probes[k], p)
  <2> SUFFICES ASSUME NEW k \in DOMAIN probes
               PROVE  AtMost(probes[k], p)
    OBVIOUS
  <2>1. probes # <<>> /\ Len(probes) \in DOMAIN probes /\ Last(probes) = probes[Len(probes)]
    BY <1>3 DEF Last
  <2>2. probes[k] \in Probes /\ probes[Len(probes)] \in Probes
    BY <1>3, <2>1
  <2>3. Faster(p, probes[Len(probes)])
    BY <1>1, <2>1 DEF Gains
  <2>4. AtMost(probes[Len(probes)], p)
    BY <1>3, <2>2, <2>3, FasterIsBetter
  <2>5. AtMost(probes[k], probes[Len(probes)])
    BY <1>2 DEF ClimbInv
  <2> QED
    BY <1>3, <2>2, <2>4, <2>5, AtMostTransitive
<1>7. \A k \in DOMAIN probes' : ~QueuesUp(probes'[k]) /\ AtMost(probes'[k], p)
  <2>1. \A k \in DOMAIN probes : ~QueuesUp(probes[k])
    BY <1>2 DEF ClimbInv
  <2> QED
    BY <1>1, <1>3, <1>5, <1>6, <2>1
<1>8. ClimbInv'
  <2>1. \A k \in DOMAIN probes' : ~QueuesUp(probes'[k]) /\ AtMost(probes'[k], probes'[Len(probes')])
    BY <1>3, <1>7
  <2>2. conc' = probes'[Len(probes')].level
    BY <1>2, <1>3, <1>4
  <2> QED
    BY <1>2, <1>4, <2>1, <2>2 DEF ClimbInv, QueuesUp, AtMost
<1>9. ChosenInv'
  BY <1>2 DEF ChosenInv
<1> QED
  BY <1>3, <1>8, <1>9 DEF CalibrationInv

(* A rung that gains too little or queues up is the last: the level is the *)
(* one before it.                                                          *)
LEMMA LastProbe ==
  ASSUME CalibrationInv, ProbeIsMarginal \/ ProbeIsSlow
  PROVE  CalibrationInv'
<1>0. PICK latency \in Latencies : \E p \in {Probe(latency)} :
        /\ QueuesUp(p) \/ (~QueuesUp(p) /\ ~Gains(p))
        /\ probes' = Append(probes, p)
  BY DEF ProbeIsMarginal, ProbeIsSlow
<1>1. PICK p : /\ p = Probe(latency)
               /\ QueuesUp(p) \/ (~QueuesUp(p) /\ ~Gains(p))
               /\ probes' = Append(probes, p)
  BY <1>0
<1>2. /\ CanProbe /\ LadderInv /\ ClimbInv /\ pc = "probe" /\ pc' = "chosen"
      /\ UNCHANGED <<call, found, conc>>
  BY DEF ProbeIsMarginal, ProbeIsSlow, CanProbe, CalibrationInv
<1>3. /\ LadderInv' /\ p \in Probes
      /\ probes \in Seq(Probes) /\ Len(probes) \in Nat
      /\ Len(probes') = Len(probes) + 1 /\ probes'[Len(probes) + 1] = p
      /\ \A k \in DOMAIN probes : probes'[k] = probes[k] /\ k < Len(probes')
      /\ DOMAIN probes' = DOMAIN probes \cup {Len(probes) + 1}
  BY <1>1, <1>2, ProbeAdded
<1>4. probes' # <<>>
  BY <1>3
<1>5. \A k \in DOMAIN probes : ~QueuesUp(probes[k]) /\ probes[k] \in Probes
  BY <1>2, <1>3 DEF ClimbInv
<1>6. \A k \in DOMAIN probes' : QueuesUp(probes'[k]) => k = Len(probes')
  BY <1>3, <1>5
<1>7. conc = 1 \/ call.op = "diff" \/ Chosen'
  <2>1. CASE probes = <<>>
    BY <1>2, <2>1 DEF ClimbInv
  <2>2. CASE probes # <<>>
    <3> DEFINE l == Len(probes)
               q == probes[l]
    <3>1. l \in DOMAIN probes /\ Last(probes) = q
      BY <1>3, <2>2 DEF Last
    <3>2. q.level = conc
      BY <1>2, <2>2 DEF ClimbInv
    <3>3. ~QueuesUp(q) /\ q \in Probes
      BY <1>5, <3>1
    <3>4. \A k \in DOMAIN probes : AtMost(probes[k], q)
      BY <1>2 DEF ClimbInv
    <3> HIDE DEF q
    <3>5. \A k \in DOMAIN probes : ~Faster(probes[k], q)
      BY <1>5, <3>3, <3>4, AtMostIsNotFaster
    <3>6. ~Faster(p, q)
      <4>1. CASE QueuesUp(p)
        <5>1. AtMost(p, q)
          BY <1>3, <3>3, <4>1, QueuedIsNotFaster
        <5> QED
          BY <1>3, <3>3, <5>1, AtMostIsNotFaster
      <4>2. CASE ~Gains(p)
        BY <3>1, <4>2 DEF Gains
      <4> QED
        BY <1>1, <4>1, <4>2
    <3>7. \A j \in DOMAIN probes' : ~Faster(probes'[j], q)
      BY <1>3, <3>5, <3>6
    <3>8. l \in DOMAIN probes' /\ probes'[l] = q
      BY <1>3, <3>1 DEF q
    <3> HIDE DEF l
    <3>9. \E k \in DOMAIN probes' :
            /\ probes'[k].level = conc' /\ ~QueuesUp(probes'[k])
            /\ \A j \in DOMAIN probes' : ~Faster(probes'[j], probes'[k])
      BY <1>2, <3>2, <3>3, <3>7, <3>8
    <3> QED
      BY <3>9 DEF Chosen, QueuesUp, Faster
  <2> QED
    BY <2>1, <2>2
<1>8. ClimbInv'
  BY <1>2, <1>4 DEF ClimbInv
<1>9. ChosenInv'
  BY <1>2, <1>6, <1>7 DEF ChosenInv, QueuesUp
<1> QED
  BY <1>3, <1>8, <1>9 DEF CalibrationInv

(* Every step of a call preserves the invariant.                           *)
LEMMA NextCalibration ==
  ASSUME CalibrationInv, [Next]_vars
  PROVE  CalibrationInv'
<1>1. CASE Sample
  <2>1. /\ pc = "sample" /\ pc' = "sample" /\ found' = Append(found, Top)
        /\ UNCHANGED <<call, probes, conc>>
    BY <1>1 DEF Sample
  <2>2. LadderInv'
    <3>1. found \in Seq(ToSet(found) \cup {Top})
      <4>1. found \in Seq(ToSet(found))
        BY <2>1 DEF CalibrationInv, LadderInv
      <4> QED
        BY <4>1
    <3>2. found' \in Seq(ToSet(found)')
      <4>1. /\ found' \in Seq(ToSet(found) \cup {Top}) /\ Len(found) \in Nat
            /\ Len(found') = Len(found) + 1
            /\ DOMAIN found' = 1..Len(found')
        BY <2>1, <3>1
      <4>2. \A k \in 1..Len(found') : found'[k] \in {found'[j] : j \in DOMAIN found'}
        BY <4>1
      <4>3. found' \in Seq({found'[j] : j \in DOMAIN found'})
        BY <4>1, <4>2
      <4> QED
        BY <4>3 DEF ToSet
    <3>3. Levels' = Levels
      BY <2>1 DEF Levels
    <3> QED
      BY <2>1, <3>2, <3>3 DEF CalibrationInv, LadderInv, Probes
  <2>3. ClimbInv' /\ ChosenInv'
    BY <2>1 DEF CalibrationInv, ClimbInv, ChosenInv
  <2> QED
    BY <2>2, <2>3 DEF CalibrationInv
<1>2. CASE StartProbing
  <2>1. /\ pc = "sample" /\ pc' = "probe" /\ UNCHANGED <<call, found, probes, conc>>
    BY <1>2 DEF StartProbing, Sampled
  <2>2. LadderInv'
    <3>1. Levels' = Levels /\ ToSet(found)' = ToSet(found)
      BY <2>1 DEF Levels, ToSet
    <3> QED
      BY <2>1, <3>1 DEF CalibrationInv, LadderInv, Probes
  <2>3. ClimbInv' /\ ChosenInv'
    BY <2>1 DEF CalibrationInv, ClimbInv, ChosenInv
  <2> QED
    BY <2>2, <2>3 DEF CalibrationInv
<1>3. CASE ProbeGains
  BY <1>3, Climbing
<1>4. CASE ProbeIsMarginal \/ ProbeIsSlow
  BY <1>4, LastProbe
<1>5. CASE SampleFails \/ TooFewToCalibrate \/ LadderEnds
  <2>1. /\ UNCHANGED <<call, probes, conc>>
        /\ pc \in {"sample", "probe"} /\ pc' \notin {"sample", "probe"}
    BY <1>5 DEF SampleFails, Fails, TooFewToCalibrate, Sampled, LadderEnds
  <2> QED
    BY <2>1, LeavingLadder
<1>6. CASE Walk \/ DiffBatch
  <2>1. /\ UNCHANGED <<call, probes, conc>>
        /\ pc \notin {"sample", "probe"} /\ pc' \notin {"sample", "probe"}
    <3>1. CASE StartWalk
      BY <3>1 DEF StartWalk
    <3>2. CASE Visit
      BY <3>2 DEF Visit
    <3>3. CASE VisitLevel
      BY <3>3 DEF VisitLevel
    <3>4. CASE VisitFails \/ LevelFails \/ DiffFails
      BY <3>4 DEF VisitFails, LevelFails, DiffFails, Fails
    <3>5. CASE WalkEnds
      BY <3>5 DEF WalkEnds
    <3>6. CASE Diff
      BY <3>6 DEF Diff
    <3>7. CASE DiffsEnd
      BY <3>7 DEF DiffsEnd
    <3> QED
      BY <1>6, <3>1, <3>2, <3>3, <3>4, <3>5, <3>6, <3>7 DEF Walk, DiffBatch
  <2> QED
    BY <2>1, OtherSteps
<1>7. CASE UNCHANGED vars
  <2>1. UNCHANGED <<call, pc, found, probes, conc>>
    BY <1>7 DEF vars
  <2>2. /\ Levels' = Levels /\ ToSet(found)' = ToSet(found) /\ (Chosen' <=> Chosen)
    BY <2>1 DEF Levels, ToSet, Chosen, QueuesUp, Faster
  <2>3. LadderInv'
    BY <2>1, <2>2 DEF CalibrationInv, LadderInv, Probes
  <2>4. ClimbInv'
    BY <2>1 DEF CalibrationInv, ClimbInv, QueuesUp, AtMost
  <2>5. ChosenInv'
    BY <2>1, <2>2 DEF CalibrationInv, ChosenInv, QueuesUp
  <2> QED
    BY <2>3, <2>4, <2>5 DEF CalibrationInv
<1> QED
  BY <1>1, <1>2, <1>3, <1>4, <1>5, <1>6, <1>7 DEF Next, Calibrate

(* What the invariant says of the level, at every point of a call.         *)
LEMMA CalibrationInvIsSafe ==
  ASSUME CalibrationInv
  PROVE  CalibrationSafe
<1>1. \A k \in DOMAIN probes : QueuesUp(probes[k]) => k = Len(probes) /\ pc # "probe"
  BY DEF CalibrationInv, ClimbInv, ChosenInv
<1>2. conc = 1 \/ call.op = "diff" \/ \E k \in DOMAIN probes :
        /\ probes[k].level = conc /\ ~QueuesUp(probes[k])
        /\ pc # "probe" => \A j \in DOMAIN probes : ~Faster(probes[j], probes[k])
  <2>1. CASE pc = "probe" /\ probes # <<>>
    <3>1. Len(probes) \in DOMAIN probes
      BY <2>1 DEF CalibrationInv, LadderInv
    <3> QED
      BY <2>1, <3>1 DEF CalibrationInv, ClimbInv
  <2>2. CASE pc = "sample" \/ probes = <<>>
    BY <2>2 DEF CalibrationInv, ClimbInv
  <2>3. CASE pc \notin {"sample", "probe"}
    BY <2>3 DEF CalibrationInv, ChosenInv, Chosen
  <2> QED
    BY <2>1, <2>2, <2>3
<1>3. call.onRootDisk # {} =>
        \A k \in DOMAIN probes : probes[k].level <= Last(SHARED_DISK_LEVELS)
  <2> SUFFICES ASSUME call.onRootDisk # {}, NEW k \in DOMAIN probes
               PROVE  probes[k].level <= Last(SHARED_DISK_LEVELS)
    OBVIOUS
  <2> DEFINE ladder == SHARED_DISK_LEVELS
  <2>1. Levels = ladder
    BY LevelsFacts
  <2>2. /\ ladder \in Seq(Nat \ {0}) /\ Len(ladder) > 1 /\ Last(ladder) = ladder[Len(ladder)]
        /\ \A j, l \in DOMAIN ladder : j < l => ladder[j] < ladder[l]
    BY <2>1, LevelsFacts DEF Last
  <2>3. k \in DOMAIN ladder /\ probes[k].level = ladder[k]
    BY <2>1, <2>2 DEF CalibrationInv, LadderInv
  <2> HIDE DEF ladder
  <2>4. Len(ladder) \in DOMAIN ladder /\ (k < Len(ladder) \/ k = Len(ladder))
    BY <2>2, <2>3
  <2>5. ladder[k] \in Nat /\ ladder[Len(ladder)] \in Nat
    BY <2>2, <2>3, <2>4
  <2>6. ladder[k] <= ladder[Len(ladder)]
    BY <2>2, <2>3, <2>4, <2>5
  <2> QED
    BY <2>2, <2>3, <2>6 DEF ladder
<1> QED
  BY <1>1, <1>2, <1>3 DEF CalibrationSafe

(* Whatever the probes measure, calibration climbs no further than a rung  *)
(* that queued up, tries nothing above the shared ceiling on a store that  *)
(* shares the system's disk, and returns 1 or a level that was tried, did  *)
(* not queue up and is within the gain of the fastest                      *)
(* (calibrate_concurrency_with_levels).                                    *)
THEOREM CalibrationIsSafe == Spec => []CalibrationSafe
<1>1. Init => CalibrationInv
  BY InitCalibration
<1>2. CalibrationInv /\ [Next]_vars => CalibrationInv'
  BY NextCalibration
<1>3. CalibrationInv => CalibrationSafe
  BY CalibrationInvIsSafe
<1> QED
  BY <1>1, <1>2, <1>3, PTL DEF Spec

-----------------------------------------------------------------------------
(* Numbers, sequences and sets                                             *)

(* A set of numbers has a least one.                                       *)
LEMMA LeastNumber ==
  ASSUME NEW S \in SUBSET Nat, S # {}
  PROVE  \E k \in S : \A j \in S : k <= j
<1> DEFINE R == OpToRel(<, Nat)
<1>1. IsWellFoundedOn(R, Nat)
  BY NatLessThanWellFounded
<1>2. R = {ss \in Nat \X Nat : ss[1] < ss[2]}
  BY Zenon DEF OpToRel
<1> HIDE DEF R
<1>3. \A j, k \in Nat : j < k => <<j, k>> \in R
  BY <1>2
<1>4. PICK k \in S : \A j \in S : ~(<<j, k>> \in R)
  BY <1>1, WFMin, Zenon
<1>5. \A j \in S : ~(j < k)
  BY <1>3, <1>4
<1>6. \A j, l \in Nat : ~(j < l) => l <= j
  OBVIOUS
<1> QED
  BY <1>5, <1>6

(* Induction, over a set of numbers.                                       *)
LEMMA NumbersFrom0 ==
  ASSUME NEW T \in SUBSET Nat, 0 \in T, \A k \in T : k + 1 \in T
  PROVE  \A k \in Nat : k \in T
<1> SUFFICES ASSUME Nat \ T # {}
             PROVE  FALSE
  OBVIOUS
<1>1. PICK k \in Nat \ T : \A j \in Nat \ T : k <= j
  BY LeastNumber
<1>2. k # 0 /\ k - 1 \in Nat /\ (k - 1) + 1 = k /\ ~(k <= k - 1)
  BY <1>1
<1> QED
  BY <1>1, <1>2

(* A sequence in some order of a finite set.                               *)
LEMMA UnvisitedFacts ==
  ASSUME NEW hashes, NEW seen, IsFiniteSet(hashes)
  PROVE  /\ Unvisited(hashes, seen) \in Seq(hashes \ seen)
         /\ IsInjective(Unvisited(hashes, seen))
         /\ ToSet(Unvisited(hashes, seen)) = hashes \ seen
<1> DEFINE S == hashes \ seen
           n == Cardinality(S)
           Order(f) == f \in [1..n -> S] /\ IsInjective(f)
<1>1. IsFiniteSet(S)
  BY FS_Subset
<1> HIDE DEF S
<1>2. n \in Nat /\ ExistsBijection(1..n, S) /\ IsFiniteSet(1..n) /\ Cardinality(1..n) = n
  BY <1>1, FS_CardinalityType, FS_Interval
<1> HIDE DEF n
<1>3. \E f \in [1..n -> S] : IsInjective(f)
  BY <1>2 DEF ExistsBijection, Bijection, Injection
<1>4. PICK f \in [1..n -> S] : f = Unvisited(hashes, seen) /\ IsInjective(f)
  BY <1>3, Zenon DEF Unvisited, SetToSeq, S, n
<1>5. f \in Seq(S)
  BY <1>2, <1>4
<1>6. f \in Injection(1..n, S)
  BY <1>4 DEF Injection
<1>7. f \in Surjection(1..n, S)
  BY <1>1, <1>2, <1>6, FS_Injection DEF n
<1>8. ToSet(f) = S
  BY <1>4, <1>7 DEF Surjection, ToSet
<1> QED
  BY <1>4, <1>5, <1>8 DEF S

(* The top of a stack and what is below it.                                *)
LEMMA TopFacts ==
  ASSUME NEW S, NEW s \in Seq(S), s # <<>>
  PROVE  /\ Front(s) \in Seq(S) /\ Last(s) \in S /\ Last(s) \in ToSet(s)
         /\ ToSet(s) = ToSet(Front(s)) \cup {Last(s)}
<1>1. /\ Len(s) \in Nat \ {0} /\ DOMAIN s = 1..Len(s) /\ \A k \in 1..Len(s) : s[k] \in S
      /\ Front(s) = SubSeq(s, 1, Len(s) - 1) /\ Last(s) = s[Len(s)]
  BY DEF Front, Last
<1>2. /\ Front(s) \in Seq(S) /\ DOMAIN Front(s) = 1..(Len(s) - 1)
      /\ \A k \in 1..(Len(s) - 1) : Front(s)[k] = s[k]
  BY <1>1
<1>3. 1..Len(s) = (1..(Len(s) - 1)) \cup {Len(s)}
  BY <1>1
<1>4. \A x : x \in ToSet(s) <=> x \in ToSet(Front(s)) \cup {Last(s)}
  BY <1>1, <1>2, <1>3, Zenon DEF ToSet
<1>5. ToSet(s) = ToSet(Front(s)) \cup {Last(s)}
  BY <1>4, Zenon
<1> QED
  BY <1>1, <1>2, <1>5

(* What a concatenation holds, and when it repeats nothing.                *)
LEMMA ConcatFacts ==
  ASSUME NEW S, NEW s \in Seq(S), NEW t \in Seq(S)
  PROVE  /\ s \o t \in Seq(S) /\ ToSet(s \o t) = ToSet(s) \cup ToSet(t)
         /\ IsInjective(s) /\ IsInjective(t) /\ ToSet(s) \cap ToSet(t) = {} => IsInjective(s \o t)
<1> DEFINE m == Len(s)
           n == Len(t)
           u == s \o t
<1>1. /\ m \in Nat /\ n \in Nat /\ DOMAIN s = 1..m /\ DOMAIN t = 1..n
      /\ u \in Seq(S) /\ DOMAIN u = 1..(m + n)
      /\ \A k \in 1..m : u[k] = s[k]
      /\ \A k \in (m + 1)..(m + n) : u[k] = t[k - m]
  OBVIOUS
<1>2. \A k \in 1..n : u[m + k] = t[k]
  <2> TAKE k \in 1..n
  <2>1. m + k \in (m + 1)..(m + n) /\ (m + k) - m = k
    BY <1>1
  <2> QED
    BY <1>1, <2>1
<1> HIDE DEF m, n, u
<1>3. \A k \in 1..(m + n) : k \in 1..m \/ \E j \in 1..n : k = m + j
  <2> TAKE k \in 1..(m + n)
  <2>1. CASE k > m
    <3>1. k - m \in 1..n /\ k = m + (k - m)
      BY <1>1, <2>1
    <3> QED
      BY <3>1
  <2>2. CASE ~(k > m)
    BY <1>1, <2>2
  <2> QED
    BY <2>1, <2>2
<1>4. (\A k \in 1..m : k \in 1..(m + n)) /\ (\A k \in 1..n : m + k \in 1..(m + n))
  BY <1>1
<1>5. ToSet(u) = ToSet(s) \cup ToSet(t)
  <2>1. \A x \in ToSet(s) : x \in ToSet(u)
    BY <1>1, <1>4 DEF ToSet
  <2>2. \A x \in ToSet(t) : x \in ToSet(u)
    <3> SUFFICES ASSUME NEW k \in 1..n
                 PROVE  t[k] \in ToSet(u)
      BY <1>1, Zenon DEF ToSet
    <3>1. m + k \in DOMAIN u
      BY <1>1, <1>4
    <3>2. u[m + k] \in ToSet(u)
      BY <3>1, Zenon DEF ToSet
    <3> QED
      BY <1>2, <3>2
  <2>3. \A x \in ToSet(u) : x \in ToSet(s) \cup ToSet(t)
    <3> SUFFICES ASSUME NEW k \in 1..(m + n)
                 PROVE  u[k] \in ToSet(s) \cup ToSet(t)
      BY <1>1, Zenon DEF ToSet
    <3>1. CASE k \in 1..m
      BY <1>1, <3>1, Zenon DEF ToSet
    <3>2. CASE k \notin 1..m
      <4>1. PICK j \in 1..n : k = m + j
        BY <1>3, <3>2
      <4> QED
        BY <1>1, <1>2, <4>1, Zenon DEF ToSet
    <3> QED
      BY <3>1, <3>2
  <2> QED
    BY <2>1, <2>2, <2>3, Zenon
<1>6. ASSUME IsInjective(s), IsInjective(t), ToSet(s) \cap ToSet(t) = {}
      PROVE  IsInjective(u)
  <2>1. \A j \in 1..m, k \in 1..n : s[j] # t[k]
    BY <1>1, <1>6 DEF ToSet
  <2>2. \A j, k \in 1..m : s[j] = s[k] => j = k
    BY <1>1, <1>6 DEF IsInjective
  <2>3. \A j, k \in 1..n : t[j] = t[k] => j = k
    BY <1>1, <1>6 DEF IsInjective
  <2> SUFFICES ASSUME NEW j \in 1..(m + n), NEW k \in 1..(m + n), u[j] = u[k]
               PROVE  j = k
    BY <1>1 DEF IsInjective
  <2>4. CASE j \in 1..m /\ k \in 1..m
    BY <1>1, <2>2, <2>4
  <2>5. CASE j \in 1..m /\ k \notin 1..m
    BY <1>1, <1>2, <1>3, <2>1, <2>5
  <2>6. CASE j \notin 1..m /\ k \in 1..m
    BY <1>1, <1>2, <1>3, <2>1, <2>6
  <2>7. CASE j \notin 1..m /\ k \notin 1..m
    BY <1>2, <1>3, <2>3, <2>7
  <2> QED
    BY <2>4, <2>5, <2>6, <2>7
<1> QED
  BY <1>1, <1>5, <1>6 DEF u

(* Adding an element that is not there.                                    *)
LEMMA AppendFacts ==
  ASSUME NEW S, NEW s \in Seq(S), NEW x \in S
  PROVE  /\ Append(s, x) \in Seq(S) /\ ToSet(Append(s, x)) = ToSet(s) \cup {x}
         /\ IsInjective(s) /\ x \notin ToSet(s) => IsInjective(Append(s, x))
<1>1. Append(s, x) = s \o <<x>> /\ <<x>> \in Seq(S)
  OBVIOUS
<1>2. ToSet(<<x>>) = {x} /\ IsInjective(<<x>>)
  BY DEF ToSet, IsInjective
<1> DEFINE e == <<x>>
<1>3. e \in Seq(S) /\ IsInjective(e)
  BY <1>1, <1>2
<1> HIDE DEF e
<1>4. /\ s \o e \in Seq(S) /\ ToSet(s \o e) = ToSet(s) \cup ToSet(e)
      /\ IsInjective(s) /\ ToSet(s) \cap ToSet(e) = {} => IsInjective(s \o e)
  BY <1>3, ConcatFacts
<1>5. Append(s, x) = s \o e /\ ToSet(e) = {x}
  BY <1>1, <1>2 DEF e
<1> QED
  BY <1>4, <1>5

(* Without repetitions, a sequence is as long as its set is large.         *)
LEMMA InjectiveHasNoDuplicates ==
  ASSUME NEW S, NEW s \in Seq(S), IsInjective(s)
  PROVE  NoDuplicates(s)
<1> DEFINE n == Len(s)
           T == ToSet(s)
<1>1. n \in Nat /\ DOMAIN s = 1..n /\ s \in [1..n -> T]
  BY DEF ToSet
<1>2. IsFiniteSet(1..n) /\ Cardinality(1..n) = n
  BY <1>1, FS_Interval
<1>3. s \in Surjection(1..n, T) /\ s \in Injection(1..n, T)
  BY <1>1 DEF Surjection, Injection, ToSet
<1>4. ExistsBijection(1..n, T)
  BY <1>3 DEF ExistsBijection, Bijection
<1>5. Cardinality(T) = n
  BY <1>2, <1>4, FS_Bijection
<1> QED
  BY <1>5 DEF NoDuplicates

-----------------------------------------------------------------------------
(* The nodes of a tree                                                     *)

(* The nodes at one depth are the children of those above it.              *)
LEMMA AtDepthFacts ==
  ASSUME NEW root
  PROVE  /\ AtDepth(root)[0] = {root} \ {ZERO_HASH}
         /\ \A k \in Nat : AtDepth(root)[k + 1] = UNION {child_hashes(n) : n \in AtDepth(root)[k]}
<1> DEFINE at[depth \in Nat] == IF depth = 0 THEN {root} \ {ZERO_HASH}
                                ELSE UNION {child_hashes(node) : node \in at[depth - 1]}
           Step(f) == [depth \in Nat |-> IF depth = 0 THEN {root} \ {ZERO_HASH}
                                         ELSE UNION {child_hashes(node) : node \in f[depth - 1]}]
           To(f, k) == f = [depth \in Nat |-> f[depth]]
                       /\ \A j \in Nat : j <= k => f[j] = Step(f)[j]
           Defined == {k \in Nat : \E f : To(f, k)}
<1>0. /\ \A k \in Nat : k # 0 => k - 1 \in Nat
      /\ \A f : Step(f)[0] = {root} \ {ZERO_HASH}
      /\ \A f : \A k \in Nat : k # 0 => Step(f)[k] = UNION {child_hashes(node) : node \in f[k - 1]}
  OBVIOUS
<1>1. \A k \in Nat : k \in Defined
  <2>1. 0 \in Defined
    <3> DEFINE f == [depth \in Nat |-> {root} \ {ZERO_HASH}]
    <3>1. To(f, 0)
      OBVIOUS
    <3> HIDE DEF f, To
    <3> QED
      BY <3>1
  <2>2. ASSUME NEW k \in Defined PROVE k + 1 \in Defined
    <3>1. PICK f : To(f, k)
      OBVIOUS
    <3> DEFINE g == Step(f)
    <3>2. g = [depth \in Nat |-> g[depth]]
      OBVIOUS
    <3>3. ASSUME NEW j \in Nat, j <= k + 1
          PROVE  g[j] = Step(g)[j]
      <4>1. CASE j = 0
        BY <4>1
      <4>2. CASE j # 0
        <5>1. j - 1 \in Nat /\ j - 1 <= k
          BY <3>3, <4>2
        <5>2. f[j - 1] = g[j - 1]
          BY <3>1, <5>1
        <5> QED
          BY <1>0, <4>2, <5>2
      <4> QED
        BY <4>1, <4>2
    <3>4. To(g, k + 1)
      BY <3>2, <3>3
    <3>5. k + 1 \in Nat
      OBVIOUS
    <3> HIDE DEF g, To
    <3> QED
      BY <3>4, <3>5
  <2>3. Defined \in SUBSET Nat
    OBVIOUS
  <2> HIDE DEF Defined
  <2> QED
    BY <2>1, <2>2, <2>3, NumbersFrom0
<1>2. ASSUME NEW k \in Nat, NEW f, NEW g, To(f, k), To(g, k)
      PROVE  f[k] = g[k]
  <2> DEFINE Same == {j \in Nat : j <= k => f[j] = g[j]}
  <2>1. 0 \in Same
    BY <1>0, <1>2
  <2>2. ASSUME NEW j \in Same PROVE j + 1 \in Same
    <3>1. j + 1 \in Nat /\ j + 1 # 0 /\ (j + 1) - 1 = j /\ (j + 1 <= k => j <= k)
      OBVIOUS
    <3>2. ASSUME j + 1 <= k PROVE f[j + 1] = g[j + 1]
      <4>1. f[j] = g[j]
        BY <3>1, <3>2
      <4>2. f[j + 1] = Step(f)[j + 1] /\ g[j + 1] = Step(g)[j + 1]
        BY <1>2, <3>1, <3>2
      <4>3. /\ Step(f)[j + 1] = UNION {child_hashes(node) : node \in f[(j + 1) - 1]}
            /\ Step(g)[j + 1] = UNION {child_hashes(node) : node \in g[(j + 1) - 1]}
        BY <3>1
      <4> HIDE DEF Step
      <4> QED
        BY <3>1, <4>1, <4>2, <4>3
    <3> QED
      BY <3>1, <3>2
  <2>3. \A j \in Nat : j \in Same
    <3>1. Same \in SUBSET Nat
      OBVIOUS
    <3> HIDE DEF Same
    <3> QED
      BY <2>1, <2>2, <3>1, NumbersFrom0
  <2> QED
    BY <2>3
<1> DEFINE part(k) == CHOOSE f : To(f, k)
           all == [depth \in Nat |-> part(depth)[depth]]
<1>3. \A k \in Nat : To(part(k), k)
  <2> SUFFICES ASSUME NEW k \in Nat PROVE To(part(k), k)
    OBVIOUS
  <2>1. \E f : To(f, k)
    BY <1>1
  <2> HIDE DEF To
  <2> QED
    BY <2>1
<1>4. all[0] = {root} \ {ZERO_HASH}
  <2>1. all[0] = part(0)[0]
    OBVIOUS
  <2>2. To(part(0), 0)
    BY <1>3
  <2> HIDE DEF part, all
  <2>3. part(0)[0] = Step(part(0))[0]
    <3> HIDE DEF Step
    <3> QED
      BY <2>2
  <2> QED
    BY <2>1, <2>3
<1>5. \A k \in Nat : k # 0 => all[k] = UNION {child_hashes(node) : node \in all[k - 1]}
  <2> SUFFICES ASSUME NEW k \in Nat, k # 0
               PROVE  all[k] = UNION {child_hashes(node) : node \in all[k - 1]}
    OBVIOUS
  <2>1. k - 1 \in Nat
    BY <1>0
  <2>2. all[k] = part(k)[k] /\ all[k - 1] = part(k - 1)[k - 1]
    BY <2>1
  <2>3. To(part(k), k) /\ To(part(k - 1), k - 1)
    BY <1>3, <2>1
  <2> HIDE DEF part, all
  <2>4. To(part(k), k - 1)
    BY <2>1, <2>3
  <2>5. part(k)[k - 1] = part(k - 1)[k - 1]
    <3> HIDE DEF To
    <3> QED
      BY <1>2, <2>1, <2>3, <2>4
  <2>6. part(k)[k] = UNION {child_hashes(node) : node \in part(k)[k - 1]}
    BY <1>0, <2>3
  <2> QED
    BY <2>2, <2>5, <2>6
<1>6. all = Step(all)
  <2> DEFINE next == Step(all)
  <2>1. all = [depth \in Nat |-> all[depth]] /\ next = [depth \in Nat |-> next[depth]]
    OBVIOUS
  <2>2. \A k \in Nat : all[k] = next[k]
    <3> SUFFICES ASSUME NEW k \in Nat PROVE all[k] = next[k]
      OBVIOUS
    <3> HIDE DEF all
    <3>1. CASE k = 0
      <4>1. next[0] = {root} \ {ZERO_HASH}
        OBVIOUS
      <4> QED
        BY <1>4, <3>1, <4>1
    <3>2. CASE k # 0
      <4>1. next[k] = UNION {child_hashes(node) : node \in all[k - 1]}
        BY <3>2
      <4> QED
        BY <1>5, <3>2, <4>1
    <3> QED
      BY <3>1, <3>2
  <2> HIDE DEF all, next
  <2>3. [depth \in Nat |-> all[depth]] = [depth \in Nat |-> next[depth]]
    BY <2>2, Zenon
  <2>4. all = next
    BY <2>1, <2>3, Zenon
  <2> QED
    BY <2>4 DEF next
<1>7. at = Step(at)
  <2> HIDE DEF all
  <2> QED
    BY <1>6
<1>8. AtDepth(root) = at
  BY DEF AtDepth
<1> HIDE DEF at
<1>9. \A k \in Nat : k + 1 \in Nat /\ k + 1 # 0 /\ (k + 1) - 1 = k
  OBVIOUS
<1>10. at[0] = {root} \ {ZERO_HASH}
  BY <1>0, <1>7
<1>11. \A k \in Nat : at[k + 1] = UNION {child_hashes(n) : n \in at[k]}
  <2> HIDE DEF Step
  <2> QED
    BY <1>0, <1>7, <1>9
<1> QED
  BY <1>8, <1>10, <1>11

(* NodesOf is the least set with the root that has the children of every   *)
(* node above the last level.                                              *)
LEMMA NodesAreReached ==
  ASSUME NEW root, root # ZERO_HASH
  PROVE  /\ root \in NodesOf(root)
         /\ \A part : root \in part /\ (\A n \in part : child_hashes(n) \subseteq part)
              => NodesOf(root) \subseteq part
<1>1. KeyLen \in Nat /\ 0 \in 0..KeyLen /\ 0..KeyLen \subseteq Nat
  BY ShapeAssumption
<1> DEFINE at == AtDepth(root)
<1>2. NodesOf(root) = UNION {at[d] : d \in 0..KeyLen}
  BY DEF NodesOf
<1>3. at[0] = {root} /\ \A k \in Nat : at[k + 1] = UNION {child_hashes(n) : n \in at[k]}
  BY AtDepthFacts
<1> HIDE DEF at
<1>4. ASSUME NEW part, root \in part, \A n \in part : child_hashes(n) \subseteq part
      PROVE  NodesOf(root) \subseteq part
  <2> DEFINE Inside == {k \in Nat : at[k] \subseteq part}
  <2>1. 0 \in Inside
    BY <1>3, <1>4
  <2>2. ASSUME NEW k \in Inside PROVE k + 1 \in Inside
    <3>1. k \in Nat /\ k + 1 \in Nat /\ at[k] \subseteq part
      OBVIOUS
    <3>2. at[k + 1] \subseteq part
      BY <1>3, <1>4, <3>1
    <3> QED
      BY <3>1, <3>2
  <2>3. \A k \in Nat : k \in Inside
    <3>1. Inside \in SUBSET Nat
      OBVIOUS
    <3> HIDE DEF Inside
    <3> QED
      BY <2>1, <2>2, <3>1, NumbersFrom0
  <2>4. \A d \in 0..KeyLen : at[d] \subseteq part
    BY <1>1, <2>3
  <2> QED
    BY <1>2, <2>4
<1> QED
  BY <1>1, <1>2, <1>3, <1>4

(* A shard that answers for a hash answers with the hash's node, and so    *)
(* does the reader (get_wire tries each shard).                            *)
LEMMA NodeIsItsHash ==
  ASSUME SoundStores(call.shards), NEW h, Readable(h)
  PROVE  get_node(h) = h
<1> DEFINE Wire(s) == IF h \in DOMAIN call.shards[s]
                      THEN decode_value_to_wire(call.shards[s][h]) ELSE NoWire
           hits == {s \in DOMAIN call.shards : Wire(s) # NoWire}
<1>1. get_wire(h) = IF hits = {} THEN NoWire ELSE Wire(Min(hits))
  BY DEF get_wire
<1>2. hits # {}
  BY <1>1 DEF Readable
<1>3. \A s \in hits : Wire(s) = h
  BY DEF SoundStores, Authentic
<1>4. hits \subseteq Nat
  <2>1. call.shards \in Seq({call.shards[s] : s \in DOMAIN call.shards})
    BY DEF SoundStores
  <2>2. DOMAIN call.shards \subseteq Nat
    BY <2>1
  <2> QED
    BY <2>2
<1> HIDE DEF Wire, hits
<1>5. Min(hits) \in hits
  BY <1>2, <1>4, LeastNumber DEF Min
<1> QED
  BY <1>1, <1>2, <1>3, <1>5 DEF get_node

(* The children a walk meets are nodes of the tree, finitely many.         *)
LEMMA ChildrenFacts ==
  ASSUME WalksAreSound, call \in Calls, call.op = "walk",
         NEW h \in NodesOf(Root), Readable(h)
  PROVE  /\ Children(h) = child_hashes(h)
         /\ Children(h) \subseteq NodesOf(Root) /\ IsFiniteSet(Children(h))
<1>1. Children(h) = child_hashes(h)
  <2>1. SoundStores(call.shards)
    BY DEF WalksAreSound
  <2> QED
    BY <2>1, NodeIsItsHash DEF Children
<1>2. IsSHAMap(Root)
  BY DEF WalksAreSound, Root
<1>3. Children(h) \subseteq NodesOf(Root) /\ IsFiniteSet(NodesOf(Root))
  BY <1>1, <1>2 DEF IsSHAMap
<1> QED
  BY <1>1, <1>3, FS_Subset

(* A walk's root is in its tree, which is what is reached from it.          *)
LEMMA RootFacts ==
  ASSUME WalksAreSound, call \in Calls, call.op = "walk"
  PROVE  /\ Root \in NodesOf(Root)
         /\ \A part : Root \in part /\ (\A n \in part : child_hashes(n) \subseteq part)
              => NodesOf(Root) \subseteq part
<1>1. Root # ZERO_HASH
  BY DEF WalksAreSound, Root, IsSHAMap
<1> QED
  BY <1>1, NodesAreReached

-----------------------------------------------------------------------------
(* Walks                                                                   *)

(* A walk starts with its root to visit.                                   *)
LEMMA InitWalk ==
  ASSUME WalksAreSound, Init
  PROVE  WalkInv
<1>1. call \in Calls
  BY DEF Init
<1>2. ASSUME call.op = "walk"
      PROVE  OnWay
  <2>1. pc = "sample" /\ stack = <<Root>> /\ visited = {Root}
    BY <1>2 DEF Init
  <2>2. Root \in NodesOf(Root)
    BY <1>1, <1>2, RootFacts
  <2>3. ReachInv
    BY <2>1, <2>2 DEF ReachInv
  <2> QED
    BY <2>1, <2>3 DEF OnWay, SerialInv, LevelsInv
<1> QED
  BY <1>1, <1>2 DEF WalkInv

(* A walk's steps change no call, so the tree and what is readable stay.   *)
LEMMA TreeIsFixed ==
  ASSUME call' = call
  PROVE  /\ Root' = Root /\ NodesOf(Root)' = NodesOf(Root)
         /\ \A h : Readable(h)' <=> Readable(h)
<1>1. Root' = Root
  BY DEF Root
<1>2. NodesOf(Root)' = NodesOf(Root)
  BY DEF Root, NodesOf
<1>3. \A h : get_wire(h)' = get_wire(h)
  BY DEF get_wire
<1> QED
  BY <1>1, <1>2, <1>3 DEF Readable

\* A walk that has its tree, between two of its steps.
Walking == WalksAreSound /\ call \in Calls /\ call.op = "walk" /\ OnWay

(* The sample taken for calibration is of the tree's nodes.                *)
LEMMA SampleStep ==
  ASSUME Walking, Sample
  PROVE  OnWay'
<1> DEFINE N == NodesOf(Root)
           kids == Children(Top)
           new == Unvisited(kids, visited)
<1>1. /\ pc = "sample" /\ stack # <<>> /\ Readable(Top) /\ call' = call /\ pc' = "sample"
      /\ stack' = Front(stack) \o new /\ visited' = visited \cup kids
  BY DEF Sample
<1>2. stack \in Seq(N) /\ visited \subseteq N
  BY <1>1 DEF Walking, OnWay, ReachInv
<1>3. Front(stack) \in Seq(N) /\ Top \in N
  BY <1>1, <1>2, TopFacts DEF Top
<1>4. kids \subseteq N /\ IsFiniteSet(kids)
  BY <1>1, <1>3, ChildrenFacts DEF Walking
<1>5. new \in Seq(N)
  <2> HIDE DEF kids, N
  <2>1. new \in Seq(kids \ visited)
    BY <1>4, UnvisitedFacts
  <2> HIDE DEF new
  <2> QED
    BY <1>4, <2>1
<1>6. stack' \in Seq(N) /\ visited' \subseteq N
  <2> HIDE DEF kids, N, new
  <2> QED
    BY <1>1, <1>2, <1>3, <1>4, <1>5, ConcatFacts
<1>7. NodesOf(Root)' = N
  BY <1>1, TreeIsFixed
<1> QED
  BY <1>1, <1>6, <1>7 DEF OnWay, ReachInv, SerialInv, LevelsInv

(* Either walk starts anew: what the sample visited is forgotten.          *)
LEMMA StartWalkStep ==
  ASSUME Walking, StartWalk
  PROVE  OnWay'
<1> DEFINE N == NodesOf(Root)
<1>1. /\ call' = call /\ stack' = <<Root>> /\ found' = <<>>
      /\ \/ pc' = "serial" /\ visited' = {}
         \/ pc' = "levels" /\ visited' = {Root}
  BY DEF StartWalk
<1>2. Root' = Root /\ NodesOf(Root)' = N /\ Root \in N
  BY <1>1, TreeIsFixed, RootFacts DEF Walking
<1>3. /\ ToSet(<<>>) = {} /\ ToSet(<<Root>>) = {Root}
      /\ IsInjective(<<>>) /\ IsInjective(<<Root>>)
  BY DEF ToSet, IsInjective
<1>4. /\ stack' \in Seq(N) /\ visited' \subseteq N /\ found' \in Seq(N)
      /\ IsInjective(found') /\ IsInjective(stack')
      /\ ToSet(found') = {} /\ ToSet(stack') = {Root}
  BY <1>1, <1>2, <1>3
<1>5. ReachInv'
  BY <1>1, <1>2, <1>4 DEF ReachInv, IsInjective
<1>6. SerialInv'
  BY <1>1, <1>2, <1>4 DEF SerialInv, ToSet
<1>7. LevelsInv'
  BY <1>1, <1>2, <1>4 DEF LevelsInv, ToSet, IsInjective
<1> QED
  BY <1>1, <1>5, <1>6, <1>7 DEF OnWay

(* A call that fails has met an unreadable node of the tree.               *)
LEMMA FailStep ==
  ASSUME Walking, SampleFails \/ VisitFails \/ LevelFails
  PROVE  OnWay'
<1> DEFINE N == NodesOf(Root)
<1>1. /\ call' = call /\ pc' = "failed" /\ stack # <<>>
      /\ pc \in {"sample", "serial", "levels"}
      /\ ~Readable(Top) \/ \E k \in DOMAIN stack : ~Readable(stack[k])
  BY DEF SampleFails, VisitFails, LevelFails, Fails, Walking, OnWay
<1>2. stack \in Seq(N)
  BY <1>1 DEF Walking, OnWay, ReachInv
<1>3. \E n \in N : ~Readable(n)
  <2>1. Top \in N
    BY <1>1, <1>2, TopFacts DEF Top
  <2>2. \A k \in DOMAIN stack : stack[k] \in N
    BY <1>2
  <2> QED
    BY <1>1, <2>1, <2>2
<1>4. NodesOf(Root)' = N /\ \A h : Readable(h)' <=> Readable(h)
  BY <1>1, TreeIsFixed
<1>5. (\E n \in NodesOf(Root) : ~Readable(n))'
  BY <1>3, <1>4
<1> QED
  BY <1>1, <1>5 DEF OnWay, ReachInv, SerialInv, LevelsInv

(* Serial: a node met again is passed over, a new one is found once and its*)
(* children go on the stack.                                               *)
LEMMA VisitStep ==
  ASSUME Walking, Visit
  PROVE  OnWay'
<1> DEFINE N == NodesOf(Root)
           rest == Front(stack)
           kids == Children(Top)
           new == Unvisited(kids, visited')
<1>1. /\ call' = call /\ pc = "serial" /\ pc' = "serial" /\ stack # <<>>
      /\ Top \in visited \/ Readable(Top)
  BY DEF Visit, Walking, OnWay
<1>2. /\ stack \in Seq(N) /\ visited \subseteq N /\ found \in Seq(N) /\ IsInjective(found)
      /\ ToSet(found) = visited /\ Root \in visited \cup ToSet(stack)
      /\ \A n \in visited : child_hashes(n) \subseteq visited \cup ToSet(stack)
  BY <1>1 DEF Walking, OnWay, ReachInv, SerialInv
<1>3. rest \in Seq(N) /\ Top \in N /\ ToSet(stack) = ToSet(rest) \cup {Top}
  BY <1>1, <1>2, TopFacts DEF Top
<1>4. Root' = Root /\ NodesOf(Root)' = N
  BY <1>1, TreeIsFixed
<1>5. SUFFICES /\ stack' \in Seq(N) /\ visited' \subseteq N
               /\ found' \in Seq(N) /\ IsInjective(found')
               /\ ToSet(found') = visited' /\ Root \in visited' \cup ToSet(stack')
               /\ \A n \in visited' :
                    child_hashes(n) \subseteq visited' \cup ToSet(stack')
  <2>1. /\ ToSet(found)' = ToSet(found') /\ ToSet(stack)' = ToSet(stack')
        /\ IsInjective(found)' <=> IsInjective(found')
    BY DEF ToSet, IsInjective
  <2>2. ReachInv'
    BY <1>1, <1>4, <1>5, <2>1 DEF ReachInv
  <2>3. SerialInv'
    BY <1>4, <1>5, <2>1 DEF SerialInv
  <2> QED
    BY <1>1, <2>2, <2>3 DEF OnWay, LevelsInv
<1>6. CASE Top \in visited
  <2>1. stack' = rest /\ visited' = visited /\ found' = found
    BY <1>6 DEF Visit
  <2> HIDE DEF N, rest
  <2> QED
    BY <1>2, <1>3, <1>6, <2>1
<1>7. CASE Top \notin visited
  <2>1. /\ visited' = visited \cup {Top} /\ stack' = rest \o new
        /\ found' = Append(found, get_node(Top)) /\ Readable(Top)
    BY <1>1, <1>7 DEF Visit
  <2>2. found' = Append(found, Top)
    BY <2>1, NodeIsItsHash DEF Walking, WalksAreSound
  <2>3. kids = child_hashes(Top) /\ kids \subseteq N /\ IsFiniteSet(kids)
    BY <1>3, <2>1, ChildrenFacts DEF Walking
  <2> HIDE DEF N, rest, kids
  <2>4. new \in Seq(kids \ visited') /\ ToSet(new) = kids \ visited'
    BY <2>3, UnvisitedFacts
  <2> HIDE DEF new
  <2>5. new \in Seq(N)
    BY <2>3, <2>4
  <2>6. stack' \in Seq(N) /\ ToSet(stack') = ToSet(rest) \cup (kids \ visited')
    BY <1>3, <2>1, <2>4, <2>5, ConcatFacts
  <2>7. found' \in Seq(N) /\ ToSet(found') = visited' /\ IsInjective(found')
    BY <1>2, <1>3, <1>7, <2>1, <2>2, AppendFacts
  <2>8. visited \cup ToSet(stack) \subseteq visited' \cup ToSet(stack')
    BY <1>3, <2>1, <2>6
  <2>9. \A n \in visited' : child_hashes(n) \subseteq visited' \cup ToSet(stack')
    BY <1>2, <2>1, <2>3, <2>6, <2>8
  <2> QED
    BY <1>2, <1>3, <2>1, <2>6, <2>7, <2>8, <2>9
<1> QED
  BY <1>6, <1>7

(* By levels: a frontier has no node twice and none that was found before. *)
LEMMA VisitLevelStep ==
  ASSUME Walking, VisitLevel
  PROVE  OnWay'
<1> DEFINE N == NodesOf(Root)
           next == UNION {Children(h) : h \in ToSet(stack)}
           nodes == [k \in DOMAIN stack |-> get_node(stack[k])]
<1>1. /\ call' = call /\ pc = "levels" /\ pc' = "levels" /\ stack # <<>>
      /\ \A k \in DOMAIN stack : Readable(stack[k])
      /\ stack' = Unvisited(next, visited) /\ visited' = visited \cup next
      /\ found' = found \o nodes
  BY DEF VisitLevel
<1>2. /\ stack \in Seq(N) /\ visited \subseteq N /\ found \in Seq(N) /\ IsInjective(found)
      /\ IsInjective(stack) /\ ToSet(stack) \cap ToSet(found) = {}
      /\ visited = ToSet(found) \cup ToSet(stack) /\ Root \in visited
      /\ \A n \in ToSet(found) : child_hashes(n) \subseteq visited
  BY <1>1 DEF Walking, OnWay, ReachInv, LevelsInv
<1>3. \A h \in ToSet(stack) : h \in N /\ Readable(h)
  BY <1>1, <1>2 DEF ToSet
<1>4. nodes = stack
  <2>1. \A k \in DOMAIN stack : get_node(stack[k]) = stack[k]
    BY <1>1, NodeIsItsHash DEF Walking, WalksAreSound
  <2>2. stack = [k \in DOMAIN stack |-> stack[k]]
    BY <1>2
  <2> QED
    BY <2>1, <2>2
<1>5. \A h \in ToSet(stack) : Children(h) = child_hashes(h) /\ Children(h) \subseteq N
  BY <1>3, ChildrenFacts DEF Walking
<1>6. next \subseteq N /\ IsFiniteSet(next)
  <2>1. next \subseteq N
    BY <1>5
  <2>2. IsFiniteSet(N)
    BY DEF Walking, WalksAreSound, IsSHAMap, Root
  <2> QED
    BY <2>1, <2>2, FS_Subset
<1>7. \A n \in ToSet(stack) : child_hashes(n) \subseteq next
  BY <1>5
<1> HIDE DEF N, next, nodes
<1>8. /\ stack' \in Seq(next \ visited) /\ IsInjective(stack')
      /\ ToSet(stack') = next \ visited
  BY <1>1, <1>6, UnvisitedFacts
<1>9. stack' \in Seq(N)
  BY <1>6, <1>8
<1>10. /\ found' \in Seq(N) /\ IsInjective(found')
       /\ ToSet(found') = ToSet(found) \cup ToSet(stack)
  BY <1>1, <1>2, <1>4, ConcatFacts
<1>11. /\ ToSet(stack') \cap ToSet(found') = {} /\ Root \in visited' /\ visited' \subseteq N
       /\ visited' = ToSet(found') \cup ToSet(stack')
  BY <1>1, <1>2, <1>6, <1>8, <1>10
<1>12. \A n \in ToSet(found') : child_hashes(n) \subseteq visited'
  BY <1>1, <1>2, <1>7, <1>10
<1>13. Root' = Root /\ NodesOf(Root)' = N
  BY <1>1, TreeIsFixed DEF N
<1>14. /\ ToSet(found)' = ToSet(found') /\ ToSet(stack)' = ToSet(stack')
       /\ (IsInjective(found)' <=> IsInjective(found'))
       /\ (IsInjective(stack)' <=> IsInjective(stack'))
  BY DEF ToSet, IsInjective
<1>15. ReachInv'
  BY <1>1, <1>9, <1>10, <1>11, <1>13, <1>14 DEF ReachInv
<1>16. LevelsInv'
  BY <1>8, <1>11, <1>12, <1>13, <1>14 DEF LevelsInv
<1> QED
  BY <1>1, <1>15, <1>16 DEF OnWay, SerialInv

(* With nothing left to visit, what was visited is closed under children.  *)
LEMMA WalkEndsStep ==
  ASSUME Walking, WalkEnds
  PROVE  OnWay'
<1> DEFINE N == NodesOf(Root)
<1>1. /\ call' = call /\ pc \in {"serial", "levels"} /\ pc' = "done"
      /\ stack = <<>> /\ found' = found
  BY DEF WalkEnds, Walking, OnWay
<1>2. found \in Seq(N) /\ IsInjective(found) /\ visited \subseteq N
  BY <1>1 DEF Walking, OnWay, ReachInv
<1>3. ToSet(stack) = {}
  BY <1>1 DEF ToSet
<1>4. /\ ToSet(found) = visited /\ Root \in visited
      /\ \A n \in visited : child_hashes(n) \subseteq visited
  <2>1. CASE pc = "serial"
    BY <1>3, <2>1 DEF Walking, OnWay, SerialInv
  <2>2. CASE pc = "levels"
    BY <1>3, <2>2 DEF Walking, OnWay, LevelsInv
  <2> QED
    BY <1>1, <2>1, <2>2
<1>5. N \subseteq visited
  BY <1>4, RootFacts DEF Walking
<1>6. Root' = Root /\ NodesOf(Root)' = N
  BY <1>1, TreeIsFixed
<1>7. /\ ToSet(found)' = ToSet(found) /\ (IsInjective(found)' <=> IsInjective(found))
  BY <1>1 DEF ToSet, IsInjective
<1>8. ReachInv'
  BY <1>1, <1>2, <1>6, <1>7 DEF ReachInv
<1>9. (ToSet(found) = NodesOf(Root))'
  <2>1. ToSet(found) = N
    <3> HIDE DEF N
    <3> QED
      BY <1>2, <1>4, <1>5
  <2> HIDE DEF N
  <2> QED
    BY <1>6, <1>7, <2>1
<1> QED
  BY <1>1, <1>8, <1>9 DEF OnWay, SerialInv, LevelsInv

(* Every step of a walk preserves its invariant.                           *)
LEMMA NextWalk ==
  ASSUME WalksAreSound, WalkInv, [Next]_vars
  PROVE  WalkInv'
<1>1. call' = call
  <2>1. CASE Calibrate
    BY <2>1 DEF Calibrate, Sample, SampleFails, Fails, TooFewToCalibrate, StartProbing,
                ProbeGains, ProbeIsMarginal, ProbeIsSlow, LadderEnds
  <2>2. CASE Walk
    BY <2>2 DEF Walk, StartWalk, Visit, VisitFails, Fails, VisitLevel, LevelFails, WalkEnds
  <2>3. CASE DiffBatch
    BY <2>3 DEF DiffBatch, Diff, DiffFails, Fails, DiffsEnd
  <2>4. CASE UNCHANGED vars
    BY <2>4 DEF vars
  <2> QED
    BY <2>1, <2>2, <2>3, <2>4 DEF Next
<1> SUFFICES ASSUME call.op = "walk"
             PROVE  OnWay'
  BY <1>1 DEF WalkInv
<1>2. Walking
  BY DEF Walking, WalkInv
<1>3. CASE Sample
  BY <1>2, <1>3, SampleStep
<1>4. CASE \/ TooFewToCalibrate \/ StartProbing
           \/ ProbeGains \/ ProbeIsMarginal \/ ProbeIsSlow \/ LadderEnds
  <2>1. pc' \in {"probe", "chosen"}
    BY <1>4 DEF TooFewToCalibrate, StartProbing, ProbeGains, CanProbe,
                ProbeIsMarginal, ProbeIsSlow, LadderEnds
  <2> QED
    BY <2>1 DEF OnWay, ReachInv, SerialInv, LevelsInv
<1>5. CASE StartWalk
  BY <1>2, <1>5, StartWalkStep
<1>6. CASE Visit
  BY <1>2, <1>6, VisitStep
<1>7. CASE VisitLevel
  BY <1>2, <1>7, VisitLevelStep
<1>8. CASE SampleFails \/ VisitFails \/ LevelFails
  BY <1>2, <1>8, FailStep
<1>9. CASE WalkEnds
  BY <1>2, <1>9, WalkEndsStep
<1>10. CASE DiffBatch
  BY <1>2, <1>10 DEF DiffBatch, Diff, DiffFails, DiffsEnd, Walking, OnWay
<1>11. CASE UNCHANGED vars
  <2>1. UNCHANGED <<pc, stack, visited, found>>
    BY <1>11 DEF vars
  <2>2. Root' = Root /\ NodesOf(Root)' = NodesOf(Root) /\ \A h : Readable(h)' <=> Readable(h)
    BY <1>1, TreeIsFixed
  <2>3. /\ ToSet(found)' = ToSet(found) /\ ToSet(stack)' = ToSet(stack)
        /\ (IsInjective(found)' <=> IsInjective(found))
        /\ (IsInjective(stack)' <=> IsInjective(stack))
    BY <2>1 DEF ToSet, IsInjective
  <2>4. ReachInv'
    BY <1>2, <2>1, <2>2, <2>3 DEF Walking, OnWay, ReachInv
  <2>5. SerialInv' /\ LevelsInv'
    BY <1>2, <2>1, <2>2, <2>3 DEF Walking, OnWay, SerialInv, LevelsInv
  <2> QED
    BY <1>2, <2>1, <2>2, <2>3, <2>4, <2>5 DEF Walking, OnWay
<1> QED
  BY <1>3, <1>4, <1>5, <1>6, <1>7, <1>8, <1>9, <1>10, <1>11 DEF Next, Calibrate, Walk

(* For any trees, shards, ladders and latencies: a walk that returns has   *)
(* every node of the tree, each once, whatever the level of concurrency;   *)
(* it gives up only on a tree with an unreadable node (collect_reachable,  *)
(* collect_reachable_concurrent).  WalksAreSound says that the root is a   *)
(* SHAMap's and that what a shard holds under a hash is its node or none.  *)
THEOREM WalkIsExact ==
  ASSUME WalksAreSound
  PROVE  Spec => []WalkExact
<1>1. Init => WalkInv
  BY InitWalk
<1>2. WalkInv /\ [Next]_vars => WalkInv'
  BY NextWalk
<1>3. WalkInv => WalkExact
  <2> SUFFICES ASSUME WalkInv, call.op = "walk"
               PROVE  /\ pc = "done" => NoDuplicates(found) /\ ToSet(found) = NodesOf(Root)
                      /\ pc = "failed" => \E n \in NodesOf(Root) : ~Readable(n)
    BY DEF WalkExact
  <2>1. ReachInv /\ (pc = "done" => ToSet(found) = NodesOf(Root))
    BY DEF WalkInv, OnWay
  <2>2. pc = "done" => NoDuplicates(found)
    BY <2>1, InjectiveHasNoDuplicates DEF ReachInv
  <2> QED
    BY <2>1, <2>2 DEF ReachInv
<1> QED
  BY <1>1, <1>2, <1>3, PTL DEF Spec

-----------------------------------------------------------------------------
(* Recursions over a tree, and their values at an empty slot               *)

\* A step of a recursion: what it gives for a level of the domain depends on the
\* values at the level below alone, and the levels reach the whole domain.
LevelByLevel(D, R, Step, Level) ==
  /\ Step \in [[D -> R] -> [D -> R]] /\ [D -> R] # {}
  /\ Level[0] = {} /\ (\A k \in Nat : Level[k] \subseteq D) /\ \E k \in Nat : Level[k] = D
  /\ \A k \in Nat : \A f, g \in [D -> R] :
       (\A x \in Level[k] : f[x] = g[x]) => \A x \in Level[k + 1] : Step[f][x] = Step[g][x]

(* Such a recursion defines a function.                                    *)
LEMMA Recursion ==
  ASSUME NEW D, NEW R, NEW Step, NEW Level, LevelByLevel(D, R, Step, Level)
  PROVE  \E f \in [D -> R] : f = Step[f]
<1> DEFINE Solved == {k \in Nat : \E f \in [D -> R] : \A x \in Level[k] : f[x] = Step[f][x]}
<1>0. /\ Step \in [[D -> R] -> [D -> R]] /\ [D -> R] # {}
      /\ Level[0] = {} /\ (\A k \in Nat : Level[k] \subseteq D) /\ \E k \in Nat : Level[k] = D
      /\ \A k \in Nat : \A f, g \in [D -> R] :
           (\A x \in Level[k] : f[x] = g[x]) => \A x \in Level[k + 1] : Step[f][x] = Step[g][x]
  BY Zenon DEF LevelByLevel
<1>1. 0 \in Solved
  BY <1>0
<1>2. ASSUME NEW k \in Solved PROVE k + 1 \in Solved
  <2>1. PICK f \in [D -> R] : \A x \in Level[k] : f[x] = Step[f][x]
    OBVIOUS
  <2>2. k \in Nat /\ k + 1 \in Nat /\ Step[f] \in [D -> R]
    BY <1>0
  <2>3. \A x \in Level[k + 1] : Step[f][x] = Step[Step[f]][x]
    BY <1>0, <2>1, <2>2
  <2> QED
    BY <2>2, <2>3
<1>3. \A k \in Nat : k \in Solved
  <2>1. Solved \in SUBSET Nat
    OBVIOUS
  <2> HIDE DEF Solved
  <2> QED
    BY <1>1, <1>2, <2>1, NumbersFrom0
<1>4. PICK f \in [D -> R] : \A x \in D : f[x] = Step[f][x]
  BY <1>0, <1>3
<1>5. Step[f] \in [D -> R]
  BY <1>0
<1>6. f = Step[f]
  BY <1>4, <1>5
<1> QED
  BY <1>6

-----------------------------------------------------------------------------
(* Trees by depth                                                          *)

(* Nothing is under an empty slot.                                         *)
LEMMA NoTree ==
  /\ \A k \in Nat : AtDepth(ZERO_HASH)[k] = {}
  /\ NodesOf(ZERO_HASH) = {} /\ LeavesOf(ZERO_HASH) = {}
<1>1. \A k \in Nat : AtDepth(ZERO_HASH)[k] = {}
  <2> DEFINE at == AtDepth(ZERO_HASH)
             None == {k \in Nat : at[k] = {}}
  <2>1. at[0] = {} /\ \A k \in Nat : at[k + 1] = UNION {child_hashes(n) : n \in at[k]}
    BY AtDepthFacts
  <2> HIDE DEF at
  <2>2. 0 \in None /\ \A k \in None : k + 1 \in None
    BY <2>1
  <2>3. \A k \in Nat : k \in None
    <3>1. None \in SUBSET Nat
      OBVIOUS
    <3> HIDE DEF None
    <3> QED
      BY <2>2, <3>1, NumbersFrom0
  <2> QED
    BY <2>3 DEF at
<1>2. \A k \in 0..KeyLen : k \in Nat
  BY ShapeAssumption
<1> QED
  BY <1>1, <1>2 DEF NodesOf, LeavesOf

(* The nodes of a tree are not empty slots.                                *)
LEMMA NodesAreNotZero ==
  ASSUME NEW root, NEW k \in Nat
  PROVE  ZERO_HASH \notin AtDepth(root)[k]
<1>1. CASE k = 0
  BY <1>1, AtDepthFacts
<1>2. CASE k # 0
  <2>1. k - 1 \in Nat /\ (k - 1) + 1 = k
    BY <1>2
  <2>2. AtDepth(root)[k] = UNION {child_hashes(n) : n \in AtDepth(root)[k - 1]}
    BY <2>1, AtDepthFacts
  <2> QED
    BY <2>2 DEF child_hashes
<1> QED
  BY <1>1, <1>2

(* What is below a depth is below the nodes there.                         *)
LEMMA DepthsAdd ==
  ASSUME NEW root, NEW k \in Nat, NEW j \in Nat
  PROVE  AtDepth(root)[k + j] = UNION {AtDepth(n)[j] : n \in AtDepth(root)[k]}
<1> DEFINE at == AtDepth(root)
           Adds == {i \in Nat : at[k + i] = UNION {AtDepth(n)[i] : n \in at[k]}}
<1>1. \A i \in Nat : at[i + 1] = UNION {child_hashes(n) : n \in at[i]}
  BY AtDepthFacts
<1>2. ZERO_HASH \notin at[k]
  BY NodesAreNotZero
<1> HIDE DEF at
<1>3. 0 \in Adds
  <2>1. \A n \in at[k] : AtDepth(n)[0] = {n}
    BY <1>2, AtDepthFacts
  <2>2. UNION {AtDepth(n)[0] : n \in at[k]} = at[k]
    BY <2>1
  <2>3. k + 0 = k
    OBVIOUS
  <2> QED
    BY <2>2, <2>3
<1>4. ASSUME NEW i \in Adds PROVE i + 1 \in Adds
  <2>1. i \in Nat /\ i + 1 \in Nat /\ k + i \in Nat /\ k + (i + 1) = (k + i) + 1
    OBVIOUS
  <2>2. at[k + i] = UNION {AtDepth(n)[i] : n \in at[k]}
    OBVIOUS
  <2>3. at[(k + i) + 1] = UNION {child_hashes(n) : n \in at[k + i]}
    BY <1>1, <2>1
  <2>4. \A n : AtDepth(n)[i + 1] = UNION {child_hashes(m) : m \in AtDepth(n)[i]}
    BY <2>1, AtDepthFacts
  <2>5. \A x : x \in UNION {child_hashes(n) : n \in at[k + i]}
                 <=> x \in UNION {AtDepth(n)[i + 1] : n \in at[k]}
    BY <2>2, <2>4
  <2>6. at[k + (i + 1)] = UNION {AtDepth(n)[i + 1] : n \in at[k]}
    BY <2>1, <2>3, <2>5
  <2> QED
    BY <2>1, <2>6
<1>5. \A i \in Nat : i \in Adds
  <2>1. Adds \in SUBSET Nat
    OBVIOUS
  <2> HIDE DEF Adds
  <2> QED
    BY <1>3, <1>4, <2>1, NumbersFrom0
<1> QED
  BY <1>5 DEF at

-----------------------------------------------------------------------------
(* Trees ordered by keys                                                   *)

(* A tree ordered by keys is no deeper than keys are long.                 *)
LEMMA KeyedDepth ==
  ASSUME NEW root, IsKeyed(root), NEW k \in Nat, AtDepth(root)[k] # {}
  PROVE  k <= KeyLen
<1> SUFFICES ASSUME ~(k <= KeyLen) PROVE FALSE
  OBVIOUS
<1>1. KeyLen \in Nat /\ KeyLen + 1 \in Nat /\ k - (KeyLen + 1) \in Nat
      /\ k = (KeyLen + 1) + (k - (KeyLen + 1))
  BY ShapeAssumption
<1>2. AtDepth(root)[k] =
        UNION {AtDepth(n)[k - (KeyLen + 1)] : n \in AtDepth(root)[KeyLen + 1]}
  BY <1>1, DepthsAdd
<1>3. AtDepth(root)[KeyLen + 1] = {}
  BY DEF IsKeyed
<1> QED
  BY <1>2, <1>3

(* The root of a tree ordered by keys is its only node at depth 0.         *)
LEMMA KeyedRoot ==
  ASSUME NEW root, IsKeyed(root)
  PROVE  root # ZERO_HASH /\ AtDepth(root)[0] = {root}
<1>1. root # ZERO_HASH
  BY NoTree DEF IsKeyed
<1> QED
  BY <1>1, AtDepthFacts

(* A node of a tree ordered by keys, and what is under it.                 *)
LEMMA SubtreeFacts ==
  ASSUME NEW root, IsKeyed(root), NEW d \in Nat, NEW x \in AtDepth(root)[d]
  PROVE  /\ x # ZERO_HASH /\ d <= KeyLen /\ x \in NodesOf(x)
         /\ \A k \in Nat : AtDepth(x)[k] \subseteq AtDepth(root)[d + k]
         /\ \A y : y \in NodesOf(x) <=> \E k \in Nat : y \in AtDepth(x)[k]
<1>1. x # ZERO_HASH
  BY NodesAreNotZero
<1>2. d <= KeyLen
  BY KeyedDepth
<1>3. x \in NodesOf(x)
  BY <1>1, NodesAreReached
<1>4. \A k \in Nat : AtDepth(x)[k] \subseteq AtDepth(root)[d + k]
  BY DepthsAdd
<1>5. KeyLen \in Nat
  BY ShapeAssumption
<1>6. \A k \in Nat : AtDepth(x)[k] # {} => k \in 0..KeyLen
  <2> SUFFICES ASSUME NEW k \in Nat, AtDepth(x)[k] # {}
               PROVE  k \in 0..KeyLen
    OBVIOUS
  <2>1. d + k \in Nat /\ AtDepth(root)[d + k] # {}
    BY <1>4
  <2>2. d + k <= KeyLen
    BY <2>1, KeyedDepth
  <2> QED
    BY <1>5, <2>2
<1>7. \A y : y \in NodesOf(x) <=> \E k \in Nat : y \in AtDepth(x)[k]
  <2>1. 0..KeyLen \subseteq Nat
    BY <1>5
  <2> QED
    BY <1>6, <2>1 DEF NodesOf
<1> QED
  BY <1>1, <1>2, <1>3, <1>4, <1>7

(* The nodes under a node are under its children.                          *)
LEMMA ChildrenInTree ==
  ASSUME NEW root, IsKeyed(root), NEW d \in Nat, NEW x \in AtDepth(root)[d]
  PROVE  /\ child_hashes(x) \subseteq AtDepth(root)[d + 1]
         /\ NodesOf(x) = {x} \cup UNION {NodesOf(c) : c \in child_hashes(x)}
<1>1. /\ x # ZERO_HASH /\ x \in NodesOf(x)
      /\ \A k \in Nat : AtDepth(x)[k] \subseteq AtDepth(root)[d + k]
      /\ \A y : y \in NodesOf(x) <=> \E k \in Nat : y \in AtDepth(x)[k]
  BY SubtreeFacts
<1>2. AtDepth(x)[0] = {x} /\ AtDepth(x)[1] = child_hashes(x)
  <2>1. AtDepth(x)[0] = {x}
    BY <1>1, AtDepthFacts
  <2>2. AtDepth(x)[0 + 1] = UNION {child_hashes(n) : n \in AtDepth(x)[0]}
    BY AtDepthFacts
  <2>3. 0 + 1 = 1
    OBVIOUS
  <2>4. UNION {child_hashes(n) : n \in AtDepth(x)[0]} = child_hashes(x)
    BY <2>1
  <2> QED
    BY <2>1, <2>2, <2>3, <2>4
<1>3. child_hashes(x) \subseteq AtDepth(root)[d + 1]
  BY <1>1, <1>2
<1>4. \A c \in child_hashes(x) : \A y : y \in NodesOf(c) <=> \E k \in Nat : y \in AtDepth(c)[k]
  <2>1. d + 1 \in Nat
    OBVIOUS
  <2> QED
    BY <1>3, <2>1, SubtreeFacts
<1>5. \A k \in Nat : AtDepth(x)[k + 1] = UNION {AtDepth(c)[k] : c \in child_hashes(x)}
  <2> SUFFICES ASSUME NEW k \in Nat
               PROVE  AtDepth(x)[k + 1] = UNION {AtDepth(c)[k] : c \in child_hashes(x)}
    OBVIOUS
  <2>1. AtDepth(x)[1 + k] = UNION {AtDepth(n)[k] : n \in AtDepth(x)[1]}
    BY DepthsAdd
  <2>2. 1 + k = k + 1
    OBVIOUS
  <2> QED
    BY <1>2, <2>1, <2>2
<1>6. ASSUME NEW y, y \in NodesOf(x), y # x
      PROVE  \E c \in child_hashes(x) : y \in NodesOf(c)
  <2>1. PICK k \in Nat : y \in AtDepth(x)[k]
    BY <1>1, <1>6, Zenon
  <2>2. k # 0
    BY <1>2, <1>6, <2>1
  <2>3. k - 1 \in Nat /\ (k - 1) + 1 = k
    BY <2>2
  <2>4. PICK c \in child_hashes(x) : y \in AtDepth(c)[k - 1]
    BY <1>5, <2>1, <2>3
  <2> QED
    BY <1>4, <2>3, <2>4
<1>7. ASSUME NEW c \in child_hashes(x), NEW y \in NodesOf(c)
      PROVE  y \in NodesOf(x)
  <2>1. PICK k \in Nat : y \in AtDepth(c)[k]
    BY <1>4, <1>7
  <2>2. k + 1 \in Nat /\ y \in AtDepth(x)[k + 1]
    BY <1>5, <2>1
  <2> QED
    BY <1>1, <2>2
<1>8. \A y : y \in NodesOf(x) <=> y \in {x} \cup UNION {NodesOf(c) : c \in child_hashes(x)}
  BY <1>1, <1>6, <1>7
<1> QED
  BY <1>3, <1>8

(* What a slot of an inner node of the tree holds: a child, or nothing.    *)
LEMMA SlotFacts ==
  ASSUME NEW root, IsKeyed(root), NEW d \in Nat, NEW x \in AtDepth(root)[d], is_inner(x)
  PROVE  /\ DOMAIN slots(x) = 1..Branch
         /\ \A i \in 1..Branch : slots(x)[i] = ZERO_HASH \/ slots(x)[i] \in child_hashes(x)
         /\ \A c \in child_hashes(x) : \E i \in 1..Branch : c = slots(x)[i]
         /\ \A i \in 1..Branch : \A l \in LeavesOf(slots(x)[i]) : nibble(l, d) = i - 1
         /\ d > 0 => \E l, m \in LeavesOf(x) : l # m
<1>1. d <= KeyLen /\ KeyLen \in Nat
  BY SubtreeFacts, ShapeAssumption
<1>2. d \in 0..KeyLen
  BY <1>1
<1>3. /\ DOMAIN slots(x) = 1..Branch
      /\ \A i \in 1..Branch : \A l \in LeavesOf(slots(x)[i]) : nibble(l, d) = i - 1
      /\ d > 0 => \E l, m \in LeavesOf(x) : l # m
  BY <1>2 DEF IsKeyed
<1>4. \A c : c \in child_hashes(x) <=> c # ZERO_HASH /\ \E i \in 1..Branch : c = slots(x)[i]
  BY <1>3 DEF child_hashes, ToSet
<1> QED
  BY <1>3, <1>4

(* A leaf has no children.                                                 *)
LEMMA LeafFacts ==
  ASSUME NEW root, IsKeyed(root), NEW d \in Nat, NEW x \in AtDepth(root)[d], ~is_inner(x)
  PROVE  slots(x) = <<>> /\ child_hashes(x) = {} /\ NodesOf(x) = {x}
<1>1. slots(x) = <<>>
  BY DEF slots
<1>2. child_hashes(x) = {}
  BY <1>1 DEF child_hashes, ToSet
<1> QED
  BY <1>1, <1>2, ChildrenInTree

(* Every node of the tree has a leaf under it.                             *)
LEMMA HasLeaf ==
  ASSUME NEW root, IsKeyed(root), NEW d \in Nat, NEW x \in AtDepth(root)[d]
  PROVE  LeavesOf(x) # {}
<1>1. x \in NodesOf(x)
  BY SubtreeFacts
<1>2. CASE ~is_inner(x)
  BY <1>1, <1>2 DEF LeavesOf
<1>3. CASE is_inner(x) /\ d > 0
  BY <1>3, SlotFacts
<1>4. CASE d = 0
  <2>1. AtDepth(root)[0] = {root} /\ LeavesOf(root) # {}
    BY KeyedRoot, Zenon DEF IsKeyed
  <2>2. x = root
    BY <1>4, <2>1, Zenon
  <2> QED
    BY <2>1, <2>2, Zenon
<1>5. d = 0 \/ d > 0
  OBVIOUS
<1> QED
  BY <1>2, <1>3, <1>4, <1>5, Zenon

(* What is under a node of a subtree is in the subtree.                    *)
LEMMA SubtreeInSubtree ==
  ASSUME NEW root, IsKeyed(root), NEW d \in Nat, NEW x \in AtDepth(root)[d], NEW y \in NodesOf(x)
  PROVE  /\ NodesOf(y) \subseteq NodesOf(x) /\ LeavesOf(y) \subseteq LeavesOf(x)
         /\ \E k \in Nat : y \in AtDepth(root)[d + k]
<1>1. /\ \A k \in Nat : AtDepth(x)[k] \subseteq AtDepth(root)[d + k]
      /\ \A z : z \in NodesOf(x) <=> \E k \in Nat : z \in AtDepth(x)[k]
  BY SubtreeFacts
<1>2. PICK k \in Nat : y \in AtDepth(x)[k]
  BY <1>1, Zenon
<1>3. d + k \in Nat /\ y \in AtDepth(root)[d + k]
  BY <1>1, <1>2
<1>4. \A z : z \in NodesOf(y) <=> \E j \in Nat : z \in AtDepth(y)[j]
  BY <1>3, SubtreeFacts
<1>5. ASSUME NEW j \in Nat
      PROVE  AtDepth(y)[j] \subseteq NodesOf(x)
  <2>1. k + j \in Nat /\ AtDepth(x)[k + j] = UNION {AtDepth(n)[j] : n \in AtDepth(x)[k]}
    BY DepthsAdd
  <2>2. AtDepth(y)[j] \subseteq AtDepth(x)[k + j]
    BY <1>2, <2>1
  <2> QED
    BY <1>1, <2>1, <2>2
<1>6. NodesOf(y) \subseteq NodesOf(x)
  BY <1>4, <1>5
<1>7. LeavesOf(y) \subseteq LeavesOf(x)
  BY <1>6 DEF LeavesOf
<1> QED
  BY <1>3, <1>6, <1>7

(* The keys of the leaves under a node agree at every depth above it.      *)
LEMMA SharedNibble ==
  ASSUME NEW root, IsKeyed(root), NEW p \in Nat, NEW q \in Nat, p < q,
         NEW n \in AtDepth(root)[q], NEW l \in LeavesOf(n), NEW m \in LeavesOf(n)
  PROVE  nibble(l, p) = nibble(m, p)
<1>1. p + 1 \in Nat /\ q - (p + 1) \in Nat /\ (p + 1) + (q - (p + 1)) = q
  OBVIOUS
<1>2. AtDepth(root)[q] = UNION {AtDepth(c)[q - (p + 1)] : c \in AtDepth(root)[p + 1]}
  BY <1>1, DepthsAdd
<1>3. PICK c \in AtDepth(root)[p + 1] : n \in AtDepth(c)[q - (p + 1)]
  BY <1>2
<1>4. n \in NodesOf(c)
  BY <1>1, <1>3, SubtreeFacts, Zenon
<1>5. LeavesOf(n) \subseteq LeavesOf(c)
  BY <1>1, <1>4, SubtreeInSubtree
<1>6. PICK y \in AtDepth(root)[p] : c \in child_hashes(y)
  BY AtDepthFacts
<1>7. is_inner(y)
  BY <1>6, LeafFacts
<1>8. PICK i \in 1..Branch : c = slots(y)[i]
  BY <1>6, <1>7, SlotFacts
<1>9. nibble(l, p) = i - 1 /\ nibble(m, p) = i - 1
  BY <1>5, <1>7, <1>8, SlotFacts
<1> QED
  BY <1>9

(* An inner node with two leaves, found deeper in another tree, has a      *)
(* child that is such a node, one level down in both.                      *)
LEMMA MovedNodeHasMovedChild ==
  ASSUME NEW a, NEW b, IsKeyed(a), IsKeyed(b), NEW p \in Nat, NEW q \in Nat, p < q,
         NEW n, n \in AtDepth(a)[p], n \in AtDepth(b)[q], is_inner(n)
  PROVE  \E c : c \in AtDepth(a)[p + 1] /\ c \in AtDepth(b)[q + 1] /\ is_inner(c)
<1>1. PICK l \in LeavesOf(n), m \in LeavesOf(n) : l # m
  <2>1. q > 0
    OBVIOUS
  <2> QED
    BY <2>1, SlotFacts
<1>2. nibble(l, p) = nibble(m, p)
  BY SharedNibble
<1>3. \A k \in LeavesOf(n) : \E i \in 1..Branch :
        k \in LeavesOf(slots(n)[i]) /\ slots(n)[i] \in child_hashes(n)
  <2> SUFFICES ASSUME NEW k \in LeavesOf(n)
               PROVE  \E i \in 1..Branch :
                        k \in LeavesOf(slots(n)[i]) /\ slots(n)[i] \in child_hashes(n)
    OBVIOUS
  <2>1. k \in NodesOf(n) /\ ~is_inner(k)
    BY DEF LeavesOf
  <2>2. k # n
    BY <2>1
  <2>3. PICK c \in child_hashes(n) : k \in NodesOf(c)
    BY <2>1, <2>2, ChildrenInTree
  <2>4. PICK i \in 1..Branch : c = slots(n)[i]
    BY SlotFacts
  <2> QED
    BY <2>1, <2>3, <2>4 DEF LeavesOf
<1>4. PICK i \in 1..Branch : l \in LeavesOf(slots(n)[i]) /\ slots(n)[i] \in child_hashes(n)
  BY <1>3
<1>5. PICK j \in 1..Branch : m \in LeavesOf(slots(n)[j]) /\ slots(n)[j] \in child_hashes(n)
  BY <1>3
<1>6. i = j
  <2>1. nibble(l, p) = i - 1 /\ nibble(m, p) = j - 1
    BY <1>4, <1>5, SlotFacts
  <2>2. i - 1 = j - 1
    BY <1>2, <2>1
  <2>3. \A h, k \in 1..Branch : h - 1 = k - 1 => h = k
    BY ShapeAssumption
  <2> QED
    BY <2>2, <2>3
<1> DEFINE c == slots(n)[i]
<1>7. c \in AtDepth(a)[p + 1] /\ c \in AtDepth(b)[q + 1]
  BY <1>4, ChildrenInTree
<1>8. l \in LeavesOf(c) /\ m \in LeavesOf(c)
  BY <1>4, <1>5, <1>6
<1> HIDE DEF c
<1>9. is_inner(c)
  <2> SUFFICES ASSUME ~is_inner(c) PROVE FALSE
    OBVIOUS
  <2>1. p + 1 \in Nat
    OBVIOUS
  <2>2. NodesOf(c) = {c}
    BY <1>7, <2>1, LeafFacts
  <2> QED
    BY <1>1, <1>8, <2>2 DEF LeavesOf
<1> QED
  BY <1>7, <1>9

(* An inner node is at the same depth in every tree it is in.              *)
LEMMA InnerNodesStay ==
  ASSUME NEW a, NEW b, IsKeyed(a), IsKeyed(b), NEW p \in Nat, NEW q \in Nat, p < q,
         NEW n, n \in AtDepth(a)[p], n \in AtDepth(b)[q]
  PROVE  ~is_inner(n)
<1> SUFFICES ASSUME is_inner(n) PROVE FALSE
  OBVIOUS
<1> DEFINE Moved == {t \in Nat : \E c : c \in AtDepth(a)[p + t] /\ c \in AtDepth(b)[q + t] /\ is_inner(c)}
<1>1. 0 \in Moved
  <2>1. p + 0 = p /\ q + 0 = q
    OBVIOUS
  <2> QED
    BY <2>1
<1>2. ASSUME NEW t \in Moved PROVE t + 1 \in Moved
  <2>1. PICK c : c \in AtDepth(a)[p + t] /\ c \in AtDepth(b)[q + t] /\ is_inner(c)
    OBVIOUS
  <2>2. /\ t \in Nat /\ t + 1 \in Nat /\ p + t \in Nat /\ q + t \in Nat /\ p + t < q + t
        /\ (p + t) + 1 = p + (t + 1) /\ (q + t) + 1 = q + (t + 1)
    OBVIOUS
  <2>3. \E k : k \in AtDepth(a)[(p + t) + 1] /\ k \in AtDepth(b)[(q + t) + 1] /\ is_inner(k)
    BY <2>1, <2>2, MovedNodeHasMovedChild
  <2> QED
    BY <2>2, <2>3
<1>3. \A t \in Nat : t \in Moved
  <2>1. Moved \in SUBSET Nat
    OBVIOUS
  <2> HIDE DEF Moved
  <2> QED
    BY <1>1, <1>2, <2>1, NumbersFrom0
<1>4. KeyLen \in Nat
  BY ShapeAssumption
<1>5. AtDepth(b)[q + KeyLen] # {}
  BY <1>3, <1>4
<1>6. q + KeyLen <= KeyLen
  BY <1>4, <1>5, KeyedDepth
<1> QED
  BY <1>4, <1>6

(* Nodes under different slots, of one tree or of two, are different: keys *)
(* say which slot a leaf is under.                                         *)
LEMMA SlotsDisjoint ==
  ASSUME NEW a, NEW b, IsKeyed(a), IsKeyed(b), NEW d \in Nat,
         NEW x \in AtDepth(a)[d], NEW y \in AtDepth(b)[d], is_inner(x), is_inner(y),
         NEW i \in 1..Branch, NEW j \in 1..Branch,
         NEW z, z \in NodesOf(slots(x)[i]), z \in NodesOf(slots(y)[j])
  PROVE  i = j
<1>1. slots(x)[i] # ZERO_HASH /\ slots(y)[j] # ZERO_HASH
  BY NoTree
<1>2. slots(x)[i] \in child_hashes(x) /\ slots(y)[j] \in child_hashes(y)
  BY <1>1, SlotFacts
<1>3. d + 1 \in Nat /\ slots(x)[i] \in AtDepth(a)[d + 1] /\ slots(y)[j] \in AtDepth(b)[d + 1]
  BY <1>2, ChildrenInTree
<1>4. LeavesOf(z) \subseteq LeavesOf(slots(x)[i]) /\ LeavesOf(z) \subseteq LeavesOf(slots(y)[j])
  BY <1>3, SubtreeInSubtree
<1>5. PICK l \in LeavesOf(z) : TRUE
  <2>1. PICK k \in Nat : z \in AtDepth(a)[(d + 1) + k]
    BY <1>3, SubtreeInSubtree
  <2>2. (d + 1) + k \in Nat
    OBVIOUS
  <2> QED
    BY <2>1, <2>2, HasLeaf
<1>6. nibble(l, d) = i - 1 /\ nibble(l, d) = j - 1
  BY <1>4, SlotFacts
<1>7. i - 1 = j - 1
  BY <1>6
<1>8. \A h, k \in 1..Branch : h - 1 = k - 1 => h = k
  BY ShapeAssumption
<1> QED
  BY <1>7, <1>8

(* An inner node is not under another one of its depth.                    *)
LEMMA InnerNotBelow ==
  ASSUME NEW a, NEW b, IsKeyed(a), IsKeyed(b), NEW d \in Nat,
         NEW x \in AtDepth(a)[d], NEW y \in AtDepth(b)[d], is_inner(x)
  PROVE  /\ \A c \in child_hashes(y) : x \notin NodesOf(c)
         /\ x \in NodesOf(y) => x = y
<1>1. ASSUME NEW c \in child_hashes(y), x \in NodesOf(c)
      PROVE  FALSE
  <2>1. d + 1 \in Nat /\ c \in AtDepth(b)[d + 1]
    BY ChildrenInTree
  <2>2. PICK k \in Nat : x \in AtDepth(b)[(d + 1) + k]
    BY <1>1, <2>1, SubtreeInSubtree
  <2>3. (d + 1) + k \in Nat /\ d < (d + 1) + k
    OBVIOUS
  <2> QED
    BY <2>2, <2>3, InnerNodesStay
<1>2. NodesOf(y) = {y} \cup UNION {NodesOf(c) : c \in child_hashes(y)}
  BY ChildrenInTree
<1> QED
  BY <1>1, <1>2

-----------------------------------------------------------------------------
(* What a diff collects                                                    *)

Results(A, D) == [ok : BOOLEAN, added : Seq(A), deleted : Seq(D)]

AddedBy(r)   == ToSet(r.added)
DeletedBy(r) == ToSet(r.deleted)

\* Nothing is listed twice.
ListsOnce(r) == IsInjective(r.added) /\ IsInjective(r.deleted)

(* Two results with no error list nothing.                                 *)
LEMMA NothingFacts ==
  ASSUME NEW A, NEW D
  PROVE  /\ Nothing \in Results(A, D) /\ Nothing.ok
         /\ AddedBy(Nothing) = {} /\ DeletedBy(Nothing) = {} /\ ListsOnce(Nothing)
         /\ Error \in Results(A, D) /\ ~Error.ok
         /\ AddedBy(Error) = {} /\ DeletedBy(Error) = {} /\ ListsOnce(Error)
<1>1. ToSet(<<>>) = {} /\ IsInjective(<<>>) /\ <<>> \in Seq(A) /\ <<>> \in Seq(D)
  BY DEF ToSet, IsInjective
<1>2. /\ Nothing.ok /\ Nothing.added = <<>> /\ Nothing.deleted = <<>>
      /\ ~Error.ok /\ Error.added = <<>> /\ Error.deleted = <<>>
  BY DEF Nothing, Error
<1>3. Nothing \in Results(A, D) /\ Error \in Results(A, D)
  BY <1>1 DEF Nothing, Error, Results
<1> QED
  BY <1>1, <1>2, <1>3 DEF AddedBy, DeletedBy, ListsOnce

(* One result after another lists what the two list.                       *)
LEMMA ThenFacts ==
  ASSUME NEW A, NEW D, NEW x \in Results(A, D), NEW y \in Results(A, D)
  PROVE  /\ Then(x, y) \in Results(A, D)
         /\ Then(x, y).ok <=> x.ok /\ y.ok
         /\ AddedBy(Then(x, y)) = AddedBy(x) \cup AddedBy(y)
         /\ DeletedBy(Then(x, y)) = DeletedBy(x) \cup DeletedBy(y)
         /\ ListsOnce(x) /\ ListsOnce(y) /\ AddedBy(x) \cap AddedBy(y) = {}
              /\ DeletedBy(x) \cap DeletedBy(y) = {} => ListsOnce(Then(x, y))
<1> DEFINE r == Then(x, y)
<1>1. /\ x.ok \in BOOLEAN /\ x.added \in Seq(A) /\ x.deleted \in Seq(D)
      /\ y.ok \in BOOLEAN /\ y.added \in Seq(A) /\ y.deleted \in Seq(D)
  BY DEF Results
<1>2. /\ r.ok = (x.ok /\ y.ok) /\ r.added = x.added \o y.added
      /\ r.deleted = x.deleted \o y.deleted
  BY DEF Then
<1>3. /\ r.added \in Seq(A) /\ ToSet(r.added) = ToSet(x.added) \cup ToSet(y.added)
      /\ IsInjective(x.added) /\ IsInjective(y.added) /\ ToSet(x.added) \cap ToSet(y.added) = {}
           => IsInjective(r.added)
  BY <1>1, <1>2, ConcatFacts
<1>4. /\ r.deleted \in Seq(D) /\ ToSet(r.deleted) = ToSet(x.deleted) \cup ToSet(y.deleted)
      /\ IsInjective(x.deleted) /\ IsInjective(y.deleted)
           /\ ToSet(x.deleted) \cap ToSet(y.deleted) = {} => IsInjective(r.deleted)
  BY <1>1, <1>2, ConcatFacts
<1>5. r \in Results(A, D)
  <2>1. r = [ok |-> r.ok, added |-> r.added, deleted |-> r.deleted]
    BY <1>2 DEF Then
  <2>2. r.ok \in BOOLEAN
    BY <1>2
  <2> HIDE DEF r
  <2> QED
    BY <1>3, <1>4, <2>1, <2>2 DEF Results
<1> HIDE DEF r
<1>6. ListsOnce(x) /\ ListsOnce(y) /\ AddedBy(x) \cap AddedBy(y) = {}
        /\ DeletedBy(x) \cap DeletedBy(y) = {} => ListsOnce(r)
  BY <1>3, <1>4 DEF AddedBy, DeletedBy, ListsOnce
<1>7. AddedBy(r) = AddedBy(x) \cup AddedBy(y) /\ DeletedBy(r) = DeletedBy(x) \cup DeletedBy(y)
  BY <1>3, <1>4 DEF AddedBy, DeletedBy
<1>8. r.ok <=> x.ok /\ y.ok
  BY <1>1, <1>2
<1> QED
  BY <1>5, <1>6, <1>7, <1>8 DEF r

(* Adding to a result: a node added, a hash deleted, or both.              *)
LEMMA PushedFacts ==
  ASSUME NEW A, NEW D, NEW x \in Results(A, D), NEW as \in Seq(A), NEW ds \in Seq(D),
         IsInjective(as), IsInjective(ds)
  PROVE  /\ Pushed(x, as, ds) \in Results(A, D)
         /\ Pushed(x, as, ds).ok <=> x.ok
         /\ AddedBy(Pushed(x, as, ds)) = AddedBy(x) \cup ToSet(as)
         /\ DeletedBy(Pushed(x, as, ds)) = DeletedBy(x) \cup ToSet(ds)
         /\ ListsOnce(x) /\ AddedBy(x) \cap ToSet(as) = {} /\ DeletedBy(x) \cap ToSet(ds) = {}
              => ListsOnce(Pushed(x, as, ds))
<1> DEFINE y == [ok |-> TRUE, added |-> as, deleted |-> ds]
<1>1. y \in Results(A, D) /\ y.ok /\ y.added = as /\ y.deleted = ds
  BY DEF Results
<1>2. Pushed(x, as, ds) = Then(x, y)
  BY DEF Pushed
<1> HIDE DEF y
<1>3. AddedBy(y) = ToSet(as) /\ DeletedBy(y) = ToSet(ds) /\ ListsOnce(y)
  BY <1>1 DEF AddedBy, DeletedBy, ListsOnce
<1> DEFINE r == Then(x, y)
<1>4. /\ r \in Results(A, D)
      /\ r.ok <=> x.ok /\ y.ok
      /\ AddedBy(r) = AddedBy(x) \cup AddedBy(y)
      /\ DeletedBy(r) = DeletedBy(x) \cup DeletedBy(y)
      /\ ListsOnce(x) /\ ListsOnce(y) /\ AddedBy(x) \cap AddedBy(y) = {}
           /\ DeletedBy(x) \cap DeletedBy(y) = {} => ListsOnce(r)
  BY <1>1, ThenFacts
<1> HIDE DEF r
<1>5. Pushed(x, as, ds) = r
  BY <1>2 DEF r
<1> QED
  BY <1>1, <1>3, <1>4, <1>5

(* Results are joined one at a time.                                       *)
LEMMA JoinedOneByOne ==
  ASSUME NEW A, NEW D, NEW n \in Nat, NEW rs \in [1..n -> Results(A, D)]
  PROVE  \E u \in [0..n -> Results(A, D)] :
           u[0] = Nothing /\ (\A k \in 1..n : u[k] = Then(u[k - 1], rs[k])) /\ Joined(rs) = u[n]
<1> DEFINE R == Results(A, D)
           S == 0..n
           Step == [f \in [S -> R] |-> [k \in S |-> IF k = 0 THEN Nothing ELSE Then(f[k - 1], rs[k])]]
           Level == [k \in Nat |-> {j \in S : j < k}]
           upto[k \in 0..Len(rs)] == IF k = 0 THEN Nothing ELSE Then(upto[k - 1], rs[k])
<1>1. Len(rs) = n
  OBVIOUS
<1>2. Joined(rs) = upto[Len(rs)]
  BY DEF Joined
<1>3. Nothing \in R /\ \A x, y \in R : Then(x, y) \in R
  BY NothingFacts, ThenFacts
<1>4. \A k \in S : k # 0 => k - 1 \in S /\ k \in 1..n
  OBVIOUS
<1> HIDE DEF R
<1>5. Step \in [[S -> R] -> [S -> R]]
  <2>1. ASSUME NEW f \in [S -> R], NEW k \in S
        PROVE  (IF k = 0 THEN Nothing ELSE Then(f[k - 1], rs[k])) \in R
    <3>1. k # 0 => f[k - 1] \in R /\ rs[k] \in R
      BY <1>4 DEF R
    <3> QED
      BY <1>3, <3>1
  <2> QED
    BY <2>1
<1>6. \E f \in [S -> R] : f = Step[f]
  <2>1. [S -> R] # {}
    <3>1. [k \in S |-> Nothing] \in [S -> R]
      BY <1>3
    <3> QED
      BY <3>1
  <2>2. Level[0] = {} /\ \A k \in Nat : Level[k] \subseteq S
    OBVIOUS
  <2>4. \E top \in Nat : Level[top] = S
    <3>1. n + 1 \in Nat /\ \A j \in S : j < n + 1
      OBVIOUS
    <3>2. Level[n + 1] = {j \in S : j < n + 1}
      BY <3>1
    <3>3. Level[n + 1] = S
      BY <3>1, <3>2
    <3> QED
      BY <3>1, <3>3
  <2>3. ASSUME NEW k \in Nat, NEW f \in [S -> R], NEW g \in [S -> R],
               \A x \in Level[k] : f[x] = g[x], NEW x \in Level[k + 1]
        PROVE  Step[f][x] = Step[g][x]
    <3>1. x \in S /\ (x # 0 => x - 1 \in Level[k])
      OBVIOUS
    <3>2. x # 0 => f[x - 1] = g[x - 1]
      BY <2>3, <3>1
    <3> QED
      BY <3>1, <3>2
  <2>5. \A k \in Nat : \A f, g \in [S -> R] :
          (\A x \in Level[k] : f[x] = g[x]) => \A x \in Level[k + 1] : Step[f][x] = Step[g][x]
    <3> HIDE DEF Step, Level, S
    <3> QED
      BY <2>3
  <2> HIDE DEF Step, Level, S
  <2>6. LevelByLevel(S, R, Step, Level)
    BY <1>5, <2>1, <2>2, <2>4, <2>5, Zenon DEF LevelByLevel
  <2> QED
    BY <2>6, Recursion
<1>7. PICK f \in [S -> R] : f = Step[f]
  BY <1>6
<1>8. f = [k \in 0..Len(rs) |-> IF k = 0 THEN Nothing ELSE Then(f[k - 1], rs[k])]
  BY <1>1, <1>7
<1>9. upto = [k \in 0..Len(rs) |-> IF k = 0 THEN Nothing ELSE Then(upto[k - 1], rs[k])]
  BY <1>8
<1> HIDE DEF upto
<1>10. upto \in [S -> R]
  <2> DEFINE Typed == {k \in Nat : k \in S => upto[k] \in R}
  <2>1. 0 \in Typed
    BY <1>1, <1>3, <1>9
  <2>2. ASSUME NEW k \in Typed PROVE k + 1 \in Typed
    <3>1. k \in Nat /\ k + 1 \in Nat /\ (k + 1) - 1 = k /\ k + 1 # 0
      OBVIOUS
    <3>2. ASSUME k + 1 \in S PROVE upto[k + 1] \in R
      <4>1. k \in S /\ k + 1 \in 1..n
        BY <3>1, <3>2
      <4>2. upto[k] \in R /\ rs[k + 1] \in R
        BY <4>1 DEF R
      <4>3. upto[k + 1] = Then(upto[k], rs[k + 1])
        BY <1>1, <1>9, <3>1, <3>2
      <4> QED
        BY <1>3, <4>2, <4>3
    <3> QED
      BY <3>1, <3>2
  <2>3. \A k \in Nat : k \in Typed
    <3>1. Typed \in SUBSET Nat
      OBVIOUS
    <3> HIDE DEF Typed
    <3> QED
      BY <2>1, <2>2, <3>1, NumbersFrom0
  <2>4. \A k \in S : upto[k] \in R
    BY <2>3
  <2> QED
    BY <1>1, <1>9, <2>4
<1>11. upto[0] = Nothing /\ \A k \in 1..n : upto[k] = Then(upto[k - 1], rs[k])
  BY <1>1, <1>9
<1> QED
  BY <1>1, <1>2, <1>10, <1>11 DEF R

(* Joined results list what each lists, and meet an error if one does.     *)
LEMMA JoinedFacts ==
  ASSUME NEW A, NEW D, NEW n \in Nat, NEW rs \in [1..n -> Results(A, D)]
  PROVE  /\ Joined(rs) \in Results(A, D)
         /\ Joined(rs).ok <=> \A i \in 1..n : rs[i].ok
         /\ AddedBy(Joined(rs)) = UNION {AddedBy(rs[i]) : i \in 1..n}
         /\ DeletedBy(Joined(rs)) = UNION {DeletedBy(rs[i]) : i \in 1..n}
         /\ (\A i \in 1..n : ListsOnce(rs[i]))
              /\ (\A i, j \in 1..n : i # j => /\ AddedBy(rs[i]) \cap AddedBy(rs[j]) = {}
                                              /\ DeletedBy(rs[i]) \cap DeletedBy(rs[j]) = {})
              => ListsOnce(Joined(rs))
<1> DEFINE R == Results(A, D)
           Apart == /\ \A i \in 1..n : ListsOnce(rs[i])
                    /\ \A i, j \in 1..n : i # j => /\ AddedBy(rs[i]) \cap AddedBy(rs[j]) = {}
                                                   /\ DeletedBy(rs[i]) \cap DeletedBy(rs[j]) = {}
<1>1. PICK u \in [0..n -> R] :
        u[0] = Nothing /\ (\A k \in 1..n : u[k] = Then(u[k - 1], rs[k])) /\ Joined(rs) = u[n]
  BY JoinedOneByOne
<1> DEFINE Good(k) == /\ u[k].ok <=> \A i \in 1..k : rs[i].ok
                      /\ AddedBy(u[k]) = UNION {AddedBy(rs[i]) : i \in 1..k}
                      /\ DeletedBy(u[k]) = UNION {DeletedBy(rs[i]) : i \in 1..k}
                      /\ Apart => ListsOnce(u[k])
           GoodUpto == {k \in Nat : k <= n => Good(k)}
<1>2. 0 \in GoodUpto
  <2>1. 1..0 = {}
    OBVIOUS
  <2>2. Nothing.ok /\ AddedBy(Nothing) = {} /\ DeletedBy(Nothing) = {} /\ ListsOnce(Nothing)
    BY NothingFacts
  <2> HIDE DEF Apart
  <2>3. Good(0)
    BY <1>1, <2>1, <2>2
  <2> QED
    BY <2>3
<1>3. ASSUME NEW k \in GoodUpto PROVE k + 1 \in GoodUpto
  <2> SUFFICES ASSUME k + 1 <= n PROVE Good(k + 1)
    OBVIOUS
  <2>1. /\ k \in Nat /\ k <= n /\ k \in 0..n /\ k + 1 \in 1..n /\ (k + 1) - 1 = k
        /\ 1..(k + 1) = (1..k) \cup {k + 1} /\ 1..k \subseteq 1..n /\ k + 1 \notin 1..k
    OBVIOUS
  <2>2. Good(k)
    BY <2>1
  <2> DEFINE x == u[k]
             y == rs[k + 1]
             r == Then(x, y)
  <2>3. x \in R /\ y \in R
    BY <2>1
  <2>4. u[k + 1] = r
    BY <1>1, <2>1
  <2>5. /\ r.ok <=> x.ok /\ y.ok
        /\ AddedBy(r) = AddedBy(x) \cup AddedBy(y)
        /\ DeletedBy(r) = DeletedBy(x) \cup DeletedBy(y)
        /\ ListsOnce(x) /\ ListsOnce(y) /\ AddedBy(x) \cap AddedBy(y) = {}
             /\ DeletedBy(x) \cap DeletedBy(y) = {} => ListsOnce(r)
    BY <2>3, ThenFacts
  <2>6. /\ x.ok <=> \A i \in 1..k : rs[i].ok
        /\ AddedBy(x) = UNION {AddedBy(rs[i]) : i \in 1..k}
        /\ DeletedBy(x) = UNION {DeletedBy(rs[i]) : i \in 1..k}
        /\ Apart => ListsOnce(x)
    BY <2>2
  <2> HIDE DEF x, r
  <2>7. r.ok <=> \A i \in 1..(k + 1) : rs[i].ok
    BY <2>1, <2>5, <2>6
  <2>8. AddedBy(r) = UNION {AddedBy(rs[i]) : i \in 1..(k + 1)}
    <3>1. \A z : z \in AddedBy(r) <=> \E i \in 1..(k + 1) : z \in AddedBy(rs[i])
      BY <2>1, <2>5, <2>6
    <3> QED
      BY <3>1
  <2>9. DeletedBy(r) = UNION {DeletedBy(rs[i]) : i \in 1..(k + 1)}
    <3>1. \A z : z \in DeletedBy(r) <=> \E i \in 1..(k + 1) : z \in DeletedBy(rs[i])
      BY <2>1, <2>5, <2>6
    <3> QED
      BY <3>1
  <2>10. ASSUME Apart PROVE ListsOnce(r)
    <3>1. ListsOnce(x) /\ ListsOnce(y)
      BY <2>1, <2>6, <2>10
    <3>2. \A i \in 1..k : AddedBy(rs[i]) \cap AddedBy(y) = {} /\ DeletedBy(rs[i]) \cap DeletedBy(y) = {}
      BY <2>1, <2>10
    <3>3. AddedBy(x) \cap AddedBy(y) = {} /\ DeletedBy(x) \cap DeletedBy(y) = {}
      BY <2>6, <3>2
    <3> QED
      BY <2>5, <3>1, <3>3
  <2> HIDE DEF Apart
  <2> QED
    BY <2>4, <2>7, <2>8, <2>9, <2>10
<1>4. \A k \in Nat : k \in GoodUpto
  <2>1. GoodUpto \in SUBSET Nat
    OBVIOUS
  <2> HIDE DEF GoodUpto
  <2> QED
    BY <1>2, <1>3, <2>1, NumbersFrom0
<1>5. Good(n)
  <2> HIDE DEF Good
  <2> QED
    BY <1>4
<1>6. u[n] \in R
  OBVIOUS
<1> QED
  BY <1>1, <1>5, <1>6

-----------------------------------------------------------------------------
(* The slots and the levels of a tree                                      *)

(* What holds of a node if it holds of its children holds of a tree's      *)
(* nodes.                                                                  *)
LEMMA TreeInduction ==
  ASSUME NEW root, IsKeyed(root), NEW d \in Nat, NEW x \in AtDepth(root)[d], NEW T,
         \A e \in Nat : \A y \in AtDepth(root)[e] :
           y \in NodesOf(x) /\ child_hashes(y) \subseteq T => y \in T
  PROVE  NodesOf(x) \subseteq T
<1> DEFINE Up == {t \in Nat : \A e \in Nat : e + t = KeyLen + 1 =>
                                AtDepth(root)[e] \cap NodesOf(x) \subseteq T}
<1>1. KeyLen \in Nat
  BY ShapeAssumption
<1>2. 0 \in Up
  <2>1. \A e \in Nat : e + 0 = KeyLen + 1 => AtDepth(root)[e] = {}
    BY <1>1 DEF IsKeyed
  <2> QED
    BY <2>1
<1>3. ASSUME NEW t \in Up PROVE t + 1 \in Up
  <2>1. t \in Nat /\ t + 1 \in Nat
    OBVIOUS
  <2>2. ASSUME NEW e \in Nat, e + (t + 1) = KeyLen + 1, NEW y \in AtDepth(root)[e], y \in NodesOf(x)
        PROVE  y \in T
    <3>1. e + 1 \in Nat /\ (e + 1) + t = KeyLen + 1
      BY <1>1, <2>1, <2>2
    <3>2. AtDepth(root)[e + 1] \cap NodesOf(x) \subseteq T
      BY <3>1
    <3>3. child_hashes(y) \subseteq AtDepth(root)[e + 1]
          /\ NodesOf(y) = {y} \cup UNION {NodesOf(c) : c \in child_hashes(y)}
      BY ChildrenInTree
    <3>4. \A c \in child_hashes(y) : c \in NodesOf(c)
      BY <3>1, <3>3, SubtreeFacts
    <3>5. child_hashes(y) \subseteq NodesOf(x)
      BY <2>2, <3>3, <3>4, SubtreeInSubtree
    <3> QED
      BY <2>2, <3>2, <3>3, <3>5
  <2> QED
    BY <2>1, <2>2
<1>4. \A t \in Nat : t \in Up
  <2>1. Up \in SUBSET Nat
    OBVIOUS
  <2> HIDE DEF Up
  <2> QED
    BY <1>2, <1>3, <2>1, NumbersFrom0
<1>5. ASSUME NEW y \in NodesOf(x)
      PROVE  y \in T
  <2>1. PICK k \in Nat : y \in AtDepth(root)[d + k]
    BY SubtreeInSubtree
  <2>2. d + k \in Nat /\ d + k <= KeyLen
    BY <2>1, SubtreeFacts
  <2> DEFINE e == d + k
             t == (KeyLen + 1) - e
  <2>3. e \in Nat /\ t \in Nat /\ e + t = KeyLen + 1
    BY <1>1, <2>2
  <2>4. y \in AtDepth(root)[e]
    BY <2>1
  <2> HIDE DEF e, t
  <2>5. t \in Up
    BY <1>4, <2>3
  <2> QED
    BY <2>3, <2>4, <2>5
<1> QED
  BY <1>5

(* The slots of a tree's node, and what they hold.                         *)
LEMMA SlotsInTree ==
  ASSUME NEW root, IsKeyed(root), NEW d \in Nat, NEW x \in AtDepth(root)[d], NEW y \in NodesOf(x)
  PROVE  \E m \in Nat :
           /\ DOMAIN slots(y) = 1..m
           /\ \A i \in 1..m : slots(y)[i] \in {ZERO_HASH} \cup child_hashes(y)
           /\ \A c \in child_hashes(y) : \E i \in 1..m : c = slots(y)[i]
<1>1. PICK k \in Nat : y \in AtDepth(root)[d + k]
  BY SubtreeInSubtree
<1>2. d + k \in Nat
  OBVIOUS
<1>3. CASE is_inner(y)
  <2>1. Branch \in Nat
    BY ShapeAssumption
  <2>2. DOMAIN slots(y) = 1..Branch
    BY <1>1, <1>2, <1>3, SlotFacts
  <2>3. \A i \in 1..Branch : slots(y)[i] \in {ZERO_HASH} \cup child_hashes(y)
    BY <1>1, <1>2, <1>3, SlotFacts
  <2>4. \A c \in child_hashes(y) : \E i \in 1..Branch : c = slots(y)[i]
    BY <1>1, <1>2, <1>3, SlotFacts
  <2> QED
    BY <2>1, <2>2, <2>3, <2>4
<1>4. CASE ~is_inner(y)
  <2>1. slots(y) = <<>> /\ child_hashes(y) = {}
    BY <1>1, <1>2, <1>4, LeafFacts
  <2>2. 0 \in Nat /\ 1..0 = {} /\ DOMAIN slots(y) = {}
    BY <2>1
  <2> QED
    BY <2>1, <2>2
<1> QED
  BY <1>3, <1>4

(* A child of a tree's node is in the tree.                                *)
LEMMA ChildInTree ==
  ASSUME NEW root, IsKeyed(root), NEW d \in Nat, NEW x \in AtDepth(root)[d],
         NEW y \in NodesOf(x), NEW c \in child_hashes(y)
  PROVE  c \in NodesOf(x) /\ NodesOf(c) \subseteq NodesOf(y) /\ c \in NodesOf(y)
<1>1. PICK k \in Nat : y \in AtDepth(root)[d + k]
  BY SubtreeInSubtree
<1>2. d + k \in Nat /\ (d + k) + 1 \in Nat
  OBVIOUS
<1>3. c \in AtDepth(root)[(d + k) + 1] /\ NodesOf(c) \subseteq NodesOf(y)
  BY <1>1, <1>2, ChildrenInTree
<1>4. c \in NodesOf(c)
  BY <1>2, <1>3, SubtreeFacts
<1>5. NodesOf(y) \subseteq NodesOf(x)
  BY SubtreeInSubtree
<1> QED
  BY <1>3, <1>4, <1>5

\* The nodes of a tree, and the empty slot, less than so many levels high.
Levelled(x) == [k \in Nat |-> {y \in WithZero(x) : \E j \in Nat : j < k /\ AtDepth(y)[j] = {}}]

(* These levels reach the root, and a slot is below its node.              *)
LEMMA LevelledFacts ==
  ASSUME NEW root, IsKeyed(root), NEW d \in Nat, NEW x \in AtDepth(root)[d]
  PROVE  /\ Levelled(x)[0] = {} /\ \A k \in Nat : Levelled(x)[k] \subseteq WithZero(x)
         /\ \E k \in Nat : Levelled(x)[k] = WithZero(x)
         /\ \A k \in Nat : \A y \in Levelled(x)[k + 1] : y # ZERO_HASH =>
              \A i \in DOMAIN slots(y) : slots(y)[i] \in Levelled(x)[k]
<1>1. Levelled(x)[0] = {} /\ \A k \in Nat : Levelled(x)[k] \subseteq WithZero(x)
  BY DEF Levelled
<1>2. \E k \in Nat : Levelled(x)[k] = WithZero(x)
  <2>1. KeyLen \in Nat /\ KeyLen + 1 \in Nat /\ KeyLen + 2 \in Nat /\ KeyLen + 1 < KeyLen + 2
    BY ShapeAssumption
  <2>2. ASSUME NEW y \in WithZero(x)
        PROVE  AtDepth(y)[KeyLen + 1] = {}
    <3>1. CASE y = ZERO_HASH
      BY <2>1, <3>1, NoTree
    <3>2. CASE y \in NodesOf(x)
      <4>1. PICK k \in Nat : y \in AtDepth(root)[d + k]
        BY <3>2, SubtreeInSubtree
      <4>2. d + k \in Nat /\ (d + k) + (KeyLen + 1) \in Nat /\ ~((d + k) + (KeyLen + 1) <= KeyLen)
        BY <2>1
      <4>3. AtDepth(y)[KeyLen + 1] \subseteq AtDepth(root)[(d + k) + (KeyLen + 1)]
        BY <2>1, <4>1, <4>2, SubtreeFacts
      <4>4. AtDepth(root)[(d + k) + (KeyLen + 1)] = {}
        BY <4>2, KeyedDepth
      <4> QED
        BY <4>3, <4>4
    <3> QED
      BY <3>1, <3>2 DEF WithZero
  <2>3. Levelled(x)[KeyLen + 2] = {y \in WithZero(x) : \E j \in Nat : j < KeyLen + 2 /\ AtDepth(y)[j] = {}}
    BY <2>1 DEF Levelled
  <2>4. Levelled(x)[KeyLen + 2] = WithZero(x)
    BY <2>1, <2>2, <2>3
  <2> QED
    BY <2>1, <2>4
<1>3. ASSUME NEW k \in Nat, NEW y \in Levelled(x)[k + 1], y # ZERO_HASH, NEW i \in DOMAIN slots(y)
      PROVE  slots(y)[i] \in Levelled(x)[k]
  <2>1. k + 1 \in Nat
    OBVIOUS
  <2>2. y \in WithZero(x) /\ \E j \in Nat : j < k + 1 /\ AtDepth(y)[j] = {}
    BY <2>1 DEF Levelled
  <2>3. PICK j \in Nat : j < k + 1 /\ AtDepth(y)[j] = {}
    BY <2>2
  <2>4. y \in NodesOf(x)
    BY <1>3, <2>2 DEF WithZero
  <2>5. AtDepth(y)[0] = {y}
    BY <1>3, AtDepthFacts
  <2>6. j # 0
    BY <2>3, <2>5
  <2>7. j - 1 \in Nat /\ j - 1 < k /\ 1 + (j - 1) = j /\ 0 < k
    BY <2>3, <2>6
  <2> DEFINE c == slots(y)[i]
  <2>8. c \in {ZERO_HASH} \cup child_hashes(y)
    BY <2>4, SlotsInTree
  <2>9. c \in WithZero(x)
    BY <2>4, <2>8, ChildInTree DEF WithZero
  <2>10. \E l \in Nat : l < k /\ AtDepth(c)[l] = {}
    <3>1. CASE c = ZERO_HASH
      BY <2>7, <3>1, NoTree
    <3>2. CASE c \in child_hashes(y)
      <4>1. AtDepth(y)[1] = child_hashes(y)
        <5>1. AtDepth(y)[0 + 1] = UNION {child_hashes(n) : n \in AtDepth(y)[0]}
          BY AtDepthFacts
        <5>2. UNION {child_hashes(n) : n \in AtDepth(y)[0]} = child_hashes(y) /\ 0 + 1 = 1
          BY <2>5
        <5> QED
          BY <5>1, <5>2
      <4>2. AtDepth(y)[1 + (j - 1)] = UNION {AtDepth(n)[j - 1] : n \in AtDepth(y)[1]}
        BY <2>7, DepthsAdd
      <4>3. AtDepth(c)[j - 1] = {}
        BY <2>3, <2>7, <3>2, <4>1, <4>2
      <4> QED
        BY <2>7, <4>3
    <3> QED
      BY <2>8, <3>1, <3>2
  <2> HIDE DEF c
  <2>11. c \in Levelled(x)[k]
    BY <2>9, <2>10 DEF Levelled
  <2> QED
    BY <2>11 DEF c
<1> QED
  BY <1>1, <1>2, <1>3

-----------------------------------------------------------------------------
(* collect_added and collect_deleted                                       *)

(* A result about a tree is one about any tree that has its nodes.         *)
LEMMA ResultsGrow ==
  ASSUME NEW A, NEW D, NEW B, NEW E, A \subseteq B, D \subseteq E, NEW r \in Results(A, D)
  PROVE  r \in Results(B, E)
<1>1. \A s \in Seq(A) : s \in Seq(B)
  OBVIOUS
<1>2. \A s \in Seq(D) : s \in Seq(E)
  OBVIOUS
<1> QED
  BY <1>1, <1>2 DEF Results

(* A list of one.                                                          *)
LEMMA OneFacts ==
  ASSUME NEW S, NEW x \in S
  PROVE  /\ <<x>> \in Seq(S) /\ IsInjective(<<x>>) /\ ToSet(<<x>>) = {x}
         /\ <<>> \in Seq(S) /\ IsInjective(<<>>) /\ ToSet(<<>>) = {}
<1>1. <<x>> \in Seq(S) /\ <<>> \in Seq(S)
  OBVIOUS
<1>2. IsInjective(<<x>>) /\ ToSet(<<x>>) = {x} /\ IsInjective(<<>>) /\ ToSet(<<>>) = {}
  BY DEF IsInjective, ToSet
<1> QED
  BY <1>1, <1>2

(* Joining what the slots of a node give, then adding the node or its hash, *)
(* gives a result again.                                                   *)
LEMMA PushedJoinTyped ==
  ASSUME NEW A, NEW D, NEW m \in Nat, NEW rs \in [1..m -> Results(A, D)],
         NEW as \in Seq(A), NEW ds \in Seq(D), IsInjective(as), IsInjective(ds)
  PROVE  Pushed(Joined(rs), as, ds) \in Results(A, D)
<1>1. Joined(rs) \in Results(A, D)
  BY JoinedFacts
<1> QED
  BY <1>1, PushedFacts

\* collect_added of a node, from the results for the slots.
AddedFrom(collect, h) ==
  IF ~Readable(h) THEN Error
  ELSE Pushed(Joined([i \in DOMAIN slots(h) |-> collect[slots(h)[i]]]), <<h>>, <<>>)

(* collect_added is what its recursion says.                               *)
LEMMA AddedRecursion ==
  ASSUME SoundStores(call.shards), NEW root, IsKeyed(root), NEW d \in Nat, NEW x \in AtDepth(root)[d]
  PROVE  \E collect :
           /\ collect[ZERO_HASH] = Nothing
           /\ \A h \in NodesOf(x) : collect[h] = AddedFrom(collect, h)
           /\ collect_added(x) = collect[x]
<1> DEFINE W == WithZero(x)
           N == NodesOf(x)
           R == Results(N, N)
           Body(f, h) == IF h = ZERO_HASH THEN Nothing
                         ELSE IF ~Readable(h) THEN Error
                         ELSE Pushed(Joined([i \in DOMAIN slots(get_node(h)) |->
                                               f[slots(get_node(h))[i]]]),
                                     <<get_node(h)>>, <<>>)
           Step == [f \in [W -> R] |-> [h \in W |-> Body(f, h)]]
           Level == Levelled(x)
           collect[hash \in W] == Body(collect, hash)
<1>1. collect_added(x) = collect[x]
  BY DEF collect_added
<1>2. ASSUME NEW f, NEW h, h # ZERO_HASH
      PROVE  Body(f, h) = AddedFrom(f, h)
  <2>1. Readable(h) => get_node(h) = h
    BY NodeIsItsHash
  <2> QED
    BY <1>2, <2>1 DEF AddedFrom
<1>3. \A f : Body(f, ZERO_HASH) = Nothing
  OBVIOUS
<1> HIDE DEF Body
<1>4. /\ ZERO_HASH \in W /\ N \subseteq W /\ x \in N
      /\ \A h \in W : h # ZERO_HASH => h \in N
      /\ \A h \in N : h # ZERO_HASH
  <2>1. x \in N
    BY SubtreeFacts
  <2>2. \A h \in N : h # ZERO_HASH
    BY SubtreeInSubtree, NodesAreNotZero
  <2> QED
    BY <2>1, <2>2 DEF WithZero
<1>5. \A f \in [W -> R] : \A h \in W : Body(f, h) \in R
  <2> SUFFICES ASSUME NEW f \in [W -> R], NEW h \in W PROVE Body(f, h) \in R
    OBVIOUS
  <2>1. CASE h = ZERO_HASH
    BY <1>3, <2>1, NothingFacts
  <2>2. CASE h \in N
    <3>1. PICK m \in Nat : DOMAIN slots(h) = 1..m
                           /\ \A i \in 1..m : slots(h)[i] \in {ZERO_HASH} \cup child_hashes(h)
      BY <2>2, SlotsInTree
    <3> DEFINE rs == [i \in DOMAIN slots(h) |-> f[slots(h)[i]]]
    <3>2. \A i \in 1..m : slots(h)[i] \in W
      BY <1>4, <2>2, <3>1, ChildInTree
    <3>3. rs \in [1..m -> R]
      BY <3>1, <3>2
    <3> HIDE DEF rs
    <3>4. <<h>> \in Seq(N) /\ <<>> \in Seq(N) /\ IsInjective(<<h>>) /\ IsInjective(<<>>)
      BY <2>2, OneFacts
    <3>5. Pushed(Joined(rs), <<h>>, <<>>) \in R
      BY <3>3, <3>4, PushedJoinTyped
    <3>6. Error \in R
      BY NothingFacts
    <3> QED
      BY <1>2, <1>4, <2>2, <3>5, <3>6 DEF AddedFrom, rs
  <2> QED
    BY <1>4, <2>1, <2>2
<1>6. ASSUME NEW k \in Nat, NEW f, NEW g, \A h \in Level[k] : f[h] = g[h],
             NEW h \in Level[k + 1]
      PROVE  Body(f, h) = Body(g, h)
  <2>1. CASE h = ZERO_HASH
    BY <1>3, <2>1
  <2>2. CASE h # ZERO_HASH
    <3>1. \A i \in DOMAIN slots(h) : slots(h)[i] \in Level[k]
      BY <2>2, LevelledFacts
    <3> DEFINE rs == [i \in DOMAIN slots(h) |-> f[slots(h)[i]]]
               qs == [i \in DOMAIN slots(h) |-> g[slots(h)[i]]]
    <3>2. rs = qs
      BY <1>6, <3>1
    <3>3. /\ AddedFrom(f, h) = IF ~Readable(h) THEN Error ELSE Pushed(Joined(rs), <<h>>, <<>>)
          /\ AddedFrom(g, h) = IF ~Readable(h) THEN Error ELSE Pushed(Joined(qs), <<h>>, <<>>)
      BY DEF AddedFrom
    <3> HIDE DEF rs, qs
    <3> QED
      BY <1>2, <2>2, <3>2, <3>3
  <2> QED
    BY <2>1, <2>2
<1>7. LevelByLevel(W, R, Step, Level)
  <2>1. Step \in [[W -> R] -> [W -> R]]
    BY <1>5
  <2>2. [W -> R] # {}
    <3>1. [h \in W |-> Nothing] \in [W -> R]
      BY NothingFacts
    <3> QED
      BY <3>1
  <2>3. /\ Level[0] = {} /\ (\A k \in Nat : Level[k] \subseteq W)
        /\ \E k \in Nat : Level[k] = W
    BY LevelledFacts
  <2>4. \A k \in Nat : \A f, g \in [W -> R] :
          (\A h \in Level[k] : f[h] = g[h]) => \A h \in Level[k + 1] : Step[f][h] = Step[g][h]
    <3> SUFFICES ASSUME NEW k \in Nat, NEW f \in [W -> R], NEW g \in [W -> R],
                        \A h \in Level[k] : f[h] = g[h], NEW h \in Level[k + 1]
                 PROVE  Step[f][h] = Step[g][h]
      OBVIOUS
    <3>1. Body(f, h) = Body(g, h)
      BY <1>6
    <3>2. h \in W
      BY <2>3
    <3> QED
      BY <3>1, <3>2
  <2> HIDE DEF Step, Level, W, R
  <2> QED
    BY <2>1, <2>2, <2>3, <2>4, Zenon DEF LevelByLevel
<1>8. \E f \in [W -> R] : f = Step[f]
  <2> HIDE DEF Step, Level, W, R
  <2> QED
    BY <1>7, Recursion
<1>9. PICK f : f = [h \in W |-> Body(f, h)]
  BY <1>8
<1>10. collect = [h \in W |-> Body(collect, h)]
  <2> HIDE DEF W
  <2> QED
    BY <1>9
<1> HIDE DEF collect
<1>11. collect[ZERO_HASH] = Nothing
  BY <1>3, <1>4, <1>10
<1>12. ASSUME NEW h \in N PROVE collect[h] = AddedFrom(collect, h)
  <2>1. collect[h] = Body(collect, h)
    BY <1>4, <1>10
  <2> QED
    BY <1>2, <1>4, <2>1
<1> QED
  BY <1>1, <1>11, <1>12

\* The slots collect_deleted goes on with.
SlotsRead(h) == IF Readable(h) THEN slots(h) ELSE <<>>

\* collect_deleted of a node, from the results for these.
DeletedFrom(collect, h) ==
  Pushed(Joined([i \in DOMAIN SlotsRead(h) |-> collect[SlotsRead(h)[i]]]), <<>>, <<h>>)

(* collect_deleted is what its recursion says.                             *)
LEMMA DeletedRecursion ==
  ASSUME SoundStores(call.shards), NEW root, IsKeyed(root), NEW d \in Nat, NEW x \in AtDepth(root)[d]
  PROVE  \E collect :
           /\ collect[ZERO_HASH] = Nothing
           /\ \A h \in NodesOf(x) : collect[h] = DeletedFrom(collect, h)
           /\ collect_deleted(x) = collect[x]
<1> DEFINE W == WithZero(x)
           N == NodesOf(x)
           R == Results(N, N)
           kids(h) == IF Readable(h) THEN slots(get_node(h)) ELSE <<>>
           Body(f, h) == IF h = ZERO_HASH THEN Nothing
                         ELSE Pushed(Joined([i \in DOMAIN kids(h) |-> f[kids(h)[i]]]), <<>>, <<h>>)
           Step == [f \in [W -> R] |-> [h \in W |-> Body(f, h)]]
           Level == Levelled(x)
           collect[hash \in W] == Body(collect, hash)
<1>1. collect_deleted(x) = collect[x]
  BY DEF collect_deleted
<1>2. ASSUME NEW f, NEW h, h # ZERO_HASH
      PROVE  Body(f, h) = DeletedFrom(f, h)
  <2>1. Readable(h) => get_node(h) = h
    BY NodeIsItsHash
  <2>2. kids(h) = SlotsRead(h)
    BY <2>1 DEF SlotsRead
  <2> HIDE DEF kids
  <2> QED
    BY <1>2, <2>2, Zenon DEF DeletedFrom
<1>3. \A f : Body(f, ZERO_HASH) = Nothing
  OBVIOUS
<1> HIDE DEF Body
<1>4. /\ ZERO_HASH \in W /\ N \subseteq W /\ x \in N
      /\ \A h \in W : h # ZERO_HASH => h \in N
      /\ \A h \in N : h # ZERO_HASH
  <2>1. x \in N
    BY SubtreeFacts
  <2>2. \A h \in N : h # ZERO_HASH
    BY SubtreeInSubtree, NodesAreNotZero
  <2> QED
    BY <2>1, <2>2 DEF WithZero
<1>5. \A f \in [W -> R] : \A h \in W : Body(f, h) \in R
  <2> SUFFICES ASSUME NEW f \in [W -> R], NEW h \in W PROVE Body(f, h) \in R
    OBVIOUS
  <2>1. CASE h = ZERO_HASH
    BY <1>3, <2>1, NothingFacts
  <2>2. CASE h \in N
    <3>1. PICK m \in Nat : DOMAIN SlotsRead(h) = 1..m
                           /\ \A i \in 1..m : SlotsRead(h)[i] \in {ZERO_HASH} \cup child_hashes(h)
      <4>1. CASE Readable(h)
        BY <2>2, <4>1, SlotsInTree DEF SlotsRead
      <4>2. CASE ~Readable(h)
        <5>1. 0 \in Nat /\ 1..0 = {} /\ DOMAIN SlotsRead(h) = {}
          BY <4>2 DEF SlotsRead
        <5> QED
          BY <5>1
      <4> QED
        BY <4>1, <4>2
    <3> DEFINE rs == [i \in DOMAIN SlotsRead(h) |-> f[SlotsRead(h)[i]]]
    <3>2. \A i \in 1..m : SlotsRead(h)[i] \in W
      BY <1>4, <2>2, <3>1, ChildInTree
    <3>3. rs \in [1..m -> R]
      BY <3>1, <3>2
    <3> HIDE DEF rs
    <3>4. <<h>> \in Seq(N) /\ <<>> \in Seq(N) /\ IsInjective(<<h>>) /\ IsInjective(<<>>)
      BY <2>2, OneFacts
    <3>5. Pushed(Joined(rs), <<>>, <<h>>) \in R
      BY <3>3, <3>4, PushedJoinTyped
    <3> QED
      BY <1>2, <1>4, <2>2, <3>5 DEF DeletedFrom, rs
  <2> QED
    BY <1>4, <2>1, <2>2
<1>6. ASSUME NEW k \in Nat, NEW f, NEW g, \A h \in Level[k] : f[h] = g[h],
             NEW h \in Level[k + 1]
      PROVE  Body(f, h) = Body(g, h)
  <2>1. CASE h = ZERO_HASH
    BY <1>3, <2>1
  <2>2. CASE h # ZERO_HASH
    <3>1. \A i \in DOMAIN SlotsRead(h) : SlotsRead(h)[i] \in Level[k]
      BY <2>2, LevelledFacts DEF SlotsRead
    <3> DEFINE rs == [i \in DOMAIN SlotsRead(h) |-> f[SlotsRead(h)[i]]]
               qs == [i \in DOMAIN SlotsRead(h) |-> g[SlotsRead(h)[i]]]
    <3>2. rs = qs
      BY <1>6, <3>1
    <3>3. /\ DeletedFrom(f, h) = Pushed(Joined(rs), <<>>, <<h>>)
          /\ DeletedFrom(g, h) = Pushed(Joined(qs), <<>>, <<h>>)
      BY DEF DeletedFrom
    <3> HIDE DEF rs, qs
    <3> QED
      BY <1>2, <2>2, <3>2, <3>3
  <2> QED
    BY <2>1, <2>2
<1>7. LevelByLevel(W, R, Step, Level)
  <2>1. Step \in [[W -> R] -> [W -> R]]
    BY <1>5
  <2>2. [W -> R] # {}
    <3>1. [h \in W |-> Nothing] \in [W -> R]
      BY NothingFacts
    <3> QED
      BY <3>1
  <2>3. /\ Level[0] = {} /\ (\A k \in Nat : Level[k] \subseteq W)
        /\ \E k \in Nat : Level[k] = W
    BY LevelledFacts
  <2>4. \A k \in Nat : \A f, g \in [W -> R] :
          (\A h \in Level[k] : f[h] = g[h]) => \A h \in Level[k + 1] : Step[f][h] = Step[g][h]
    <3> SUFFICES ASSUME NEW k \in Nat, NEW f \in [W -> R], NEW g \in [W -> R],
                        \A h \in Level[k] : f[h] = g[h], NEW h \in Level[k + 1]
                 PROVE  Step[f][h] = Step[g][h]
      OBVIOUS
    <3>1. Body(f, h) = Body(g, h)
      BY <1>6
    <3>2. h \in W
      BY <2>3
    <3> QED
      BY <3>1, <3>2
  <2> HIDE DEF Step, Level, W, R
  <2> QED
    BY <2>1, <2>2, <2>3, <2>4, Zenon DEF LevelByLevel
<1>8. \E f \in [W -> R] : f = Step[f]
  <2> HIDE DEF Step, Level, W, R
  <2> QED
    BY <1>7, Recursion
<1>9. PICK f : f = [h \in W |-> Body(f, h)]
  BY <1>8
<1>10. collect = [h \in W |-> Body(collect, h)]
  <2> HIDE DEF W
  <2> QED
    BY <1>9
<1> HIDE DEF collect
<1>11. collect[ZERO_HASH] = Nothing
  BY <1>3, <1>4, <1>10
<1>12. ASSUME NEW h \in N PROVE collect[h] = DeletedFrom(collect, h)
  <2>1. collect[h] = Body(collect, h)
    BY <1>4, <1>10
  <2> QED
    BY <1>2, <1>4, <2>1
<1> QED
  BY <1>1, <1>11, <1>12

(* The nodes under a node are those under its slots, each under one.       *)
LEMMA NodeBySlots ==
  ASSUME NEW root, IsKeyed(root), NEW d \in Nat, NEW y \in AtDepth(root)[d]
  PROVE  /\ \A z : z \in NodesOf(y) <=> z = y \/ \E i \in DOMAIN slots(y) : z \in NodesOf(slots(y)[i])
         /\ \A i \in DOMAIN slots(y) : y \notin NodesOf(slots(y)[i])
         /\ \A i, j \in DOMAIN slots(y) : i # j => NodesOf(slots(y)[i]) \cap NodesOf(slots(y)[j]) = {}
<1>1. y \in NodesOf(y)
  BY SubtreeFacts
<1>2. PICK m \in Nat : /\ DOMAIN slots(y) = 1..m
                       /\ \A i \in 1..m : slots(y)[i] \in {ZERO_HASH} \cup child_hashes(y)
                       /\ \A c \in child_hashes(y) : \E i \in 1..m : c = slots(y)[i]
  BY <1>1, SlotsInTree
<1>3. NodesOf(y) = {y} \cup UNION {NodesOf(c) : c \in child_hashes(y)}
  BY ChildrenInTree
<1>4. \A z : z \in NodesOf(y) <=> z = y \/ \E i \in DOMAIN slots(y) : z \in NodesOf(slots(y)[i])
  BY <1>2, <1>3, NoTree
<1>5. \A i \in DOMAIN slots(y) : is_inner(y)
  BY LeafFacts
<1>6. ASSUME NEW i \in DOMAIN slots(y), y \in NodesOf(slots(y)[i])
      PROVE  FALSE
  <2>1. slots(y)[i] \in child_hashes(y)
    BY <1>2, <1>6, NoTree
  <2> QED
    BY <1>5, <1>6, <2>1, InnerNotBelow
<1>7. ASSUME NEW i \in DOMAIN slots(y), NEW j \in DOMAIN slots(y), i # j,
             NEW z \in NodesOf(slots(y)[i]) \cap NodesOf(slots(y)[j])
      PROVE  FALSE
  <2>1. is_inner(y)
    BY <1>5
  <2>2. i \in 1..Branch /\ j \in 1..Branch
    BY <2>1, SlotFacts
  <2>3. z \in NodesOf(slots(y)[i]) /\ z \in NodesOf(slots(y)[j])
    BY <1>7
  <2>4. i = j
    BY <2>1, <2>2, <2>3, SlotsDisjoint
  <2> QED
    BY <1>7, <2>4
<1> QED
  BY <1>4, <1>6, <1>7

\* What collect_added promises of a tree, or an empty slot.
AddedRight(r, x) ==
  /\ r \in Results(NodesOf(x), NodesOf(x)) /\ ListsOnce(r)
  /\ DeletedBy(r) = {}
  /\ r.ok => AddedBy(r) = NodesOf(x)
  /\ ~r.ok => \E z \in NodesOf(x) : ~Readable(z)

\* What collect_deleted promises: what cannot be read is listed itself.
DeletedRight(r, x) ==
  /\ r \in Results(NodesOf(x), NodesOf(x)) /\ ListsOnce(r)
  /\ r.ok /\ AddedBy(r) = {}
  /\ x # ZERO_HASH => x \in DeletedBy(r)
  /\ (\A z \in NodesOf(x) : Readable(z)) => DeletedBy(r) = NodesOf(x)

(* What a list of a tree's nodes or hashes is a list of.                   *)
LEMMA ListedNodes ==
  ASSUME NEW A, NEW D, NEW r \in Results(A, D)
  PROVE  AddedBy(r) \subseteq A /\ DeletedBy(r) \subseteq D /\ r.ok \in BOOLEAN
<1>1. r.added \in Seq(A) /\ r.deleted \in Seq(D) /\ r.ok \in BOOLEAN
  BY DEF Results
<1>2. \A B : \A s \in Seq(B) : ToSet(s) \subseteq B
  BY DEF ToSet
<1> QED
  BY <1>1, <1>2 DEF AddedBy, DeletedBy

(* collect_added lists every node once, or meets one it cannot read.       *)
LEMMA AddedIsRight ==
  ASSUME SoundStores(call.shards), NEW root, IsKeyed(root), NEW d \in Nat, NEW x \in AtDepth(root)[d]
  PROVE  AddedRight(collect_added(x), x)
<1>1. PICK collect :
        /\ collect[ZERO_HASH] = Nothing
        /\ \A h \in NodesOf(x) : collect[h] = AddedFrom(collect, h)
        /\ collect_added(x) = collect[x]
  BY AddedRecursion
<1> DEFINE T == {y \in NodesOf(x) : AddedRight(collect[y], y)}
<1>2. AddedRight(collect[ZERO_HASH], ZERO_HASH)
  BY <1>1, NoTree, NothingFacts DEF AddedRight
<1>3. ASSUME NEW e \in Nat, NEW y \in AtDepth(root)[e], y \in NodesOf(x), child_hashes(y) \subseteq T
      PROVE  AddedRight(collect[y], y)
  <2> DEFINE N == NodesOf(y)
             S == slots(y)
             rs == [i \in DOMAIN S |-> collect[S[i]]]
             all == Joined(rs)
             r == Pushed(all, <<y>>, <<>>)
  <2>1. PICK m \in Nat : DOMAIN S = 1..m /\ \A i \in 1..m : S[i] \in {ZERO_HASH} \cup child_hashes(y)
    BY <1>3, SlotsInTree
  <2>2. \A i \in 1..m : AddedRight(collect[S[i]], S[i])
    BY <1>2, <1>3, <2>1
  <2>3. y \in N
    BY SubtreeFacts
  <2>4. /\ \A z : z \in N <=> z = y \/ \E i \in 1..m : z \in NodesOf(S[i])
        /\ \A i \in 1..m : y \notin NodesOf(S[i])
        /\ \A i, j \in 1..m : i # j => NodesOf(S[i]) \cap NodesOf(S[j]) = {}
    BY <2>1, NodeBySlots
  <2>5. \A i \in 1..m : rs[i] = collect[S[i]]
    BY <2>1
  <2>6. ASSUME NEW i \in 1..m PROVE rs[i] \in Results(N, N)
    <3>1. NodesOf(S[i]) \subseteq N
      BY <2>4
    <3>2. rs[i] \in Results(NodesOf(S[i]), NodesOf(S[i]))
      BY <2>2, <2>5 DEF AddedRight
    <3> QED
      BY <3>1, <3>2, ResultsGrow
  <2>7. rs \in [1..m -> Results(N, N)]
    BY <2>1, <2>6
  <2> HIDE DEF S, rs
  <2>8. ASSUME NEW i \in 1..m
        PROVE  /\ AddedBy(rs[i]) \subseteq NodesOf(S[i]) /\ DeletedBy(rs[i]) = {} /\ ListsOnce(rs[i])
               /\ rs[i].ok => AddedBy(rs[i]) = NodesOf(S[i])
               /\ ~rs[i].ok => \E z \in NodesOf(S[i]) : ~Readable(z)
    <3>1. AddedRight(rs[i], S[i])
      BY <2>2, <2>5
    <3>2. AddedBy(rs[i]) \subseteq NodesOf(S[i])
      BY <3>1, ListedNodes DEF AddedRight
    <3> QED
      BY <3>1, <3>2 DEF AddedRight
  <2>9. /\ all \in Results(N, N)
        /\ all.ok <=> \A i \in 1..m : rs[i].ok
        /\ AddedBy(all) = UNION {AddedBy(rs[i]) : i \in 1..m}
        /\ DeletedBy(all) = UNION {DeletedBy(rs[i]) : i \in 1..m}
        /\ (\A i \in 1..m : ListsOnce(rs[i]))
             /\ (\A i, j \in 1..m : i # j => /\ AddedBy(rs[i]) \cap AddedBy(rs[j]) = {}
                                             /\ DeletedBy(rs[i]) \cap DeletedBy(rs[j]) = {})
             => ListsOnce(all)
    BY <2>7, JoinedFacts
  <2> HIDE DEF all
  <2>10. ListsOnce(all)
    <3>1. \A i, j \in 1..m : i # j => AddedBy(rs[i]) \cap AddedBy(rs[j]) = {}
      BY <2>4, <2>8
    <3>2. \A i, j \in 1..m : DeletedBy(rs[i]) \cap DeletedBy(rs[j]) = {}
      BY <2>8
    <3> QED
      BY <2>8, <2>9, <3>1, <3>2
  <2>11. /\ <<y>> \in Seq(N) /\ IsInjective(<<y>>) /\ ToSet(<<y>>) = {y}
         /\ <<>> \in Seq(N) /\ IsInjective(<<>>) /\ ToSet(<<>>) = {}
    BY <2>3, OneFacts
  <2>12. /\ r \in Results(N, N)
         /\ r.ok <=> all.ok
         /\ AddedBy(r) = AddedBy(all) \cup {y}
         /\ DeletedBy(r) = DeletedBy(all)
         /\ AddedBy(all) \cap {y} = {} => ListsOnce(r)
    <3> DEFINE as == <<y>>
               ds == <<>>
    <3>1. /\ as \in Seq(N) /\ IsInjective(as) /\ ToSet(as) = {y}
          /\ ds \in Seq(N) /\ IsInjective(ds) /\ ToSet(ds) = {}
      BY <2>11
    <3> HIDE DEF as, ds
    <3>2. /\ Pushed(all, as, ds) \in Results(N, N)
          /\ Pushed(all, as, ds).ok <=> all.ok
          /\ AddedBy(Pushed(all, as, ds)) = AddedBy(all) \cup ToSet(as)
          /\ DeletedBy(Pushed(all, as, ds)) = DeletedBy(all) \cup ToSet(ds)
          /\ ListsOnce(all) /\ AddedBy(all) \cap ToSet(as) = {} /\ DeletedBy(all) \cap ToSet(ds) = {}
               => ListsOnce(Pushed(all, as, ds))
      BY <2>9, <3>1, PushedFacts
    <3>3. r = Pushed(all, as, ds)
      BY DEF as, ds
    <3> HIDE DEF r
    <3> QED
      BY <2>10, <3>1, <3>2, <3>3
  <2>13. collect[y] = IF ~Readable(y) THEN Error ELSE r
    BY <1>1, <1>3 DEF AddedFrom, r, all, rs, S
  <2> HIDE DEF r
  <2>14. CASE ~Readable(y)
    <3>1. /\ Error \in Results(N, N) /\ ~Error.ok
          /\ AddedBy(Error) = {} /\ DeletedBy(Error) = {} /\ ListsOnce(Error)
      BY NothingFacts
    <3> QED
      BY <2>3, <2>13, <2>14, <3>1 DEF AddedRight
  <2>15. CASE Readable(y)
    <3>1. AddedBy(all) \cap {y} = {}
      BY <2>4, <2>8, <2>9
    <3>2. DeletedBy(r) = {}
      BY <2>8, <2>9, <2>12
    <3>3. ASSUME r.ok PROVE AddedBy(r) = N
      <4>1. \A i \in 1..m : AddedBy(rs[i]) = NodesOf(S[i])
        BY <2>8, <2>9, <2>12, <3>3
      <4>2. \A z : z \in AddedBy(r) <=> z \in N
        BY <2>4, <2>9, <2>12, <4>1
      <4> QED
        BY <4>2
    <3>4. ASSUME ~r.ok PROVE \E z \in N : ~Readable(z)
      BY <2>4, <2>8, <2>9, <2>12, <3>4
    <3>5. collect[y] = r
      BY <2>13, <2>15
    <3> QED
      BY <2>12, <3>1, <3>2, <3>3, <3>4, <3>5 DEF AddedRight
  <2> QED
    BY <2>14, <2>15
<1>4. NodesOf(x) \subseteq T
  <2>1. \A e \in Nat : \A y \in AtDepth(root)[e] :
          y \in NodesOf(x) /\ child_hashes(y) \subseteq T => y \in T
    BY <1>3
  <2> HIDE DEF T
  <2> QED
    BY <2>1, TreeInduction
<1>5. x \in NodesOf(x)
  BY SubtreeFacts
<1> QED
  BY <1>1, <1>4, <1>5

(* collect_deleted lists every hash once: all, if all nodes can be read.   *)
LEMMA DeletedIsRight ==
  ASSUME SoundStores(call.shards), NEW root, IsKeyed(root), NEW d \in Nat, NEW x \in AtDepth(root)[d]
  PROVE  DeletedRight(collect_deleted(x), x)
<1>1. PICK collect :
        /\ collect[ZERO_HASH] = Nothing
        /\ \A h \in NodesOf(x) : collect[h] = DeletedFrom(collect, h)
        /\ collect_deleted(x) = collect[x]
  BY DeletedRecursion
<1> DEFINE T == {y \in NodesOf(x) : DeletedRight(collect[y], y)}
<1>2. DeletedRight(collect[ZERO_HASH], ZERO_HASH)
  BY <1>1, NoTree, NothingFacts DEF DeletedRight
<1>3. ASSUME NEW e \in Nat, NEW y \in AtDepth(root)[e], y \in NodesOf(x), child_hashes(y) \subseteq T
      PROVE  DeletedRight(collect[y], y)
  <2> DEFINE N == NodesOf(y)
             S == SlotsRead(y)
             rs == [i \in DOMAIN S |-> collect[S[i]]]
             all == Joined(rs)
             r == Pushed(all, <<>>, <<y>>)
  <2>1. PICK m \in Nat : DOMAIN S = 1..m /\ \A i \in 1..m : S[i] \in {ZERO_HASH} \cup child_hashes(y)
    <3>1. CASE Readable(y)
      BY <1>3, <3>1, SlotsInTree DEF SlotsRead
    <3>2. CASE ~Readable(y)
      <4>1. 0 \in Nat /\ 1..0 = {} /\ DOMAIN S = {}
        BY <3>2 DEF SlotsRead
      <4> QED
        BY <4>1
    <3> QED
      BY <3>1, <3>2
  <2>2. \A i \in 1..m : DeletedRight(collect[S[i]], S[i])
    BY <1>2, <1>3, <2>1
  <2>3. y \in N /\ y # ZERO_HASH
    BY SubtreeFacts
  <2>4. /\ \A i \in 1..m : NodesOf(S[i]) \subseteq N
        /\ \A i \in 1..m : y \notin NodesOf(S[i])
        /\ \A i, j \in 1..m : i # j => NodesOf(S[i]) \cap NodesOf(S[j]) = {}
    <3>1. 1..m \subseteq DOMAIN slots(y) /\ \A i \in 1..m : S[i] = slots(y)[i]
      BY <2>1 DEF SlotsRead
    <3> HIDE DEF S
    <3> QED
      BY <3>1, NodeBySlots
  <2>5. Readable(y) => \A z : z \in N <=> z = y \/ \E i \in 1..m : z \in NodesOf(S[i])
    BY <2>1, NodeBySlots DEF SlotsRead
  <2>6. ASSUME NEW i \in 1..m PROVE rs[i] \in Results(N, N)
    <3>1. rs[i] \in Results(NodesOf(S[i]), NodesOf(S[i]))
      BY <2>1, <2>2 DEF DeletedRight
    <3> QED
      BY <2>4, <3>1, ResultsGrow
  <2>7. rs \in [1..m -> Results(N, N)] /\ \A i \in 1..m : DeletedRight(rs[i], S[i])
    BY <2>1, <2>2, <2>6
  <2> HIDE DEF S, rs
  <2>8. ASSUME NEW i \in 1..m
        PROVE  /\ DeletedBy(rs[i]) \subseteq NodesOf(S[i]) /\ AddedBy(rs[i]) = {} /\ ListsOnce(rs[i])
               /\ rs[i].ok
               /\ (\A z \in NodesOf(S[i]) : Readable(z)) => DeletedBy(rs[i]) = NodesOf(S[i])
    <3>1. DeletedRight(rs[i], S[i])
      BY <2>7
    <3>2. DeletedBy(rs[i]) \subseteq NodesOf(S[i])
      BY <3>1, ListedNodes DEF DeletedRight
    <3> QED
      BY <3>1, <3>2 DEF DeletedRight
  <2>9. /\ all \in Results(N, N)
        /\ all.ok <=> \A i \in 1..m : rs[i].ok
        /\ AddedBy(all) = UNION {AddedBy(rs[i]) : i \in 1..m}
        /\ DeletedBy(all) = UNION {DeletedBy(rs[i]) : i \in 1..m}
        /\ (\A i \in 1..m : ListsOnce(rs[i]))
             /\ (\A i, j \in 1..m : i # j => /\ AddedBy(rs[i]) \cap AddedBy(rs[j]) = {}
                                             /\ DeletedBy(rs[i]) \cap DeletedBy(rs[j]) = {})
             => ListsOnce(all)
    BY <2>7, JoinedFacts
  <2> HIDE DEF all
  <2>10. ListsOnce(all) /\ all.ok /\ AddedBy(all) = {}
    <3>1. \A i, j \in 1..m : i # j => DeletedBy(rs[i]) \cap DeletedBy(rs[j]) = {}
      BY <2>4, <2>8
    <3>2. \A i, j \in 1..m : AddedBy(rs[i]) \cap AddedBy(rs[j]) = {}
      BY <2>8
    <3>3. ListsOnce(all)
      BY <2>8, <2>9, <3>1, <3>2
    <3> QED
      BY <2>8, <2>9, <3>3
  <2>11. /\ r \in Results(N, N) /\ r.ok /\ AddedBy(r) = {}
         /\ DeletedBy(r) = DeletedBy(all) \cup {y}
         /\ DeletedBy(all) \cap {y} = {} => ListsOnce(r)
    <3> DEFINE as == <<>>
               ds == <<y>>
    <3>1. /\ as \in Seq(N) /\ IsInjective(as) /\ ToSet(as) = {}
          /\ ds \in Seq(N) /\ IsInjective(ds) /\ ToSet(ds) = {y}
      BY <2>3, OneFacts
    <3> HIDE DEF as, ds
    <3>2. /\ Pushed(all, as, ds) \in Results(N, N)
          /\ Pushed(all, as, ds).ok <=> all.ok
          /\ AddedBy(Pushed(all, as, ds)) = AddedBy(all) \cup ToSet(as)
          /\ DeletedBy(Pushed(all, as, ds)) = DeletedBy(all) \cup ToSet(ds)
          /\ ListsOnce(all) /\ AddedBy(all) \cap ToSet(as) = {} /\ DeletedBy(all) \cap ToSet(ds) = {}
               => ListsOnce(Pushed(all, as, ds))
      BY <2>9, <3>1, PushedFacts
    <3>3. r = Pushed(all, as, ds)
      BY DEF as, ds
    <3> HIDE DEF r
    <3> QED
      BY <2>10, <3>1, <3>2, <3>3
  <2>12. collect[y] = r
    BY <1>1, <1>3 DEF DeletedFrom, r, all, rs, S
  <2> HIDE DEF r
  <2>13. ListsOnce(r) /\ y \in DeletedBy(r)
    <3>1. DeletedBy(all) \cap {y} = {}
      BY <2>4, <2>8, <2>9
    <3> QED
      BY <2>11, <3>1
  <2>14. ASSUME \A z \in N : Readable(z) PROVE DeletedBy(r) = N
    <3>1. Readable(y)
      BY <2>3, <2>14
    <3>2. \A i \in 1..m : DeletedBy(rs[i]) = NodesOf(S[i])
      BY <2>4, <2>8, <2>14
    <3>3. \A z : z \in DeletedBy(r) <=> z \in N
      BY <2>5, <2>9, <2>11, <3>1, <3>2
    <3> QED
      BY <3>3
  <2> QED
    BY <2>11, <2>12, <2>13, <2>14 DEF DeletedRight
<1>4. NodesOf(x) \subseteq T
  <2>1. \A e \in Nat : \A y \in AtDepth(root)[e] :
          y \in NodesOf(x) /\ child_hashes(y) \subseteq T => y \in T
    BY <1>3
  <2> HIDE DEF T
  <2> QED
    BY <2>1, TreeInduction
<1>5. x \in NodesOf(x)
  BY SubtreeFacts
<1> QED
  BY <1>1, <1>4, <1>5

-----------------------------------------------------------------------------
(* diff of two nodes                                                       *)

(* A sequence is one over any set that has what it holds.                  *)
LEMMA SeqOver ==
  ASSUME NEW A, NEW B, NEW s \in Seq(A), ToSet(s) \subseteq B
  PROVE  s \in Seq(B)
<1>1. Len(s) \in Nat /\ DOMAIN s = 1..Len(s) /\ s = [i \in 1..Len(s) |-> s[i]]
  OBVIOUS
<1>2. \A i \in 1..Len(s) : s[i] \in B
  BY <1>1 DEF ToSet
<1> QED
  BY <1>1, <1>2

(* What is added or deleted as a whole, as a diff of two trees.            *)
LEMMA WholeTyped ==
  ASSUME NEW A, NEW D, NEW x, NEW r
  PROVE  /\ AddedRight(r, x) /\ NodesOf(x) \subseteq A => r \in Results(A, D)
         /\ DeletedRight(r, x) /\ NodesOf(x) \subseteq D => r \in Results(A, D)
<1> DEFINE N == NodesOf(x)
<1>1. ASSUME r \in Results(N, N)
      PROVE  /\ r.ok \in BOOLEAN /\ r.added \in Seq(N) /\ r.deleted \in Seq(N)
             /\ r = [ok |-> r.ok, added |-> r.added, deleted |-> r.deleted]
  BY <1>1 DEF Results
<1>2. ASSUME AddedRight(r, x), N \subseteq A PROVE r \in Results(A, D)
  <2>1. r \in Results(N, N) /\ ToSet(r.deleted) = {}
    BY <1>2 DEF AddedRight, DeletedBy
  <2>2. r.deleted \in Seq(D)
    BY <1>1, <2>1, SeqOver
  <2>3. r.added \in Seq(A)
    BY <1>1, <1>2, <2>1
  <2> QED
    BY <1>1, <2>1, <2>2, <2>3 DEF Results
<1>3. ASSUME DeletedRight(r, x), N \subseteq D PROVE r \in Results(A, D)
  <2>1. r \in Results(N, N) /\ ToSet(r.added) = {}
    BY <1>3 DEF DeletedRight, AddedBy
  <2>2. r.added \in Seq(A)
    BY <1>1, <2>1, SeqOver
  <2>3. r.deleted \in Seq(D)
    BY <1>1, <1>3, <2>1
  <2> QED
    BY <1>1, <2>1, <2>2, <2>3 DEF Results
<1> QED
  BY <1>2, <1>3

\* diff of two nodes, from the diffs of their slots.
DiffFrom(diff, old, new) ==
  IF old = new THEN Nothing
  ELSE IF new = ZERO_HASH THEN collect_deleted(old)
  ELSE IF old = ZERO_HASH THEN collect_added(new)
  ELSE IF ~(Readable(new) /\ Readable(old)) THEN Error
  ELSE IF is_inner(new) /\ is_inner(old)
  THEN Pushed(Joined([i \in 1..Branch |-> diff[slots(old)[i]][slots(new)[i]]]), <<new>>, <<old>>)
  ELSE Then(collect_added(new), collect_deleted(old))

(* diff is what its recursion says.                                        *)
LEMMA DiffRecursion ==
  ASSUME SoundStores(call.shards), NEW a, NEW b, IsKeyed(a), IsKeyed(b)
  PROVE  \E diff :
           /\ \A o \in WithZero(a), n \in WithZero(b) : diff[o][n] = DiffFrom(diff, o, n)
           /\ diff_nodes(a, b) = diff[a][b]
<1> DEFINE V == WithZero(a)
           W == WithZero(b)
           Q == Results(NodesOf(b), NodesOf(a))
           R == [W -> Q]
           Body(f, old, new) ==
             IF old = new THEN Nothing
             ELSE IF new = ZERO_HASH THEN collect_deleted(old)
             ELSE IF old = ZERO_HASH THEN collect_added(new)
             ELSE IF ~(Readable(new) /\ Readable(old)) THEN Error
             ELSE IF is_inner(get_node(new)) /\ is_inner(get_node(old))
             THEN Pushed(Joined([i \in 1..Branch |->
                                   f[slots(get_node(old))[i]][slots(get_node(new))[i]]]),
                         <<get_node(new)>>, <<old>>)
             ELSE Then(collect_added(new), collect_deleted(old))
           Step == [f \in [V -> R] |-> [o \in V |-> [n \in W |-> Body(f, o, n)]]]
           Level == Levelled(a)
           diff[old \in V] == [new \in W |-> Body(diff, old, new)]
<1>1. diff_nodes(a, b) = diff[a][b]
  BY DEF diff_nodes
<1>2. \A f, o, n : Body(f, o, n) = DiffFrom(f, o, n)
  <2> SUFFICES ASSUME NEW f, NEW o, NEW n PROVE Body(f, o, n) = DiffFrom(f, o, n)
    OBVIOUS
  <2>1. (Readable(o) => get_node(o) = o) /\ (Readable(n) => get_node(n) = n)
    BY NodeIsItsHash
  <2>2. CASE Readable(n) /\ Readable(o)
    <3>1. get_node(o) = o /\ get_node(n) = n
      BY <2>1, <2>2
    <3> QED
      BY <3>1, Zenon DEF DiffFrom
  <2>3. CASE ~(Readable(n) /\ Readable(o))
    BY <2>3, Zenon DEF DiffFrom
  <2> QED
    BY <2>2, <2>3
<1> HIDE DEF Body
<1>3. /\ a \in AtDepth(a)[0] /\ b \in AtDepth(b)[0] /\ a \in V /\ b \in W
      /\ \A o \in V : o # ZERO_HASH => \E e \in Nat : o \in AtDepth(a)[e] /\ o \in NodesOf(a)
      /\ \A n \in W : n # ZERO_HASH => \E e \in Nat : n \in AtDepth(b)[e] /\ n \in NodesOf(b)
  <2>1. a \in AtDepth(a)[0] /\ b \in AtDepth(b)[0]
    BY KeyedRoot
  <2>2. a \in NodesOf(a) /\ b \in NodesOf(b)
    BY <2>1, SubtreeFacts
  <2>3. \A o \in NodesOf(a) : \E e \in Nat : o \in AtDepth(a)[e]
    BY <2>1, SubtreeFacts
  <2>4. \A n \in NodesOf(b) : \E e \in Nat : n \in AtDepth(b)[e]
    BY <2>1, SubtreeFacts
  <2> QED
    BY <2>2, <2>1, <2>3, <2>4 DEF WithZero
<1>4. \A o \in V : is_inner(o) /\ o # ZERO_HASH =>
        DOMAIN slots(o) = 1..Branch /\ \A i \in 1..Branch : slots(o)[i] \in V
  <2> SUFFICES ASSUME NEW o \in V, is_inner(o), o # ZERO_HASH
               PROVE  DOMAIN slots(o) = 1..Branch /\ \A i \in 1..Branch : slots(o)[i] \in V
    OBVIOUS
  <2>1. PICK e \in Nat : o \in AtDepth(a)[e] /\ o \in NodesOf(a)
    BY <1>3
  <2>2. /\ DOMAIN slots(o) = 1..Branch
        /\ \A i \in 1..Branch : slots(o)[i] = ZERO_HASH \/ slots(o)[i] \in child_hashes(o)
    BY <2>1, SlotFacts
  <2>3. child_hashes(o) \subseteq NodesOf(a)
    BY <1>3, <2>1, ChildInTree
  <2> QED
    BY <2>2, <2>3 DEF WithZero
<1>5. \A n \in W : is_inner(n) /\ n # ZERO_HASH =>
        DOMAIN slots(n) = 1..Branch /\ \A i \in 1..Branch : slots(n)[i] \in W
  <2> SUFFICES ASSUME NEW n \in W, is_inner(n), n # ZERO_HASH
               PROVE  DOMAIN slots(n) = 1..Branch /\ \A i \in 1..Branch : slots(n)[i] \in W
    OBVIOUS
  <2>1. PICK e \in Nat : n \in AtDepth(b)[e] /\ n \in NodesOf(b)
    BY <1>3
  <2>2. /\ DOMAIN slots(n) = 1..Branch
        /\ \A i \in 1..Branch : slots(n)[i] = ZERO_HASH \/ slots(n)[i] \in child_hashes(n)
    BY <2>1, SlotFacts
  <2>3. child_hashes(n) \subseteq NodesOf(b)
    BY <1>3, <2>1, ChildInTree
  <2> QED
    BY <2>2, <2>3 DEF WithZero
<1>6. ASSUME NEW f \in [V -> R], NEW o \in V, NEW n \in W
      PROVE  Body(f, o, n) \in Q
  <2>1. Nothing \in Q /\ Error \in Q
    BY NothingFacts
  <2>2. o # ZERO_HASH => collect_deleted(o) \in Q
    <3> SUFFICES ASSUME o # ZERO_HASH PROVE collect_deleted(o) \in Q
      OBVIOUS
    <3>1. PICK e \in Nat : o \in AtDepth(a)[e] /\ o \in NodesOf(a)
      BY <1>3
    <3>2. DeletedRight(collect_deleted(o), o) /\ NodesOf(o) \subseteq NodesOf(a)
      BY <1>3, <3>1, DeletedIsRight, SubtreeInSubtree
    <3> QED
      BY <3>2, WholeTyped
  <2>3. n # ZERO_HASH => collect_added(n) \in Q
    <3> SUFFICES ASSUME n # ZERO_HASH PROVE collect_added(n) \in Q
      OBVIOUS
    <3>1. PICK e \in Nat : n \in AtDepth(b)[e] /\ n \in NodesOf(b)
      BY <1>3
    <3>2. AddedRight(collect_added(n), n) /\ NodesOf(n) \subseteq NodesOf(b)
      BY <1>3, <3>1, AddedIsRight, SubtreeInSubtree
    <3> QED
      BY <3>2, WholeTyped
  <2>4. o # ZERO_HASH /\ n # ZERO_HASH => Then(collect_added(n), collect_deleted(o)) \in Q
    BY <2>2, <2>3, ThenFacts
  <2> DEFINE rs == [i \in 1..Branch |-> f[slots(o)[i]][slots(n)[i]]]
  <2>5. o # ZERO_HASH /\ n # ZERO_HASH /\ is_inner(n) /\ is_inner(o)
          => Pushed(Joined(rs), <<n>>, <<o>>) \in Q
    <3> SUFFICES ASSUME o # ZERO_HASH, n # ZERO_HASH, is_inner(n), is_inner(o)
                 PROVE  Pushed(Joined(rs), <<n>>, <<o>>) \in Q
      OBVIOUS
    <3>1. \A i \in 1..Branch : slots(o)[i] \in V /\ slots(n)[i] \in W
      BY <1>4, <1>5
    <3>2. rs \in [1..Branch -> Q] /\ Branch \in Nat
      BY <3>1, ShapeAssumption
    <3>3. o \in NodesOf(a) /\ n \in NodesOf(b)
      BY <1>3
    <3>4. <<n>> \in Seq(NodesOf(b)) /\ IsInjective(<<n>>) /\ <<o>> \in Seq(NodesOf(a)) /\ IsInjective(<<o>>)
      BY <3>3, OneFacts
    <3> HIDE DEF rs
    <3> QED
      BY <3>2, <3>4, PushedJoinTyped
  <2>6. Body(f, o, n) = DiffFrom(f, o, n)
    BY <1>2
  <2>7. DiffFrom(f, o, n) \in Q
    <3>1. CASE o = n
      BY <2>1, <3>1 DEF DiffFrom
    <3>2. CASE o # n /\ n = ZERO_HASH
      BY <2>2, <3>2 DEF DiffFrom
    <3>3. CASE o # n /\ n # ZERO_HASH /\ o = ZERO_HASH
      BY <2>3, <3>3 DEF DiffFrom
    <3>4. CASE o # n /\ n # ZERO_HASH /\ o # ZERO_HASH
      <4> DEFINE p == Pushed(Joined(rs), <<n>>, <<o>>)
      <4>1. DiffFrom(f, o, n) = IF ~(Readable(n) /\ Readable(o)) THEN Error
                                ELSE IF is_inner(n) /\ is_inner(o) THEN p
                                ELSE Then(collect_added(n), collect_deleted(o))
        BY <3>4 DEF DiffFrom
      <4> HIDE DEF p
      <4>2. is_inner(n) /\ is_inner(o) => p \in Q
        BY <2>5, <3>4 DEF p
      <4> HIDE DEF Q
      <4> QED
        BY <2>1, <2>4, <3>4, <4>1, <4>2
    <3> QED
      BY <3>1, <3>2, <3>3, <3>4
  <2> QED
    BY <2>6, <2>7
<1>7. ASSUME NEW k \in Nat, NEW f \in [V -> R], NEW g \in [V -> R],
             \A o \in Level[k] : f[o] = g[o], NEW o \in Level[k + 1], NEW n \in W
      PROVE  Body(f, o, n) = Body(g, o, n)
  <2> DEFINE rs == [i \in 1..Branch |-> f[slots(o)[i]][slots(n)[i]]]
             qs == [i \in 1..Branch |-> g[slots(o)[i]][slots(n)[i]]]
  <2>1. o \in V /\ \A i \in DOMAIN slots(o) : o # ZERO_HASH => slots(o)[i] \in Level[k]
    <3>1. k + 1 \in Nat
      OBVIOUS
    <3>2. o \in V
      BY <1>3, <3>1, LevelledFacts
    <3> QED
      BY <1>3, <3>2, LevelledFacts
  <2>2. is_inner(o) /\ o # ZERO_HASH => rs = qs
    BY <1>4, <1>7, <2>1
  <2>3. /\ Body(f, o, n) = DiffFrom(f, o, n)
        /\ Body(g, o, n) = DiffFrom(g, o, n)
    BY <1>2
  <2> DEFINE With(ps) == IF o = n THEN Nothing
                         ELSE IF n = ZERO_HASH THEN collect_deleted(o)
                         ELSE IF o = ZERO_HASH THEN collect_added(n)
                         ELSE IF ~(Readable(n) /\ Readable(o)) THEN Error
                         ELSE IF is_inner(n) /\ is_inner(o) THEN Pushed(Joined(ps), <<n>>, <<o>>)
                         ELSE Then(collect_added(n), collect_deleted(o))
  <2>4. DiffFrom(f, o, n) = With(rs) /\ DiffFrom(g, o, n) = With(qs)
    BY Zenon DEF DiffFrom
  <2> HIDE DEF rs, qs
  <2>5. With(rs) = With(qs)
    BY <2>2
  <2> QED
    BY <2>3, <2>4, <2>5
<1>8. LevelByLevel(V, R, Step, Level)
  <2>1. Step \in [[V -> R] -> [V -> R]]
    <3>1. \A f \in [V -> R] : \A o \in V : [n \in W |-> Body(f, o, n)] \in R
      BY <1>6
    <3> HIDE DEF R, V
    <3> QED
      BY <3>1
  <2>2. [V -> R] # {}
    <3>1. [n \in W |-> Nothing] \in R
      BY NothingFacts
    <3> HIDE DEF R, V, W
    <3>2. [o \in V |-> [n \in W |-> Nothing]] \in [V -> R]
      BY <3>1
    <3> QED
      BY <3>2
  <2>3. /\ Level[0] = {} /\ (\A k \in Nat : Level[k] \subseteq V)
        /\ \E k \in Nat : Level[k] = V
    BY <1>3, LevelledFacts
  <2>4. \A k \in Nat : \A f, g \in [V -> R] :
          (\A o \in Level[k] : f[o] = g[o]) => \A o \in Level[k + 1] : Step[f][o] = Step[g][o]
    <3> SUFFICES ASSUME NEW k \in Nat, NEW f \in [V -> R], NEW g \in [V -> R],
                        \A o \in Level[k] : f[o] = g[o], NEW o \in Level[k + 1]
                 PROVE  Step[f][o] = Step[g][o]
      OBVIOUS
    <3>1. o \in V
      BY <2>3
    <3>2. [n \in W |-> Body(f, o, n)] = [n \in W |-> Body(g, o, n)]
      BY <1>7
    <3>3. Step[f][o] = [n \in W |-> Body(f, o, n)] /\ Step[g][o] = [n \in W |-> Body(g, o, n)]
      <4> HIDE DEF R, V, W
      <4> QED
        BY <3>1
    <3> QED
      BY <3>2, <3>3
  <2> HIDE DEF Step, Level, V, R
  <2> QED
    BY <2>1, <2>2, <2>3, <2>4, Zenon DEF LevelByLevel
<1>9. \E f \in [V -> R] : f = Step[f]
  <2> HIDE DEF Step, Level, V, R
  <2> QED
    BY <1>8, Recursion
<1>10. PICK f : f = [o \in V |-> [n \in W |-> Body(f, o, n)]]
  <2> HIDE DEF V, W, R
  <2> QED
    BY <1>9
<1>11. diff = [o \in V |-> [n \in W |-> Body(diff, o, n)]]
  <2> HIDE DEF V, W
  <2> QED
    BY <1>10
<1> HIDE DEF diff
<1>12. ASSUME NEW o \in V, NEW n \in W PROVE diff[o][n] = DiffFrom(diff, o, n)
  <2>1. diff[o] = [m \in W |-> Body(diff, o, m)]
    BY <1>11
  <2>2. diff[o][n] = Body(diff, o, n)
    BY <2>1
  <2> QED
    BY <1>2, <2>2
<1> QED
  BY <1>1, <1>12

(* A node under another one is the child of one that is.                   *)
LEMMA HasParent ==
  ASSUME NEW root, IsKeyed(root), NEW d \in Nat, NEW x \in AtDepth(root)[d],
         NEW z \in NodesOf(x), z # x
  PROVE  \E y \in NodesOf(x) : z \in child_hashes(y)
<1>1. x # ZERO_HASH /\ \A y : y \in NodesOf(x) <=> \E k \in Nat : y \in AtDepth(x)[k]
  BY SubtreeFacts
<1>2. PICK k \in Nat : z \in AtDepth(x)[k]
  BY <1>1
<1>3. AtDepth(x)[0] = {x}
  BY <1>1, AtDepthFacts
<1>4. k # 0
  BY <1>2, <1>3
<1>5. k - 1 \in Nat /\ (k - 1) + 1 = k
  BY <1>4
<1>6. AtDepth(x)[(k - 1) + 1] = UNION {child_hashes(y) : y \in AtDepth(x)[k - 1]}
  BY <1>5, AtDepthFacts
<1>7. PICK y \in AtDepth(x)[k - 1] : z \in child_hashes(y)
  BY <1>2, <1>5, <1>6
<1> QED
  BY <1>1, <1>5, <1>7

\* What a diff that meets no error promises of two subtrees: new nodes are added, a
\* node deleted that is still there is added again, and every added node but the
\* new root comes with a parent.  If every old node can be read, old nodes are
\* deleted, those that are added again included; the old root is in any case.
Compares(r, o, n) ==
  /\ NodesOf(n) \ NodesOf(o) \subseteq AddedBy(r)
  /\ DeletedBy(r) \cap NodesOf(n) \subseteq AddedBy(r)
  /\ \A x \in AddedBy(r) : x # n => \E y \in AddedBy(r) : x \in child_hashes(y)
  /\ (\A z \in NodesOf(o) : Readable(z)) =>
       /\ NodesOf(o) \ NodesOf(n) \subseteq DeletedBy(r)
       /\ AddedBy(r) \cap NodesOf(o) \subseteq DeletedBy(r)
  /\ o # n /\ o # ZERO_HASH => o \in DeletedBy(r)

\* What diff promises of two nodes or empty slots of one depth.
DiffRight(r, o, n) ==
  /\ r \in Results(NodesOf(n), NodesOf(o)) /\ ListsOnce(r)
  /\ ~r.ok => \E z \in NodesOf(o) \cup NodesOf(n) : ~Readable(z)
  /\ r.ok => Compares(r, o, n)

(* Equal hashes have no differences.                                       *)
LEMMA EqualIsRight ==
  ASSUME NEW o
  PROVE  DiffRight(Nothing, o, o)
<1>1. /\ Nothing \in Results(NodesOf(o), NodesOf(o)) /\ Nothing.ok
      /\ AddedBy(Nothing) = {} /\ DeletedBy(Nothing) = {} /\ ListsOnce(Nothing)
  BY NothingFacts
<1> QED
  BY <1>1 DEF DiffRight, Compares

(* A slot that is empty now.                                               *)
LEMMA GoneIsRight ==
  ASSUME NEW o, NEW r, DeletedRight(r, o)
  PROVE  DiffRight(r, o, ZERO_HASH)
<1>1. NodesOf(ZERO_HASH) = {}
  BY NoTree
<1>2. r \in Results(NodesOf(ZERO_HASH), NodesOf(o))
  <2>1. r \in Results(NodesOf(o), NodesOf(o)) /\ ToSet(r.added) = {}
    BY DEF DeletedRight, AddedBy
  <2>2. /\ r.ok \in BOOLEAN /\ r.added \in Seq(NodesOf(o)) /\ r.deleted \in Seq(NodesOf(o))
        /\ r = [ok |-> r.ok, added |-> r.added, deleted |-> r.deleted]
    BY <2>1 DEF Results
  <2>3. r.added \in Seq(NodesOf(ZERO_HASH))
    BY <2>1, <2>2, SeqOver
  <2> QED
    BY <2>2, <2>3 DEF Results
<1> QED
  BY <1>1, <1>2 DEF DiffRight, Compares, DeletedRight

(* A slot that was empty.                                                  *)
LEMMA NewIsRight ==
  ASSUME NEW root, IsKeyed(root), NEW d \in Nat, NEW n \in AtDepth(root)[d], NEW r, AddedRight(r, n)
  PROVE  DiffRight(r, ZERO_HASH, n)
<1>1. NodesOf(ZERO_HASH) = {}
  BY NoTree
<1>2. r \in Results(NodesOf(n), NodesOf(ZERO_HASH))
  <2>1. r \in Results(NodesOf(n), NodesOf(n)) /\ ToSet(r.deleted) = {}
    BY DEF AddedRight, DeletedBy
  <2>2. /\ r.ok \in BOOLEAN /\ r.added \in Seq(NodesOf(n)) /\ r.deleted \in Seq(NodesOf(n))
        /\ r = [ok |-> r.ok, added |-> r.added, deleted |-> r.deleted]
    BY <2>1 DEF Results
  <2>3. r.deleted \in Seq(NodesOf(ZERO_HASH))
    BY <2>1, <2>2, SeqOver
  <2> QED
    BY <2>2, <2>3 DEF Results
<1>3. r.ok => Compares(r, ZERO_HASH, n)
  <2> SUFFICES ASSUME r.ok PROVE Compares(r, ZERO_HASH, n)
    OBVIOUS
  <2>1. AddedBy(r) = NodesOf(n) /\ DeletedBy(r) = {}
    BY DEF AddedRight
  <2>2. \A x \in NodesOf(n) : x # n => \E y \in NodesOf(n) : x \in child_hashes(y)
    BY HasParent
  <2> QED
    BY <1>1, <2>1, <2>2 DEF Compares
<1> QED
  BY <1>1, <1>2, <1>3 DEF DiffRight, AddedRight

(* A subtree replaced as a whole.                                          *)
LEMMA ReplacedIsRight ==
  ASSUME NEW root, IsKeyed(root), NEW d \in Nat, NEW n \in AtDepth(root)[d], NEW o,
         NEW x, NEW y, AddedRight(x, n), DeletedRight(y, o)
  PROVE  DiffRight(Then(x, y), o, n)
<1> DEFINE N == NodesOf(n)
           O == NodesOf(o)
           r == Then(x, y)
<1>1. x \in Results(N, O) /\ y \in Results(N, O)
  BY WholeTyped
<1>2. /\ r \in Results(N, O)
      /\ r.ok <=> x.ok /\ y.ok
      /\ AddedBy(r) = AddedBy(x) \cup AddedBy(y)
      /\ DeletedBy(r) = DeletedBy(x) \cup DeletedBy(y)
      /\ ListsOnce(x) /\ ListsOnce(y) /\ AddedBy(x) \cap AddedBy(y) = {}
           /\ DeletedBy(x) \cap DeletedBy(y) = {} => ListsOnce(r)
  BY <1>1, ThenFacts
<1> HIDE DEF r
<1>3. /\ ListsOnce(x) /\ DeletedBy(x) = {} /\ (x.ok => AddedBy(x) = N)
      /\ ~x.ok => \E z \in N : ~Readable(z)
  BY DEF AddedRight
<1>4. /\ ListsOnce(y) /\ y.ok /\ AddedBy(y) = {} /\ (o # ZERO_HASH => o \in DeletedBy(y))
      /\ (\A z \in O : Readable(z)) => DeletedBy(y) = O
  BY DEF DeletedRight
<1>5. ListsOnce(r)
  BY <1>2, <1>3, <1>4
<1>6. ~r.ok => \E z \in O \cup N : ~Readable(z)
  BY <1>2, <1>3, <1>4
<1>7. ASSUME r.ok PROVE Compares(r, o, n)
  <2>1. AddedBy(r) = N /\ DeletedBy(r) = DeletedBy(y)
    BY <1>2, <1>3, <1>4, <1>7
  <2>2. \A z \in N : z # n => \E p \in N : z \in child_hashes(p)
    BY HasParent
  <2>3. /\ N \ O \subseteq AddedBy(r) /\ DeletedBy(r) \cap N \subseteq AddedBy(r)
        /\ \A z \in AddedBy(r) : z # n => \E p \in AddedBy(r) : z \in child_hashes(p)
    BY <2>1, <2>2
  <2>4. (\A z \in O : Readable(z)) => O \ N \subseteq DeletedBy(r) /\ AddedBy(r) \cap O \subseteq DeletedBy(r)
    BY <1>4, <2>1
  <2>5. o # ZERO_HASH => o \in DeletedBy(r)
    BY <1>4, <2>1
  <2> QED
    BY <2>3, <2>4, <2>5 DEF Compares
<1> QED
  BY <1>2, <1>5, <1>6, <1>7 DEF DiffRight, r

(* A node that cannot be read.                                             *)
LEMMA ErrorIsRight ==
  ASSUME NEW o, NEW n, \E z \in NodesOf(o) \cup NodesOf(n) : ~Readable(z)
  PROVE  DiffRight(Error, o, n)
<1>1. Error \in Results(NodesOf(n), NodesOf(o)) /\ ~Error.ok /\ ListsOnce(Error)
  BY NothingFacts
<1> QED
  BY <1>1 DEF DiffRight

(* Two inner nodes of one depth, compared slot by slot.  A leaf that moves *)
(* to another depth stays under its slot, and inner nodes do not move, so  *)
(* what the slots list is about different nodes.                           *)
LEMMA SlotsAreRight ==
  ASSUME NEW a, NEW b, IsKeyed(a), IsKeyed(b), NEW d \in Nat,
         NEW o \in AtDepth(a)[d], NEW n \in AtDepth(b)[d], is_inner(o), is_inner(n), o # n,
         NEW diff,
         \A i \in 1..Branch : DiffRight(diff[slots(o)[i]][slots(n)[i]], slots(o)[i], slots(n)[i])
  PROVE  DiffRight(Pushed(Joined([i \in 1..Branch |-> diff[slots(o)[i]][slots(n)[i]]]), <<n>>, <<o>>),
                   o, n)
<1> DEFINE O == NodesOf(o)
           N == NodesOf(n)
           Os == [i \in 1..Branch |-> NodesOf(slots(o)[i])]
           Ns == [i \in 1..Branch |-> NodesOf(slots(n)[i])]
           rs == [i \in 1..Branch |-> diff[slots(o)[i]][slots(n)[i]]]
           all == Joined(rs)
           r == Pushed(all, <<n>>, <<o>>)
<1>1. Branch \in Nat /\ DOMAIN slots(o) = 1..Branch /\ DOMAIN slots(n) = 1..Branch
  BY SlotFacts, ShapeAssumption
<1>2. /\ \A z : z \in O <=> z = o \/ \E i \in 1..Branch : z \in Os[i]
      /\ \A i \in 1..Branch : o \notin Os[i]
      /\ \A i, j \in 1..Branch : i # j => Os[i] \cap Os[j] = {}
  BY <1>1, NodeBySlots
<1>3. /\ \A z : z \in N <=> z = n \/ \E i \in 1..Branch : z \in Ns[i]
      /\ \A i \in 1..Branch : n \notin Ns[i]
      /\ \A i, j \in 1..Branch : i # j => Ns[i] \cap Ns[j] = {}
  BY <1>1, NodeBySlots
<1>4. ASSUME NEW i \in 1..Branch, NEW j \in 1..Branch, NEW z, z \in Os[i], z \in Ns[j]
      PROVE  i = j
  BY <1>4, SlotsDisjoint
<1>5. o \notin N /\ n \notin O
  BY InnerNotBelow
<1>6. \A i \in 1..Branch : DiffRight(rs[i], slots(o)[i], slots(n)[i])
  OBVIOUS
<1>7. ASSUME NEW i \in 1..Branch
      PROVE  /\ rs[i] \in Results(N, O) /\ ListsOnce(rs[i])
             /\ AddedBy(rs[i]) \subseteq Ns[i] /\ DeletedBy(rs[i]) \subseteq Os[i]
             /\ ~rs[i].ok => \E z \in Os[i] \cup Ns[i] : ~Readable(z)
             /\ rs[i].ok => Compares(rs[i], slots(o)[i], slots(n)[i])
  <2>1. /\ rs[i] \in Results(Ns[i], Os[i]) /\ ListsOnce(rs[i])
        /\ ~rs[i].ok => \E z \in Os[i] \cup Ns[i] : ~Readable(z)
        /\ rs[i].ok => Compares(rs[i], slots(o)[i], slots(n)[i])
    <3>1. DiffRight(rs[i], slots(o)[i], slots(n)[i])
      BY <1>6
    <3>2. Os[i] = NodesOf(slots(o)[i]) /\ Ns[i] = NodesOf(slots(n)[i])
      OBVIOUS
    <3> HIDE DEF rs, Os, Ns
    <3> QED
      BY <3>1, <3>2 DEF DiffRight
  <2>2. Os[i] \subseteq O /\ Ns[i] \subseteq N
    BY <1>2, <1>3
  <2> HIDE DEF rs, Os, Ns, O, N
  <2>3. AddedBy(rs[i]) \subseteq Ns[i] /\ DeletedBy(rs[i]) \subseteq Os[i]
    BY <2>1, ListedNodes
  <2>4. rs[i] \in Results(N, O)
    BY <2>1, <2>2, ResultsGrow
  <2> QED
    BY <2>1, <2>3, <2>4
<1>8. ASSUME NEW i \in 1..Branch, rs[i].ok
      PROVE  /\ Ns[i] \ Os[i] \subseteq AddedBy(rs[i])
             /\ DeletedBy(rs[i]) \cap Ns[i] \subseteq AddedBy(rs[i])
             /\ \A x \in AddedBy(rs[i]) : x # slots(n)[i] =>
                  \E y \in AddedBy(rs[i]) : x \in child_hashes(y)
             /\ (\A z \in Os[i] : Readable(z)) =>
                  /\ Os[i] \ Ns[i] \subseteq DeletedBy(rs[i])
                  /\ AddedBy(rs[i]) \cap Os[i] \subseteq DeletedBy(rs[i])
  <2>1. Compares(rs[i], slots(o)[i], slots(n)[i])
    BY <1>7, <1>8
  <2>2. Os[i] = NodesOf(slots(o)[i]) /\ Ns[i] = NodesOf(slots(n)[i])
    OBVIOUS
  <2> HIDE DEF rs, Os, Ns
  <2> QED
    BY <2>1, <2>2 DEF Compares
<1>9. \A i \in 1..Branch : slots(n)[i] \in Ns[i] => slots(n)[i] \in child_hashes(n)
  <2>1. \A i \in 1..Branch : slots(n)[i] = ZERO_HASH \/ slots(n)[i] \in child_hashes(n)
    BY SlotFacts
  <2> QED
    BY <2>1, NoTree
<1>10. rs \in [1..Branch -> Results(N, O)]
  <2>1. rs = [i \in 1..Branch |-> rs[i]]
    OBVIOUS
  <2> HIDE DEF rs
  <2> QED
    BY <1>7, <2>1
<1>11. n \in N /\ o \in O
  BY <1>2, <1>3
<1>12. r = Pushed(Joined(rs), <<n>>, <<o>>)
  OBVIOUS
<1> HIDE DEF rs, Os, Ns, O, N, r
<1>13. /\ all \in Results(N, O)
       /\ all.ok <=> \A i \in 1..Branch : rs[i].ok
       /\ AddedBy(all) = UNION {AddedBy(rs[i]) : i \in 1..Branch}
       /\ DeletedBy(all) = UNION {DeletedBy(rs[i]) : i \in 1..Branch}
       /\ (\A i \in 1..Branch : ListsOnce(rs[i]))
            /\ (\A i, j \in 1..Branch : i # j => /\ AddedBy(rs[i]) \cap AddedBy(rs[j]) = {}
                                                 /\ DeletedBy(rs[i]) \cap DeletedBy(rs[j]) = {})
            => ListsOnce(all)
  <2>1. Branch \in Nat
    BY <1>1
  <2> QED
    BY <1>10, <2>1, JoinedFacts
<1> HIDE DEF all
<1>14. ListsOnce(all)
  <2>1. \A i, j \in 1..Branch : i # j => AddedBy(rs[i]) \cap AddedBy(rs[j]) = {}
    BY <1>3, <1>7
  <2>2. \A i, j \in 1..Branch : i # j => DeletedBy(rs[i]) \cap DeletedBy(rs[j]) = {}
    BY <1>2, <1>7
  <2> QED
    BY <1>7, <1>13, <2>1, <2>2
<1>15. /\ r \in Results(N, O)
       /\ r.ok <=> all.ok
       /\ AddedBy(r) = AddedBy(all) \cup {n}
       /\ DeletedBy(r) = DeletedBy(all) \cup {o}
       /\ AddedBy(all) \cap {n} = {} /\ DeletedBy(all) \cap {o} = {} => ListsOnce(r)
  <2> DEFINE as == <<n>>
             ds == <<o>>
  <2>1. /\ as \in Seq(N) /\ IsInjective(as) /\ ToSet(as) = {n}
        /\ ds \in Seq(O) /\ IsInjective(ds) /\ ToSet(ds) = {o}
    BY <1>11, OneFacts
  <2>2. r = Pushed(all, as, ds)
    BY <1>12 DEF all
  <2> HIDE DEF as, ds
  <2>3. /\ Pushed(all, as, ds) \in Results(N, O)
        /\ Pushed(all, as, ds).ok <=> all.ok
        /\ AddedBy(Pushed(all, as, ds)) = AddedBy(all) \cup ToSet(as)
        /\ DeletedBy(Pushed(all, as, ds)) = DeletedBy(all) \cup ToSet(ds)
        /\ ListsOnce(all) /\ AddedBy(all) \cap ToSet(as) = {} /\ DeletedBy(all) \cap ToSet(ds) = {}
             => ListsOnce(Pushed(all, as, ds))
    BY <1>13, <2>1, PushedFacts
  <2> QED
    BY <1>14, <2>1, <2>2, <2>3
<1>16. /\ \A z : z \in AddedBy(r) <=> z = n \/ \E i \in 1..Branch : z \in AddedBy(rs[i])
       /\ \A z : z \in DeletedBy(r) <=> z = o \/ \E i \in 1..Branch : z \in DeletedBy(rs[i])
       /\ r.ok => \A i \in 1..Branch : rs[i].ok
  BY <1>13, <1>15
<1>17. ListsOnce(r)
  <2>1. AddedBy(all) \cap {n} = {}
    BY <1>3, <1>7, <1>13
  <2>2. DeletedBy(all) \cap {o} = {}
    BY <1>2, <1>7, <1>13
  <2> QED
    BY <1>15, <2>1, <2>2
<1>18. ASSUME ~r.ok PROVE \E z \in O \cup N : ~Readable(z)
  <2>1. PICK i \in 1..Branch : ~rs[i].ok
    BY <1>13, <1>15, <1>18
  <2>2. PICK z \in Os[i] \cup Ns[i] : ~Readable(z)
    BY <1>7, <2>1
  <2> QED
    BY <1>2, <1>3, <2>2
<1>19. ASSUME r.ok PROVE Compares(r, o, n)
  <2>1. \A i \in 1..Branch : rs[i].ok
    BY <1>16, <1>19
  <2>2. ASSUME NEW z \in N, z \notin O PROVE z \in AddedBy(r)
    <3>1. CASE z = n
      BY <1>16, <3>1
    <3>2. ASSUME NEW i \in 1..Branch, z \in Ns[i] PROVE z \in AddedBy(r)
      <4>1. z \notin Os[i]
        BY <1>2, <2>2
      <4> QED
        BY <1>8, <1>16, <2>1, <3>2, <4>1
    <3> QED
      BY <1>3, <3>1, <3>2
  <2>3. ASSUME NEW z \in DeletedBy(r), z \in N PROVE z \in AddedBy(r)
    <3>1. z # o
      BY <1>5, <2>3
    <3>2. PICK i \in 1..Branch : z \in DeletedBy(rs[i])
      BY <1>16, <3>1
    <3>3. CASE z = n
      BY <1>16, <3>3
    <3>4. ASSUME NEW j \in 1..Branch, z \in Ns[j] PROVE z \in AddedBy(r)
      <4>1. z \in Os[i]
        BY <1>7, <3>2
      <4>2. i = j
        BY <1>4, <3>4, <4>1
      <4> QED
        BY <1>8, <1>16, <2>1, <3>2, <3>4, <4>2
    <3> QED
      BY <1>3, <2>3, <3>3, <3>4
  <2>4. ASSUME NEW x \in AddedBy(r), x # n PROVE \E y \in AddedBy(r) : x \in child_hashes(y)
    <3>1. PICK i \in 1..Branch : x \in AddedBy(rs[i])
      BY <1>16, <2>4
    <3>2. CASE x = slots(n)[i]
      <4>1. x \in child_hashes(n)
        BY <1>7, <1>9, <3>1, <3>2
      <4> QED
        BY <1>16, <4>1
    <3>3. CASE x # slots(n)[i]
      <4>1. PICK y \in AddedBy(rs[i]) : x \in child_hashes(y)
        BY <1>8, <2>1, <3>1, <3>3
      <4> QED
        BY <1>16, <4>1
    <3> QED
      BY <3>2, <3>3
  <2>5. ASSUME \A z \in O : Readable(z)
        PROVE  O \ N \subseteq DeletedBy(r) /\ AddedBy(r) \cap O \subseteq DeletedBy(r)
    <3>1. \A i \in 1..Branch : \A z \in Os[i] : Readable(z)
      BY <1>2, <2>5
    <3>2. \A i \in 1..Branch : Os[i] \ Ns[i] \subseteq DeletedBy(rs[i])
                               /\ AddedBy(rs[i]) \cap Os[i] \subseteq DeletedBy(rs[i])
      BY <1>8, <2>1, <3>1
    <3>3. ASSUME NEW z \in O, z \notin N PROVE z \in DeletedBy(r)
      <4>1. CASE z = o
        BY <1>16, <4>1
      <4>2. ASSUME NEW i \in 1..Branch, z \in Os[i] PROVE z \in DeletedBy(r)
        <5>1. z \notin Ns[i]
          BY <1>3, <3>3
        <5> QED
          BY <1>16, <3>2, <4>2, <5>1
      <4> QED
        BY <1>2, <4>1, <4>2
    <3>4. ASSUME NEW z \in AddedBy(r), z \in O PROVE z \in DeletedBy(r)
      <4>1. z # n
        BY <1>5, <3>4
      <4>2. PICK i \in 1..Branch : z \in AddedBy(rs[i])
        BY <1>16, <4>1
      <4>3. CASE z = o
        BY <1>16, <4>3
      <4>4. ASSUME NEW j \in 1..Branch, z \in Os[j] PROVE z \in DeletedBy(r)
        <5>1. z \in Ns[i]
          BY <1>7, <4>2
        <5>2. j = i
          BY <1>4, <4>4, <5>1
        <5> QED
          BY <1>16, <3>2, <4>2, <4>4, <5>2
      <4> QED
        BY <1>2, <3>4, <4>3, <4>4
    <3> QED
      BY <3>3, <3>4
  <2>6. o \in DeletedBy(r)
    BY <1>16
  <2> QED
    BY <2>2, <2>3, <2>4, <2>5, <2>6 DEF Compares, O, N
<1> QED
  BY <1>15, <1>17, <1>18, <1>19 DEF DiffRight, O, N, r, all, rs

(* Every diff of the recursion is right, from the leaves up.               *)
LEMMA DiffsAreRight ==
  ASSUME SoundStores(call.shards), NEW a, NEW b, IsKeyed(a), IsKeyed(b), NEW diff,
         \A o \in WithZero(a), n \in WithZero(b) : diff[o][n] = DiffFrom(diff, o, n)
  PROVE  DiffRight(diff[a][b], a, b)
<1> DEFINE Same(e) == AtDepth(b)[e] \cup {ZERO_HASH}
           T == {o \in NodesOf(a) : \A e \in Nat : o \in AtDepth(a)[e] =>
                                      \A n \in Same(e) : DiffRight(diff[o][n], o, n)}
<1>1. /\ a \in AtDepth(a)[0] /\ a \in NodesOf(a) /\ b \in AtDepth(b)[0]
      /\ \A e \in Nat : AtDepth(a)[e] \subseteq NodesOf(a)
      /\ \A e \in Nat : AtDepth(b)[e] \subseteq NodesOf(b)
  <2>1. a \in AtDepth(a)[0] /\ b \in AtDepth(b)[0]
    BY KeyedRoot
  <2>2. a \in NodesOf(a) /\ \A e \in Nat : AtDepth(a)[e] \subseteq NodesOf(a)
    BY <2>1, SubtreeFacts
  <2>3. \A e \in Nat : AtDepth(b)[e] \subseteq NodesOf(b)
    BY <2>1, SubtreeFacts
  <2> QED
    BY <2>1, <2>2, <2>3
<1>2. \A e \in Nat : Same(e) \subseteq WithZero(b)
  BY <1>1 DEF WithZero
<1>3. ASSUME NEW e \in Nat, NEW n \in Same(e)
      PROVE  DiffRight(diff[ZERO_HASH][n], ZERO_HASH, n)
  <2>1. diff[ZERO_HASH][n] = DiffFrom(diff, ZERO_HASH, n)
    BY <1>2 DEF WithZero
  <2>2. CASE n = ZERO_HASH
    <3>1. diff[ZERO_HASH][n] = Nothing
      BY <2>1, <2>2 DEF DiffFrom
    <3> QED
      BY <2>2, <3>1, EqualIsRight
  <2>3. CASE n # ZERO_HASH
    <3>1. diff[ZERO_HASH][n] = collect_added(n)
      BY <2>1, <2>3 DEF DiffFrom
    <3>2. n \in AtDepth(b)[e]
      BY <2>3
    <3>3. AddedRight(collect_added(n), n)
      BY <3>2, AddedIsRight
    <3> QED
      BY <3>1, <3>2, <3>3, NewIsRight
  <2> QED
    BY <2>2, <2>3
<1>4. ASSUME NEW e \in Nat, NEW o \in AtDepth(a)[e], child_hashes(o) \subseteq T, NEW n \in Same(e)
      PROVE  DiffRight(diff[o][n], o, n)
  <2>1. diff[o][n] = DiffFrom(diff, o, n)
    BY <1>1, <1>2 DEF WithZero
  <2>2. o # ZERO_HASH /\ o \in NodesOf(o)
    BY SubtreeFacts
  <2>3. DeletedRight(collect_deleted(o), o)
    BY DeletedIsRight
  <2>4. CASE o = n
    <3>1. diff[o][n] = Nothing
      BY <2>1, <2>4 DEF DiffFrom
    <3> QED
      BY <2>4, <3>1, EqualIsRight
  <2>5. CASE o # n /\ n = ZERO_HASH
    <3>1. diff[o][n] = collect_deleted(o)
      BY <2>1, <2>5 DEF DiffFrom
    <3> QED
      BY <2>3, <2>5, <3>1, GoneIsRight
  <2>6. CASE o # n /\ n # ZERO_HASH
    <3>1. n \in AtDepth(b)[e]
      BY <2>6
    <3>2. n \in NodesOf(n) /\ AddedRight(collect_added(n), n)
      BY <3>1, SubtreeFacts, AddedIsRight
    <3>3. CASE ~(Readable(n) /\ Readable(o))
      <4>1. diff[o][n] = Error
        BY <2>1, <2>2, <2>6, <3>3 DEF DiffFrom
      <4>2. \E z \in NodesOf(o) \cup NodesOf(n) : ~Readable(z)
        BY <2>2, <3>2, <3>3
      <4> QED
        BY <4>1, <4>2, ErrorIsRight
    <3>4. CASE Readable(n) /\ Readable(o) /\ ~(is_inner(n) /\ is_inner(o))
      <4>1. diff[o][n] = Then(collect_added(n), collect_deleted(o))
        BY <2>1, <2>2, <2>6, <3>4 DEF DiffFrom
      <4> QED
        BY <2>3, <3>1, <3>2, <4>1, ReplacedIsRight
    <3>5. CASE Readable(n) /\ Readable(o) /\ is_inner(n) /\ is_inner(o)
      <4>1. diff[o][n] = Pushed(Joined([i \in 1..Branch |-> diff[slots(o)[i]][slots(n)[i]]]), <<n>>, <<o>>)
        BY <2>1, <2>2, <2>6, <3>5 DEF DiffFrom
      <4>2. ASSUME NEW i \in 1..Branch
            PROVE  DiffRight(diff[slots(o)[i]][slots(n)[i]], slots(o)[i], slots(n)[i])
        <5>1. e + 1 \in Nat
          OBVIOUS
        <5>2. slots(n)[i] \in Same(e + 1)
          <6>1. slots(n)[i] = ZERO_HASH \/ slots(n)[i] \in child_hashes(n)
            BY <3>1, <3>5, SlotFacts
          <6>2. child_hashes(n) \subseteq AtDepth(b)[e + 1]
            BY <3>1, ChildrenInTree
          <6> QED
            BY <6>1, <6>2
        <5>3. CASE slots(o)[i] = ZERO_HASH
          BY <1>3, <5>1, <5>2, <5>3
        <5>4. CASE slots(o)[i] \in child_hashes(o)
          <6>1. slots(o)[i] \in T
            BY <1>4, <5>4
          <6>2. slots(o)[i] \in AtDepth(a)[e + 1]
            BY <5>4, ChildrenInTree
          <6> QED
            BY <5>1, <5>2, <6>1, <6>2
        <5>5. slots(o)[i] = ZERO_HASH \/ slots(o)[i] \in child_hashes(o)
          BY <3>5, SlotFacts
        <5> QED
          BY <5>3, <5>4, <5>5
      <4> QED
        BY <2>6, <3>1, <3>5, <4>1, <4>2, SlotsAreRight
    <3> QED
      BY <3>3, <3>4, <3>5
  <2> QED
    BY <2>4, <2>5, <2>6
<1>5. \A e \in Nat : \A y \in AtDepth(a)[e] : y \in NodesOf(a) /\ child_hashes(y) \subseteq T => y \in T
  <2> SUFFICES ASSUME NEW e \in Nat, NEW y \in AtDepth(a)[e], y \in NodesOf(a), child_hashes(y) \subseteq T,
                      NEW f \in Nat, y \in AtDepth(a)[f], NEW n \in Same(f)
               PROVE  DiffRight(diff[y][n], y, n)
    OBVIOUS
  <2> QED
    BY <1>4
<1>6. NodesOf(a) \subseteq T
  <2> HIDE DEF T
  <2>1. 0 \in Nat
    OBVIOUS
  <2> QED
    BY <1>1, <1>5, <2>1, TreeInduction
<1>7. b \in Same(0)
  BY <1>1
<1> QED
  BY <1>1, <1>6, <1>7

(* So is diff of two roots.                                                *)
LEMMA DiffIsRight ==
  ASSUME SoundStores(call.shards), NEW a, NEW b, IsKeyed(a), IsKeyed(b)
  PROVE  DiffRight(diff_nodes(a, b), a, b) /\ (a = b => diff_nodes(a, b) = Nothing)
<1>1. PICK diff : /\ \A o \in WithZero(a), n \in WithZero(b) : diff[o][n] = DiffFrom(diff, o, n)
                  /\ diff_nodes(a, b) = diff[a][b]
  BY DiffRecursion
<1>2. DiffRight(diff[a][b], a, b)
  BY <1>1, DiffsAreRight
<1>3. a \in WithZero(a) /\ b \in WithZero(b)
  BY KeyedRoot, SubtreeFacts DEF WithZero
<1>4. diff[a][b] = DiffFrom(diff, a, b)
  BY <1>1, <1>3
<1>5. a = b => diff[a][b] = Nothing
  BY <1>4 DEF DiffFrom
<1> QED
  BY <1>1, <1>2, <1>5

-----------------------------------------------------------------------------
(* diff of two trees                                                       *)

(* What NodeDiff promises, from what is added and deleted.                 *)
LEMMA PromiseKept ==
  ASSUME NEW gone \in BOOLEAN, NEW O, NEW N, NEW A \in SUBSET N, NEW D \in SUBSET O,
         O = N => A = {} /\ D = {},
         N \ O \subseteq A, D \cap N \subseteq A,
         gone => \E x \in O \ N : x \in D,
         ~gone => O \ N \subseteq D /\ A \cap O \subseteq D
  PROVE  [added |-> A, deleted |-> D] \in Promise(gone)!DiffLists(O, N)
<1> DEFINE moved == A \cap O
           lost == ((O \ N) \cup moved) \ D
<1>1. CASE O = N
  BY <1>1 DEF Promise!DiffLists
<1>2. CASE O # N
  <2>1. moved \in SUBSET (O \cap N) /\ lost \in SUBSET O
    OBVIOUS
  <2>2. A = (N \ O) \cup moved /\ D = ((O \ N) \cup moved) \ lost
    OBVIOUS
  <2>3. lost = {} \/ (gone /\ ~(O \ N \subseteq lost))
    OBVIOUS
  <2> HIDE DEF moved, lost
  <2>4. lost \in Promise(gone)!Overlooked(O, N)
    BY <2>1, <2>3 DEF Promise!Overlooked
  <2> DEFINE Overlooked == Promise(gone)!Overlooked(O, N)
             Both == SUBSET (O \cap N)
             Answer(m, l) == [added |-> (N \ O) \cup m, deleted |-> ((O \ N) \cup m) \ l]
             Answers == {Answer(m, l) : m \in Both, l \in Overlooked}
  <2>5. [added |-> A, deleted |-> D] = Answer(moved, lost)
    BY <2>2
  <2>6. Promise(gone)!DiffLists(O, N) = IF O = N THEN {[added |-> {}, deleted |-> {}]} ELSE Answers
    BY DEF Promise!DiffLists
  <2>7. moved \in Both /\ lost \in Overlooked
    BY <2>1, <2>4
  <2> HIDE DEF Overlooked, Both, Answer
  <2>8. Answer(moved, lost) \in Answers
    BY <2>7, SMT
  <2> HIDE DEF Answers
  <2> QED
    BY <1>2, <2>5, <2>6, <2>8
<1> QED
  BY <1>1, <1>2

(* The root of a tree is in no other tree, and under no other node of its  *)
(* own.                                                                    *)
LEMMA RootsDiffer ==
  ASSUME NEW a, NEW b, IsKeyed(a), IsKeyed(b)
  PROVE  /\ a \in NodesOf(a) /\ (a \in NodesOf(b) => a = b)
         /\ \A y \in NodesOf(a) : a \notin child_hashes(y)
<1>1. 0 \in Nat /\ a \in AtDepth(a)[0] /\ b \in AtDepth(b)[0] /\ is_inner(a)
  BY KeyedRoot DEF IsKeyed
<1>2. a \in NodesOf(a)
  BY <1>1, SubtreeFacts
<1>3. a \in NodesOf(b) => a = b
  BY <1>1, InnerNotBelow
<1>4. ASSUME NEW y \in NodesOf(a), a \in child_hashes(y)
      PROVE  FALSE
  <2>1. PICK k \in Nat : y \in AtDepth(a)[k]
    BY <1>1, SubtreeFacts
  <2>2. a \in AtDepth(a)[k + 1] /\ k + 1 \in Nat /\ 0 < k + 1
    BY <1>4, <2>1, ChildrenInTree
  <2> QED
    BY <1>1, <2>2, InnerNodesStay
<1> QED
  BY <1>2, <1>3, <1>4

-----------------------------------------------------------------------------
(* The invariant of a batch of diffs                                       *)

Answered(r, o, n) == DiffRight(r, o, n) /\ (o = n => r = Nothing)

OnDiff ==
  /\ pc \in {"diff", "done", "failed"}
  /\ DOMAIN answers = 1..(Len(call.roots) - 1)
  /\ \A p \in DOMAIN answers :
       answers[p].ok => Answered(answers[p], call.roots[p], call.roots[p + 1])
  /\ pc = "done" => \A p \in DOMAIN answers : answers[p].ok
  /\ pc = "failed" => \E p \in DOMAIN call.roots : Unreadable(call.roots[p]) # {}

DiffInv == call \in Calls /\ (call.op = "diff" => OnDiff)

\* What is known of the call during a batch.
Diffing == DiffsAreSound /\ call \in Calls /\ call.op = "diff" /\ OnDiff

(* The trees of a pair.                                                    *)
LEMMA PairFacts ==
  ASSUME DiffsAreSound, call \in Calls, call.op = "diff"
  PROVE  /\ SoundStores(call.shards) /\ Len(call.roots) \in Nat \ {0}
         /\ DOMAIN call.roots = 1..Len(call.roots)
         /\ \A p \in DOMAIN call.roots : IsKeyed(call.roots[p])
         /\ \A p \in 1..(Len(call.roots) - 1) : p \in DOMAIN call.roots /\ p + 1 \in DOMAIN call.roots
<1>1. /\ call.roots \in Seq({call.roots[p] : p \in DOMAIN call.roots}) /\ call.roots # <<>>
      /\ \A p \in DOMAIN call.roots : IsKeyed(call.roots[p])
      /\ SoundStores(call.shards)
  BY DEF DiffsAreSound
<1> DEFINE roots == call.roots
           S == {roots[p] : p \in DOMAIN roots}
<1>2. roots \in Seq(S) /\ roots # <<>>
  BY <1>1
<1> HIDE DEF roots, S
<1>3. Len(roots) \in Nat \ {0} /\ DOMAIN roots = 1..Len(roots)
  BY <1>2
<1>4. Len(call.roots) \in Nat \ {0} /\ DOMAIN call.roots = 1..Len(call.roots)
  BY <1>3 DEF roots
<1>5. \A p \in 1..(Len(call.roots) - 1) : p \in DOMAIN call.roots /\ p + 1 \in DOMAIN call.roots
  BY <1>4
<1> QED
  BY <1>1, <1>4, <1>5

(* No pair is answered, none has failed.                                   *)
LEMMA InitDiff ==
  ASSUME DiffsAreSound
  PROVE  Init => DiffInv
<1> SUFFICES ASSUME Init, call.op = "diff"
             PROVE  OnDiff
  BY DEF DiffInv, Init
<1>1. pc = "diff" /\ answers = [p \in 1..(Len(call.roots) - 1) |-> Error]
  BY DEF Init
<1>2. ~Error.ok
  BY DEF Error
<1> QED
  BY <1>1, <1>2 DEF OnDiff

(* An answer is right when it is there.                                    *)
LEMMA DiffStep ==
  ASSUME Diffing, Diff
  PROVE  OnDiff'
<1>1. call' = call /\ pc' = pc /\ pc = "diff"
  BY DEF Diff
<1>2. PICK p \in Pending : Lists(p).ok /\ answers' = [answers EXCEPT ![p] = Lists(p)]
  BY DEF Diff, Ready
<1>3. p \in DOMAIN answers /\ DOMAIN answers' = DOMAIN answers
  BY <1>2 DEF Pending
<1>4. DOMAIN answers = 1..(Len(call.roots) - 1)
  BY DEF Diffing, OnDiff
<1>5. Answered(Lists(p), call.roots[p], call.roots[p + 1])
  BY <1>3, <1>4, PairFacts, DiffIsRight DEF Diffing, Lists, Answered
<1>6. ASSUME NEW q \in DOMAIN answers, answers'[q].ok
      PROVE  Answered(answers'[q], call.roots[q], call.roots[q + 1])
  <2>1. CASE q = p
    BY <1>2, <1>3, <1>5, <2>1
  <2>2. CASE q # p
    BY <1>2, <1>3, <1>6, <2>2 DEF Diffing, OnDiff
  <2> QED
    BY <2>1, <2>2
<1>7. (\A q \in DOMAIN answers :
         answers[q].ok => Answered(answers[q], call.roots[q], call.roots[q + 1]))'
  <2> SUFFICES ASSUME NEW q \in DOMAIN answers, answers'[q].ok
               PROVE  Answered(answers[q], call.roots[q], call.roots[q + 1])'
    BY <1>3
  <2>1. \A h : Readable(h)' <=> Readable(h)
    BY <1>1, TreeIsFixed
  <2>2. Answered(answers'[q], call.roots[q], call.roots[q + 1])
    BY <1>6
  <2> QED
    BY <1>1, <2>1, <2>2 DEF Answered, DiffRight, Compares
<1> QED
  BY <1>1, <1>3, <1>4, <1>7 DEF OnDiff

(* Nothing changes for a pair that is not answered in a step.              *)
LEMMA AnswersStay ==
  ASSUME call' = call, answers' = answers, OnDiff
  PROVE  (\A q \in DOMAIN answers :
            answers[q].ok => Answered(answers[q], call.roots[q], call.roots[q + 1]))'
<1> SUFFICES ASSUME NEW q \in DOMAIN answers, answers[q].ok
             PROVE  Answered(answers[q], call.roots[q], call.roots[q + 1])'
  OBVIOUS
<1>1. \A h : Readable(h)' <=> Readable(h)
  BY TreeIsFixed
<1>2. Answered(answers[q], call.roots[q], call.roots[q + 1])
  BY DEF OnDiff
<1> QED
  BY <1>1, <1>2 DEF Answered, DiffRight, Compares

(* A diff fails when a node of one of its two trees cannot be read.        *)
LEMMA DiffFailsStep ==
  ASSUME Diffing, DiffFails
  PROVE  OnDiff'
<1>1. call' = call /\ answers' = answers /\ pc' = "failed"
  BY DEF DiffFails, Fails
<1>2. PICK p \in Pending : ~Lists(p).ok
  BY DEF DiffFails, Ready
<1>3. p \in DOMAIN answers /\ DOMAIN answers = 1..(Len(call.roots) - 1)
  BY <1>2 DEF Pending, Diffing, OnDiff
<1> DEFINE o == call.roots[p]
           n == call.roots[p + 1]
<1>4. p \in DOMAIN call.roots /\ p + 1 \in DOMAIN call.roots
  BY <1>3, PairFacts DEF Diffing
<1>5. DiffRight(Lists(p), o, n)
  BY <1>4, PairFacts, DiffIsRight DEF Diffing, Lists
<1>6. Unreadable(o) # {} \/ Unreadable(n) # {}
  BY <1>2, <1>5 DEF DiffRight, Unreadable
<1>7. \E q \in DOMAIN call.roots : Unreadable(call.roots[q]) # {}
  BY <1>4, <1>6
<1>8. (\E q \in DOMAIN call.roots : Unreadable(call.roots[q]) # {})'
  <2>1. PICK q \in DOMAIN call.roots : Unreadable(call.roots[q]) # {}
    BY <1>7
  <2>2. PICK z \in NodesOf(call.roots[q]) : ~Readable(z)
    BY <2>1 DEF Unreadable
  <2>3. ~Readable(z)'
    BY <1>1, <2>2, TreeIsFixed
  <2>4. z \in Unreadable(call.roots[q])'
    BY <1>1, <2>2, <2>3 DEF Unreadable, NodesOf
  <2>5. Unreadable(call.roots[q])' # {} /\ q \in DOMAIN call'.roots
    BY <1>1, <2>1, <2>4
  <2> QED
    BY <2>5
<1>9. (\A q \in DOMAIN answers :
         answers[q].ok => Answered(answers[q], call.roots[q], call.roots[q + 1]))'
  BY <1>1, AnswersStay DEF Diffing
<1> QED
  BY <1>1, <1>3, <1>8, <1>9 DEF OnDiff

(* Every step of a batch preserves its invariant.                          *)
LEMMA NextDiff ==
  ASSUME DiffsAreSound, DiffInv, [Next]_vars
  PROVE  DiffInv'
<1>1. call' = call
  <2>1. CASE Calibrate
    BY <2>1 DEF Calibrate, Sample, SampleFails, Fails, TooFewToCalibrate, StartProbing,
                ProbeGains, ProbeIsMarginal, ProbeIsSlow, LadderEnds
  <2>2. CASE Walk
    BY <2>2 DEF Walk, StartWalk, Visit, VisitFails, Fails, VisitLevel, LevelFails, WalkEnds
  <2>3. CASE DiffBatch
    BY <2>3 DEF DiffBatch, Diff, DiffFails, Fails, DiffsEnd
  <2>4. CASE UNCHANGED vars
    BY <2>4 DEF vars
  <2> QED
    BY <2>1, <2>2, <2>3, <2>4 DEF Next
<1> SUFFICES ASSUME call.op = "diff"
             PROVE  OnDiff'
  BY <1>1 DEF DiffInv
<1>2. Diffing /\ OnDiff
  BY DEF Diffing, DiffInv
<1>3. CASE Diff
  BY <1>2, <1>3, DiffStep
<1>4. CASE DiffFails
  BY <1>2, <1>4, DiffFailsStep
<1>5. CASE DiffsEnd
  <2>1. answers' = answers /\ pc' = "done" /\ \A p \in DOMAIN answers : answers[p].ok
    BY <1>5 DEF DiffsEnd, Pending
  <2>2. (\A q \in DOMAIN answers :
           answers[q].ok => Answered(answers[q], call.roots[q], call.roots[q + 1]))'
    BY <1>1, <1>2, <2>1, AnswersStay
  <2> QED
    BY <1>1, <1>2, <2>1, <2>2 DEF OnDiff
<1>6. CASE UNCHANGED vars
  <2>1. answers' = answers /\ pc' = pc
    BY <1>6 DEF vars
  <2>2. (\A q \in DOMAIN answers :
           answers[q].ok => Answered(answers[q], call.roots[q], call.roots[q + 1]))'
    BY <1>1, <1>2, <2>1, AnswersStay
  <2>3. \A q : Unreadable(call.roots[q]) = Unreadable(call.roots[q])'
    <3>1. \A h : Readable(h)' <=> Readable(h)
      BY <1>1, TreeIsFixed
    <3> QED
      BY <1>1, <3>1 DEF Unreadable, NodesOf
  <2>4. (pc = "failed" => \E p \in DOMAIN call.roots : Unreadable(call.roots[p]) # {})'
    BY <1>1, <1>2, <2>1, <2>3 DEF OnDiff
  <2> QED
    BY <1>1, <1>2, <2>1, <2>2, <2>4 DEF OnDiff
<1>7. CASE Calibrate
  BY <1>2, <1>7 DEF OnDiff, Calibrate, Sample, SampleFails, TooFewToCalibrate, StartProbing, Sampled,
                ProbeGains, ProbeIsMarginal, ProbeIsSlow, LadderEnds, CanProbe
<1>8. CASE Walk
  BY <1>2, <1>8 DEF OnDiff, Walk, StartWalk, Visit, VisitFails, VisitLevel, LevelFails, WalkEnds
<1> QED
  BY <1>3, <1>4, <1>5, <1>6, <1>7, <1>8 DEF Next, DiffBatch

(* What a right answer is for two trees: the promise, and for a store that *)
(* has every old node what ImporterAccepts needs.                          *)
LEMMA AnswerFacts ==
  ASSUME NEW a, NEW b, IsKeyed(a), IsKeyed(b), NEW r, r.ok, Answered(r, a, b)
  PROVE  /\ NoDuplicates(r.added) /\ NoDuplicates(r.deleted)
         /\ [added |-> AddedBy(r), deleted |-> DeletedBy(r)] \in
              Promise(Unreadable(a) # {})!DiffLists(NodesOf(a), NodesOf(b))
<1> DEFINE A == AddedBy(r)
           D == DeletedBy(r)
           O == NodesOf(a)
           N == NodesOf(b)
           gone == Unreadable(a) # {}
<1>1. /\ r \in Results(N, O) /\ ListsOnce(r) /\ Compares(r, a, b) /\ (a = b => r = Nothing)
  BY DEF Answered, DiffRight
<1>2. r.added \in Seq(N) /\ r.deleted \in Seq(O)
  BY <1>1 DEF Results
<1>3. IsInjective(r.added) /\ IsInjective(r.deleted)
  BY <1>1 DEF ListsOnce
<1>4. NoDuplicates(r.added) /\ NoDuplicates(r.deleted)
  <2>1. NoDuplicates(r.added)
    BY <1>2, <1>3, InjectiveHasNoDuplicates
  <2>2. NoDuplicates(r.deleted)
    BY <1>2, <1>3, InjectiveHasNoDuplicates
  <2> QED
    BY <2>1, <2>2
<1>5. A \in SUBSET N /\ D \in SUBSET O
  BY <1>1, ListedNodes
<1>6. a \in O /\ b \in N /\ (b \in O => a = b) /\ (a \in N => a = b) /\ a # ZERO_HASH
  BY RootsDiffer, KeyedRoot
<1>7. a = b => A = {} /\ D = {}
  BY <1>1, NothingFacts
<1>8. O = N => a = b
  BY <1>6
<1>9. /\ N \ O \subseteq A /\ D \cap N \subseteq A
      /\ a # b => a \in D
      /\ (\A z \in O : Readable(z)) => O \ N \subseteq D /\ A \cap O \subseteq D
  BY <1>1, <1>6 DEF Compares
<1>10. ~gone => \A z \in O : Readable(z)
  BY DEF Unreadable
<1>11. gone \in BOOLEAN
  OBVIOUS
<1> HIDE DEF A, D, O, N, gone
<1>12. CASE a = b
  <2>1. A = {} /\ D = {}
    BY <1>7, <1>12
  <2>2. O = N
    BY <1>12 DEF O, N
  <2>3. [added |-> A, deleted |-> D] \in Promise(gone)!DiffLists(O, N)
    BY <2>1, <2>2 DEF Promise!DiffLists
  <2> QED
    BY <1>4, <2>3 DEF A, D, O, N, gone
<1>13. CASE a # b
  <2>1. O # N
    BY <1>8, <1>13
  <2>2. \E x \in O \ N : x \in D
    BY <1>6, <1>9, <1>13
  <2>3. ~gone => O \ N \subseteq D /\ A \cap O \subseteq D
    BY <1>9, <1>10
  <2>4. [added |-> A, deleted |-> D] \in Promise(gone)!DiffLists(O, N)
    BY <1>5, <1>9, <1>11, <2>1, <2>2, <2>3, PromiseKept
  <2> QED
    BY <1>4, <2>4 DEF A, D, O, N, gone
<1> QED
  BY <1>12, <1>13

(* For any trees ordered by keys and any stores that hold a node's content *)
(* under its hash or nothing: each answer of a batch lists what its pair's *)
(* trees differ by, up to moved nodes and what cannot be read, nothing     *)
(* twice; a batch fails only if a node of one of its trees cannot be read  *)
(* (diff_nodes, collect_added, collect_deleted, diff_batch_concurrent).    *)
THEOREM DiffIsExact ==
  ASSUME DiffsAreSound
  PROVE  Spec => []DiffExact
<1>1. Init => DiffInv
  BY InitDiff
<1>2. DiffInv /\ [Next]_vars => DiffInv'
  BY NextDiff
<1>3. DiffInv => DiffExact
  <2> SUFFICES ASSUME DiffInv, call.op = "diff"
               PROVE  /\ pc = "done" =>
                           \A p \in DOMAIN answers :
                             /\ NoDuplicates(answers[p].added) /\ NoDuplicates(answers[p].deleted)
                             /\ [added |-> ToSet(answers[p].added), deleted |-> ToSet(answers[p].deleted)] \in
                                  Promise(Unreadable(call.roots[p]) # {})!DiffLists(
                                    NodesOf(call.roots[p]), NodesOf(call.roots[p + 1]))
                      /\ pc = "failed" => \E p \in DOMAIN call.roots : Unreadable(call.roots[p]) # {}
    BY Zenon DEF DiffExact
  <2>1. call \in Calls /\ OnDiff
    BY DEF DiffInv
  <2>2. ASSUME pc = "done", NEW p \in DOMAIN answers
        PROVE  /\ NoDuplicates(answers[p].added) /\ NoDuplicates(answers[p].deleted)
               /\ [added |-> ToSet(answers[p].added), deleted |-> ToSet(answers[p].deleted)] \in
                    Promise(Unreadable(call.roots[p]) # {})!DiffLists(
                      NodesOf(call.roots[p]), NodesOf(call.roots[p + 1]))
    <3> DEFINE a == call.roots[p]
               b == call.roots[p + 1]
               r == answers[p]
    <3>1. r.ok /\ Answered(r, a, b)
      BY <2>1, <2>2 DEF OnDiff
    <3>2. IsKeyed(a) /\ IsKeyed(b)
      BY <2>1, PairFacts DEF OnDiff
    <3> HIDE DEF a, b, r
    <3>3. /\ NoDuplicates(r.added) /\ NoDuplicates(r.deleted)
          /\ [added |-> AddedBy(r), deleted |-> DeletedBy(r)] \in
               Promise(Unreadable(a) # {})!DiffLists(NodesOf(a), NodesOf(b))
      BY <3>1, <3>2, AnswerFacts
    <3> QED
      BY <3>3, Zenon DEF AddedBy, DeletedBy, a, b, r
  <2>3. pc = "failed" => \E p \in DOMAIN call.roots : Unreadable(call.roots[p]) # {}
    BY <2>1 DEF OnDiff
  <2> QED
    BY <2>2, <2>3
<1> QED
  BY <1>1, <1>2, <1>3, PTL DEF Spec

-----------------------------------------------------------------------------
(* A batch replayed by the importer                                        *)

(* The importer's map after a delta, as the set of its nodes.              *)
LEMMA ReplayedNodes ==
  ASSUME NEW O, NEW D, NEW A
  PROVE  Map!Insert(Map!Remove(Content(O), D), Content(A)) = Content((O \ D) \cup A)
<1> DEFINE left == Map!Remove(Content(O), D)
           more == Content(A)
<1>1. left = [h \in O \ D |-> Listed(h)]
  BY DEF Map!Remove, Content
<1>2. more = [h \in A |-> Listed(h)]
  BY DEF Content
<1> HIDE DEF left, more
<1>3. Map!Insert(left, more) =
        [h \in DOMAIN left \cup DOMAIN more |-> IF h \in DOMAIN more THEN more[h] ELSE left[h]]
  BY DEF Map!Insert
<1>4. DOMAIN left = O \ D /\ DOMAIN more = A
  BY <1>1, <1>2
<1>5. Map!Insert(left, more) =
        [h \in (O \ D) \cup A |-> IF h \in A THEN more[h] ELSE left[h]]
  BY <1>3, <1>4
<1>6. \A h \in (O \ D) \cup A : (IF h \in A THEN more[h] ELSE left[h]) = Listed(h)
  BY <1>1, <1>2
<1>7. Map!Insert(left, more) = [h \in (O \ D) \cup A |-> Listed(h)]
  BY <1>5, <1>6
<1> QED
  BY <1>7 DEF left, more, Content

(* What the importer sees of a listed node.                                *)
LEMMA ListedFacts ==
  ASSUME NEW n
  PROVE  /\ Listed(n).hash = n /\ Listed(n).parses
         /\ (Map!is_inner(Listed(n)) <=> is_inner(n))
         /\ (Listed(n).type = "inner" <=> is_inner(n))
         /\ Map!child_hashes(Listed(n)) = child_hashes(n)
<1> DEFINE used == {s \in DOMAIN slots(n) : slots(n)[s] # ZERO_HASH}
           node == Listed(n)
<1>1. /\ node.hash = n /\ node.parses
      /\ node.type = IF is_inner(n) THEN "inner" ELSE "account"
      /\ node.slots = [slot \in used |-> slots(n)[slot]]
  BY DEF Listed
<1> HIDE DEF node
<1>2. (Map!is_inner(node) <=> is_inner(n)) /\ (node.type = "inner" <=> is_inner(n))
  <2>1. CASE is_inner(n)
    BY <1>1, <2>1 DEF Map!is_inner
  <2>2. CASE ~is_inner(n)
    <3>1. node.type = "account"
      BY <1>1, <2>2
    <3> QED
      BY <2>2, <3>1 DEF Map!is_inner
  <2> QED
    BY <2>1, <2>2
<1>3. {node.slots[s] : s \in DOMAIN node.slots} = {slots(n)[s] : s \in used}
  BY <1>1
<1>4. child_hashes(n) = {slots(n)[s] : s \in used}
  BY DEF child_hashes, ToSet
<1>5. ~is_inner(n) => child_hashes(n) = {}
  <2>1. ~is_inner(n) => slots(n) = <<>>
    BY DEF slots
  <2> QED
    BY <2>1 DEF child_hashes, ToSet
<1>6. Map!child_hashes(node) = child_hashes(n)
  BY <1>2, <1>3, <1>4, <1>5 DEF Map!child_hashes
<1> QED
  BY <1>1, <1>2, <1>6 DEF node

(* A right answer takes the importer from one tree to the next.            *)
LEMMA NextTree ==
  ASSUME NEW a, NEW b, IsKeyed(a), IsKeyed(b), NEW r, r.ok, Answered(r, a, b), Unreadable(a) = {}
  PROVE  /\ AddedBy(r) \subseteq NodesOf(b)
         /\ (NodesOf(a) \ DeletedBy(r)) \cup AddedBy(r) = NodesOf(b)
<1>1. r \in Results(NodesOf(b), NodesOf(a)) /\ Compares(r, a, b)
  BY DEF Answered, DiffRight
<1>2. AddedBy(r) \subseteq NodesOf(b) /\ DeletedBy(r) \subseteq NodesOf(a)
  BY <1>1, ListedNodes
<1>3. \A z \in NodesOf(a) : Readable(z)
  BY DEF Unreadable
<1>4. /\ NodesOf(b) \ NodesOf(a) \subseteq AddedBy(r)
      /\ DeletedBy(r) \cap NodesOf(b) \subseteq AddedBy(r)
      /\ NodesOf(a) \ NodesOf(b) \subseteq DeletedBy(r)
  BY <1>1, <1>3 DEF Compares
<1>5. \A z : z \in (NodesOf(a) \ DeletedBy(r)) \cup AddedBy(r) <=> z \in NodesOf(b)
  BY <1>2, <1>4
<1> QED
  BY <1>2, <1>5

(* The new root is the one added inner node no other refers to.            *)
LEMMA OneNewRoot ==
  ASSUME NEW a, NEW b, IsKeyed(a), IsKeyed(b), NEW r, r.ok, Answered(r, a, b)
  PROVE  /\ Map!NewRoots({Listed(n) : n \in AddedBy(r)}) = IF a = b THEN {} ELSE {Listed(b)}
         /\ Map!NewRoot({Listed(n) : n \in AddedBy(r)}, a) = b
<1> DEFINE A == AddedBy(r)
           added == {Listed(n) : n \in A}
           inner == {h \in A : is_inner(h)}
<1>1. r \in Results(NodesOf(b), NodesOf(a)) /\ Compares(r, a, b) /\ (a = b => r = Nothing)
  BY DEF Answered, DiffRight
<1>2. A \subseteq NodesOf(b)
  BY <1>1, ListedNodes
<1>3. \A h : /\ Listed(h).hash = h /\ Listed(h).parses
             /\ (Listed(h).type = "inner" <=> is_inner(h))
             /\ Map!child_hashes(Listed(h)) = child_hashes(h)
  BY ListedFacts
<1>4. \A node : node \in Map!NewRoots(added) <=>
                   \E h \in inner : /\ node = Listed(h)
                                   /\ h \notin UNION {child_hashes(x) : x \in inner}
  <2> DEFINE listed == {node \in added : node.type = "inner"}
             parsed == {n \in listed : n.parses}
             referenced == UNION {Map!child_hashes(node) : node \in parsed}
  <2>1. \A node : node \in listed <=> \E h \in inner : node = Listed(h)
    BY <1>3
  <2>2. \A x : x \in referenced <=> x \in UNION {child_hashes(h) : h \in inner}
    <3>1. \A node : node \in parsed <=> \E h \in inner : node = Listed(h)
      BY <1>3
    <3> HIDE DEF parsed, inner
    <3> QED
      BY <1>3, <3>1
  <2>3. Map!NewRoots(added) = {node \in listed : node.hash \notin referenced}
    BY DEF Map!NewRoots
  <2> HIDE DEF listed, parsed, referenced, inner, added
  <2> QED
    BY <1>3, <2>1, <2>2, <2>3
<1> HIDE DEF added
<1>5. CASE a = b
  <2>1. A = {}
    BY <1>1, <1>5, NothingFacts
  <2>2. Map!NewRoots(added) = {}
    BY <1>4, <2>1
  <2>3. Map!NewRoot(added, a) = a
    BY <2>2 DEF Map!NewRoot
  <2> QED
    BY <1>5, <2>2, <2>3 DEF added
<1>6. CASE a # b
  <2>1. /\ b \in NodesOf(b) /\ (b \in NodesOf(a) => a = b)
        /\ \A y \in NodesOf(b) : b \notin child_hashes(y)
    BY RootsDiffer
  <2>2. b \in A
    BY <1>1, <1>6, <2>1 DEF Compares
  <2>3. is_inner(b)
    BY KeyedRoot DEF IsKeyed
  <2>4. \A x \in A : x # b => \E y \in A : x \in child_hashes(y)
    BY <1>1 DEF Compares
  <2>5. \A node : node \in Map!NewRoots(added) <=> node = Listed(b)
    <3>1. ASSUME NEW z, z \in inner, z # b PROVE z \in UNION {child_hashes(h) : h \in inner}
      <4>1. PICK y \in A : z \in child_hashes(y)
        BY <2>4, <3>1
      <4>2. is_inner(y)
        BY <1>3, <4>1 DEF child_hashes, slots, ToSet
      <4> QED
        BY <4>1, <4>2
    <3>2. b \in inner /\ b \notin UNION {child_hashes(h) : h \in inner}
      BY <1>2, <2>1, <2>2, <2>3
    <3> HIDE DEF inner
    <3> QED
      BY <1>4, <3>1, <3>2
  <2>6. Map!NewRoots(added) = {Listed(b)}
    BY <2>5
  <2>7. Map!NewRoot(added, a) = b
    <3> DEFINE chosen == CHOOSE node \in Map!NewRoots(added) : TRUE
    <3>1. chosen = Listed(b)
      BY <2>6
    <3>2. Map!NewRoot(added, a) = chosen.hash
      BY <2>6 DEF Map!NewRoot
    <3> HIDE DEF chosen
    <3> QED
      BY <1>3, <3>1, <3>2
  <2> QED
    BY <1>6, <2>6, <2>7 DEF added
<1> QED
  BY <1>5, <1>6

(* For any such trees and stores that have every node: replayed in order   *)
(* from the first tree, the deltas of a batch give the nodes of one tree   *)
(* after the other, each with that tree's root as its only new root and    *)
(* no reference to a missing node (find_new_root, check_added_children).   *)
THEOREM BatchIsAccepted ==
  ASSUME DiffsAreSound
  PROVE  Spec => []ImporterAccepts
<1>1. Init => DiffInv
  BY InitDiff
<1>2. DiffInv /\ [Next]_vars => DiffInv'
  BY NextDiff
<1>3. DiffInv => ImporterAccepts
  <2> DEFINE m == Len(answers)
             added(p) == ToSet(answers[p].added)
             list(p) == {Listed(n) : n \in added(p)}
             Body(f, p) == IF p = 0 THEN Content(NodesOf(Root))
                           ELSE Map!Insert(Map!Remove(f[p - 1], ToSet(answers[p].deleted)), Content(added(p)))
             state[p \in 0..m] == IF p = 0 THEN Content(NodesOf(Root))
                                  ELSE Map!Insert(Map!Remove(state[p - 1], ToSet(answers[p].deleted)), Content(added(p)))
  <2> SUFFICES ASSUME DiffInv, call.op = "diff", pc = "done",
                      \A p \in DOMAIN call.roots : Unreadable(call.roots[p]) = {}
               PROVE  \A p \in DOMAIN answers :
                        /\ DOMAIN state[p] = NodesOf(call.roots[p + 1])
                        /\ Cardinality(Map!NewRoots(list(p))) <= 1
                        /\ Map!NewRoot(list(p), call.roots[p]) = call.roots[p + 1]
                        /\ Map!ChildrenPresent(list(p), state[p])
    BY DEF ImporterAccepts
  <2>1. call \in Calls /\ OnDiff
    BY DEF DiffInv
  <2>2. /\ m \in Nat /\ DOMAIN answers = 1..m
        /\ \A p \in 1..m : p \in DOMAIN call.roots /\ p + 1 \in DOMAIN call.roots
        /\ \A p \in DOMAIN call.roots : IsKeyed(call.roots[p])
    <3>1. /\ Len(call.roots) \in Nat \ {0} /\ \A p \in DOMAIN call.roots : IsKeyed(call.roots[p])
          /\ \A p \in 1..(Len(call.roots) - 1) : p \in DOMAIN call.roots /\ p + 1 \in DOMAIN call.roots
      BY <2>1, PairFacts
    <3>2. Len(call.roots) - 1 \in Nat /\ DOMAIN answers = 1..(Len(call.roots) - 1)
      BY <2>1, <3>1 DEF OnDiff
    <3>3. m = Len(call.roots) - 1
      BY <3>2
    <3> QED
      BY <3>1, <3>2, <3>3
  <2> HIDE DEF m
  <2>3. ASSUME NEW p \in 1..m
        PROVE  LET a == call.roots[p]
                   b == call.roots[p + 1]
                   r == answers[p]
               IN  IsKeyed(a) /\ IsKeyed(b) /\ r.ok /\ Answered(r, a, b) /\ Unreadable(a) = {}
    BY <2>1, <2>2 DEF OnDiff
  <2>4. ASSUME NEW p \in 1..m
        PROVE  Map!Insert(Map!Remove(Content(NodesOf(call.roots[p])), ToSet(answers[p].deleted)), Content(added(p)))
                 = Content(NodesOf(call.roots[p + 1]))
    <3> DEFINE a == call.roots[p]
               b == call.roots[p + 1]
               r == answers[p]
    <3>1. IsKeyed(a) /\ IsKeyed(b) /\ r.ok /\ Answered(r, a, b) /\ Unreadable(a) = {}
      BY <2>3
    <3> HIDE DEF a, b, r
    <3>2. (NodesOf(a) \ DeletedBy(r)) \cup AddedBy(r) = NodesOf(b)
      BY <3>1, NextTree
    <3>3. Map!Insert(Map!Remove(Content(NodesOf(a)), DeletedBy(r)), Content(AddedBy(r)))
            = Content((NodesOf(a) \ DeletedBy(r)) \cup AddedBy(r))
      BY ReplayedNodes
    <3> QED
      BY <3>2, <3>3, Zenon DEF a, b, r, AddedBy, DeletedBy
  <2>5. \A p \in 0..m : state[p] = Content(NodesOf(call.roots[p + 1]))
    <3> DEFINE tree == [p \in 0..m |-> Content(NodesOf(call.roots[p + 1]))]
    <3>1. Root = call.roots[0 + 1]
      BY DEF Root
    <3>2. \A p \in 0..m : p # 0 => p \in 1..m /\ p - 1 \in 0..m /\ (p - 1) + 1 = p
      BY <2>2
    <3>3. tree = [p \in 0..m |-> Body(tree, p)]
      <4>1. ASSUME NEW p \in 0..m PROVE Content(NodesOf(call.roots[p + 1])) = Body(tree, p)
        <5>1. CASE p = 0
          BY <3>1, <5>1
        <5>2. CASE p # 0
          <6>1. tree[p - 1] = Content(NodesOf(call.roots[p]))
            BY <3>2, <5>2
          <6> HIDE DEF tree, added
          <6>2. Body(tree, p) = Map!Insert(Map!Remove(tree[p - 1], ToSet(answers[p].deleted)), Content(added(p)))
            BY <5>2
          <6> HIDE DEF Body
          <6> QED
            BY <2>4, <3>2, <5>2, <6>1, <6>2
        <5> QED
          BY <5>1, <5>2
      <4> HIDE DEF Body
      <4> QED
        BY <4>1
    <3> HIDE DEF tree
    <3>4. state = [p \in 0..m |-> Body(state, p)]
      BY <3>3
    <3> HIDE DEF state
    <3> DEFINE Reaches == {p \in Nat : p <= m => state[p] = Content(NodesOf(call.roots[p + 1]))}
    <3>5. 0 \in Reaches
      <4>1. 0 \in 0..m
        BY <2>2
      <4>2. state[0] = Body(state, 0)
        BY <3>4, <4>1
      <4>3. Body(state, 0) = Content(NodesOf(Root))
        OBVIOUS
      <4> QED
        BY <3>1, <4>2, <4>3
    <3>6. ASSUME NEW p \in Reaches PROVE p + 1 \in Reaches
      <4> SUFFICES ASSUME p + 1 <= m PROVE state[p + 1] = Content(NodesOf(call.roots[(p + 1) + 1]))
        OBVIOUS
      <4>1. /\ p \in Nat /\ p <= m /\ p + 1 \in 1..m /\ p + 1 \in 0..m /\ p + 1 # 0 /\ (p + 1) - 1 = p
        BY <2>2
      <4>2. state[p] = Content(NodesOf(call.roots[p + 1]))
        BY <4>1
      <4>3. state[p + 1] = Body(state, p + 1)
        BY <3>4, <4>1
      <4> HIDE DEF added
      <4>4. Body(state, p + 1) =
              Map!Insert(Map!Remove(state[p], ToSet(answers[p + 1].deleted)), Content(added(p + 1)))
        BY <4>1
      <4> HIDE DEF Body
      <4> QED
        BY <2>4, <4>1, <4>2, <4>3, <4>4
    <3>7. \A p \in Nat : p \in Reaches
      <4>1. Reaches \in SUBSET Nat
        OBVIOUS
      <4> HIDE DEF Reaches
      <4> QED
        BY <3>5, <3>6, <4>1, NumbersFrom0
    <3> QED
      BY <2>2, <3>7
  <2> HIDE DEF state
  <2>6. ASSUME NEW p \in 1..m
        PROVE  /\ DOMAIN state[p] = NodesOf(call.roots[p + 1])
               /\ Cardinality(Map!NewRoots(list(p))) <= 1
               /\ Map!NewRoot(list(p), call.roots[p]) = call.roots[p + 1]
               /\ Map!ChildrenPresent(list(p), state[p])
    <3> DEFINE a == call.roots[p]
               b == call.roots[p + 1]
               r == answers[p]
    <3>1. IsKeyed(a) /\ IsKeyed(b) /\ r.ok /\ Answered(r, a, b) /\ Unreadable(a) = {}
      BY <2>3
    <3>2. state[p] = Content(NodesOf(b)) /\ list(p) = {Listed(n) : n \in AddedBy(r)}
      BY <2>2, <2>5 DEF AddedBy
    <3> HIDE DEF a, b, r, added, list
    <3>3. DOMAIN state[p] = NodesOf(b)
      BY <3>2 DEF Content
    <3>4. /\ Map!NewRoots(list(p)) = IF a = b THEN {} ELSE {Listed(b)}
          /\ Map!NewRoot(list(p), a) = b
      <4> DEFINE listed == {Listed(n) : n \in AddedBy(r)}
      <4>1. Map!NewRoots(listed) = (IF a = b THEN {} ELSE {Listed(b)}) /\ Map!NewRoot(listed, a) = b
        BY <3>1, OneNewRoot
      <4>2. list(p) = listed
        BY <3>2
      <4> HIDE DEF listed
      <4> QED
        BY <4>1, <4>2
    <3>5. Cardinality(Map!NewRoots(list(p))) <= 1
      <4> DEFINE new == Map!NewRoots(list(p))
      <4>1. new = {} \/ new = {Listed(b)}
        BY <3>4
      <4> HIDE DEF new
      <4>2. Cardinality(new) = 0 \/ Cardinality(new) = 1
        <5>1. Cardinality({}) = 0 /\ Cardinality({Listed(b)}) = 1
          BY FS_EmptySet, FS_Singleton
        <5> QED
          BY <4>1, <5>1
      <4>3. Cardinality(new) <= 1
        BY <4>2
      <4> QED
        BY <4>3 DEF new
    <3>6. Map!ChildrenPresent(list(p), state[p])
      <4>1. AddedBy(r) \subseteq NodesOf(b)
        BY <3>1, NextTree
      <4>2. 0 \in Nat /\ b \in AtDepth(b)[0]
        BY <3>1, KeyedRoot
      <4>3. \A h \in NodesOf(b) : child_hashes(h) \subseteq NodesOf(b)
        BY <3>1, <4>2, ChildInTree
      <4>4. \A h : /\ Listed(h).parses /\ Map!child_hashes(Listed(h)) = child_hashes(h)
        BY ListedFacts
      <4>5. ASSUME NEW node \in list(p) PROVE Map!Complete(node, state[p])
        <5>1. PICK h \in AddedBy(r) : node = Listed(h)
          BY <3>2
        <5>2. node.parses /\ Map!child_hashes(node) \subseteq DOMAIN state[p]
          BY <3>3, <4>1, <4>3, <4>4, <5>1
        <5> QED
          BY <5>2 DEF Map!Complete
      <4> QED
        BY <4>5 DEF Map!ChildrenPresent
    <3> QED
      BY <3>3, <3>4, <3>5, <3>6 DEF a, b
  <2> QED
    BY <2>2, <2>6
<1> QED
  BY <1>1, <1>2, <1>3, PTL DEF Spec

=============================================================================
