------------------------- MODULE TrajectoryWalkProofs -------------------------
(***************************************************************************)
(* The single-action steps, for a trajectory of any number of actions, and *)
(* the plan, for a list of any length.                                     *)
(*                                                                         *)
(* A plan grows by a batch at a time, and PlanInv says of what is planned  *)
(* that it passes its targets.  A batch that does so from where the plan   *)
(* ends continues it: the points before it stay, and those of the batch    *)
(* are shifted (CombinedPoints), so that both keep their order and their   *)
(* stays (Rises, Stay), and the stays at the point where they meet become  *)
(* one.  These lemmas are about the locations and the times of a           *)
(* trajectory, as two functions on its points.                             *)
(***************************************************************************)
EXTENDS TrajectoryWalk, FiniteSetTheorems, TLAPS
LOCAL INSTANCE SequencesExt

-------------------------------------------------------------------------------
(* The steps. *)

\* The location stays on the trajectory, and so did both ends of the last step.
WalkTypeOK ==
    /\ location \in 0..End
    /\ lastStep \in (0..End) \X (0..End)

\* A trajectory ends on a boundary.
LEMMA EndIsBoundary == End \in Nat /\ End % Unit = 0 /\ End > 0
BY NumActionsAssumption DEF End, Unit

\* Where the steps from a location go: on one of the boundaries next to it.
LEMMA StepTargetsAreBoundaries ==
    ASSUME NEW from \in Nat
    PROVE  /\ ForwardStepTarget(from) \in Nat
           /\ ForwardStepTarget(from) % Unit = 0
           /\ from < ForwardStepTarget(from) /\ ForwardStepTarget(from) <= from + Unit
           /\ BackwardStepTarget(from) \in Int
           /\ BackwardStepTarget(from) % Unit = 0
           /\ BackwardStepTarget(from) < from /\ from - Unit <= BackwardStepTarget(from)
BY DEF ForwardStepTarget, BackwardStepTarget, CurrentActionStart, CurrentActionEnd,
       PreviousActionStart, Unit

\* A step from a boundary spans a whole action, any other one less.
LEMMA NoBoundaryBetween ==
    ASSUME NEW from \in Nat, NEW between \in Nat, between % Unit = 0
    PROVE  /\ ~(from < between /\ between < ForwardStepTarget(from))
           /\ ~(BackwardStepTarget(from) < between /\ between < from)
BY DEF ForwardStepTarget, BackwardStepTarget, CurrentActionStart, CurrentActionEnd,
       PreviousActionStart, Unit

\* The type invariant holds in every walk.
LEMMA WalkType == WalkSpec => []WalkTypeOK
<1>1. WalkInit => WalkTypeOK
  BY DEF WalkInit, WalkTypeOK
<1>2. WalkTypeOK /\ [WalkNext]_walkVars => WalkTypeOK'
  <2> SUFFICES ASSUME WalkTypeOK, [WalkNext]_walkVars PROVE WalkTypeOK'
    OBVIOUS
  <2>1. location \in Nat /\ End \in Nat
    BY EndIsBoundary DEF WalkTypeOK
  <2>2. CASE StepForward
    BY <2>1, <2>2, StepTargetsAreBoundaries DEF StepForward, WalkTypeOK
  <2>3. CASE StepBackward
    BY <2>1, <2>3, StepTargetsAreBoundaries DEF StepBackward, WalkTypeOK
  <2>4. CASE Move \/ UNCHANGED walkVars
    BY <2>4 DEF Move, walkVars, WalkTypeOK
  <2>5. QED
    BY <2>2, <2>3, <2>4 DEF WalkNext
<1>3. QED
  BY <1>1, <1>2, PTL DEF WalkSpec

\* Single steps are refused only at the two ends of the trajectory.
LEMMA RefusedAtTheEnds ==
    WalkTypeOK => /\ ForwardStepTarget(location) > End <=> location = End
                  /\ BackwardStepTarget(location) < 0 <=> location = 0
BY NumActionsAssumption DEF WalkTypeOK, End, ForwardStepTarget, BackwardStepTarget,
   CurrentActionStart, CurrentActionEnd, PreviousActionStart, Unit

\* The last completed step, as a pair.
NextBoundary(from, to) ==
    from # to =>
        /\ to % Unit = 0
        /\ \A between \in 0..End :
             (from < between /\ between < to) \/ (to < between /\ between < from)
               => between % Unit # 0

(***************************************************************************)
(* A completed single step ends on the next boundary, and steps are        *)
(* refused at the two ends only (forward_to_next_action,                   *)
(* backward_to_previous_action).                                           *)
(***************************************************************************)
THEOREM StepsEndOnTheNextBoundary == WalkSpec => []StepsToAdjacentBoundary
<1> DEFINE Inv == NextBoundary(lastStep[1], lastStep[2])
<1>1. WalkInit => Inv
  BY DEF WalkInit, NextBoundary
<1>2. WalkTypeOK /\ Inv /\ [WalkNext]_walkVars => Inv'
  <2> SUFFICES ASSUME WalkTypeOK, Inv, [WalkNext]_walkVars PROVE Inv'
    OBVIOUS
  <2>1. location \in Nat /\ 0..End \subseteq Nat /\ (0..End)' = 0..End
    BY EndIsBoundary DEF WalkTypeOK, End
  <2>2. CASE StepForward
    <3>1. lastStep' = <<location, ForwardStepTarget(location)>>
      BY <2>2 DEF StepForward
    <3>2. QED
      BY <2>1, <3>1, StepTargetsAreBoundaries, NoBoundaryBetween DEF NextBoundary
  <2>3. CASE StepBackward
    <3>1. lastStep' = <<location, BackwardStepTarget(location)>>
      BY <2>3 DEF StepBackward
    <3>2. QED
      BY <2>1, <3>1, StepTargetsAreBoundaries, NoBoundaryBetween DEF NextBoundary
  <2>4. CASE Move \/ UNCHANGED walkVars
    BY <2>4 DEF Move, walkVars, NextBoundary, End
  <2>5. QED
    BY <2>2, <2>3, <2>4 DEF WalkNext
<1>3. WalkTypeOK /\ Inv => StepsToAdjacentBoundary
  BY RefusedAtTheEnds DEF StepsToAdjacentBoundary, NextBoundary
<1>4. QED
  BY <1>1, <1>2, <1>3, WalkType, PTL DEF WalkSpec

(***************************************************************************)
(* The action highlighted covers the location (action_index_for_location). *)
(***************************************************************************)
THEOREM IndexIsOfTheActionAtTheLocation == WalkSpec => []IndexCoversLocation
<1>1. WalkTypeOK => IndexCoversLocation
  BY NumActionsAssumption DEF WalkTypeOK, IndexCoversLocation, End, ActionIndexForLocation, Unit
<1>2. QED
  BY <1>1, WalkType, PTL

-------------------------------------------------------------------------------
(* Trajectories and how they are combined. *)

PointType == [joints : Nat, location : Nat, time : Nat]

\* Trajectories have a point; that of a batch begins at its location 0 and time 0.
Trajectory == Seq(PointType) \ {<<>>}

Begins(points) == points[1].location = 0 /\ points[1].time = 0

LEMMA PointIsPoint ==
    ASSUME NEW p \in PointType, NEW end \in PointType
    PROVE  Point(p.joints, p.location + end.location, p.time + end.time) \in PointType
BY DEF Point, PointType

\* The points of a combination: those before, and the next ones but for the first.
LEMMA CombinedPoints ==
    ASSUME NEW before \in Trajectory, NEW next \in Trajectory
    PROVE  LET all == Combined(before, next)
               n == Len(before)
           IN  /\ all \in Trajectory
               /\ Len(all) = n + Len(next) - 1
               /\ \A i \in 1..n : all[i] = before[i]
               /\ \A i \in (n + 1)..Len(all) :
                    /\ all[i].joints = next[i - n + 1].joints
                    /\ all[i].location = next[i - n + 1].location + before[n].location
                    /\ all[i].time = next[i - n + 1].time + before[n].time
<1> DEFINE n == Len(before)
           end == before[n]
           Shift(p) == Point(p.joints, p.location + end.location, p.time + end.time)
           rest == [i \in 1..(Len(next) - 1) |-> Shift(next[i + 1])]
<1>1. /\ before \in Seq(PointType) /\ next \in Seq(PointType)
      /\ n \in Nat \ {0} /\ Len(next) \in Nat \ {0}
      /\ end \in PointType
  BY DEF Trajectory
<1>2. Combined(before, next) = before \o rest
  BY <1>1 DEF Combined, Trajectory, Last
<1>3. \A i \in 1..(Len(next) - 1) : Shift(next[i + 1]) \in PointType
  <2> TAKE i \in 1..(Len(next) - 1)
  <2>1. next[i + 1] \in PointType
    BY <1>1
  <2>2. QED
    BY <1>1, <2>1, PointIsPoint
<1>4. rest \in Seq(PointType) /\ Len(rest) = Len(next) - 1
  BY <1>1, <1>3
<1>5. \A i \in 1..(Len(next) - 1) : rest[i] = Shift(next[i + 1])
  OBVIOUS
<1> HIDE DEF rest
<1>6. /\ before \o rest \in Seq(PointType)
      /\ Len(before \o rest) = n + Len(next) - 1
      /\ \A i \in 1..n : (before \o rest)[i] = before[i]
      /\ \A i \in (n + 1)..(n + Len(next) - 1) : (before \o rest)[i] = rest[i - n]
  BY <1>1, <1>4
<1>7. \A i \in (n + 1)..(n + Len(next) - 1) :
         (before \o rest)[i] = Shift(next[i - n + 1])
  <2> TAKE i \in (n + 1)..(n + Len(next) - 1)
  <2>1. i - n \in 1..(Len(next) - 1)
    BY <1>1
  <2>2. rest[i - n] = Shift(next[(i - n) + 1])
    BY <2>1, <1>5
  <2>3. QED
    BY <2>2, <1>6
<1>8. before \o rest # <<>>
  BY <1>1, <1>6
<1>9. \A i \in (n + 1)..(n + Len(next) - 1) :
         /\ (before \o rest)[i].joints = next[i - n + 1].joints
         /\ (before \o rest)[i].location = next[i - n + 1].location + end.location
         /\ (before \o rest)[i].time = next[i - n + 1].time + end.time
  <2> TAKE i \in (n + 1)..(n + Len(next) - 1)
  <2>1. (before \o rest)[i] = Shift(next[i - n + 1])
    BY <1>7
  <2> HIDE DEF end
  <2>2. QED
    BY <2>1 DEF Point
<1>10. QED
  BY <1>2, <1>6, <1>8, <1>9 DEF Trajectory

-------------------------------------------------------------------------------
(* Stays and their order, in the locations and times of a trajectory. *)

\* Neither goes back.
Rises(loc, time, first, last) ==
    \A i, j \in first..last : i <= j => loc[i] <= loc[j] /\ time[i] <= time[j]

\* The points at a place span the duration.
Stay(loc, time, first, last, place, duration) ==
    \E arrival, departure \in first..last :
        /\ loc[arrival] = place /\ loc[departure] = place
        /\ \A i \in first..last : loc[i] = place =>
              time[arrival] <= time[i] /\ time[i] <= time[departure]
        /\ time[departure] = time[arrival] + duration

\* Two parts that rise and meet at a point rise together.
LEMMA RisesTogether ==
    ASSUME NEW m \in Nat \ {0}, NEW last \in Nat, m <= last,
           NEW loc \in [1..last -> Nat], NEW time \in [1..last -> Nat],
           Rises(loc, time, 1, m), Rises(loc, time, m, last)
    PROVE  Rises(loc, time, 1, last)
<1> SUFFICES ASSUME NEW i \in 1..last, NEW j \in 1..last, i <= j
             PROVE  loc[i] <= loc[j] /\ time[i] <= time[j]
  BY DEF Rises
<1>1. CASE j <= m
  BY <1>1 DEF Rises
<1>2. CASE m <= i
  BY <1>2 DEF Rises
<1>3. CASE i < m /\ m < j
  <2>1. loc[i] <= loc[m] /\ time[i] <= time[m]
    BY <1>3 DEF Rises
  <2>2. loc[m] <= loc[j] /\ time[m] <= time[j]
    BY <1>3 DEF Rises
  <2>3. QED
    BY <2>1, <2>2
<1>4. QED
  BY <1>1, <1>2, <1>3

\* A stay before or after the point where they meet is a stay of the whole.
LEMMA StayOfAPart ==
    ASSUME NEW m \in Nat \ {0}, NEW last \in Nat, m <= last,
           NEW loc \in [1..last -> Nat], NEW time \in [1..last -> Nat],
           Rises(loc, time, 1, last), NEW place \in Nat, NEW duration \in Nat,
           \/ place < loc[m] /\ Stay(loc, time, 1, m, place, duration)
           \/ loc[m] < place /\ Stay(loc, time, m, last, place, duration)
    PROVE  Stay(loc, time, 1, last, place, duration)
<1>1. CASE place < loc[m] /\ Stay(loc, time, 1, m, place, duration)
  <2>1. \A i \in 1..last : loc[i] = place => i \in 1..m
    BY <1>1 DEF Rises
  <2>2. 1..m \subseteq 1..last
    OBVIOUS
  <2>3. QED
    BY <1>1, <2>1, <2>2, Zenon DEF Stay
<1>2. CASE loc[m] < place /\ Stay(loc, time, m, last, place, duration)
  <2>1. \A i \in 1..last : loc[i] = place => i \in m..last
    BY <1>2 DEF Rises
  <2>2. m..last \subseteq 1..last
    OBVIOUS
  <2>3. QED
    BY <1>2, <2>1, <2>2, Zenon DEF Stay
<1>3. QED
  BY <1>1, <1>2

\* Two stays that meet become one.
LEMMA StaysThatMeet ==
    ASSUME NEW m \in Nat \ {0}, NEW last \in Nat, m <= last,
           NEW loc \in [1..last -> Nat], NEW time \in [1..last -> Nat],
           Rises(loc, time, 1, last), NEW before \in Nat, NEW after \in Nat,
           Stay(loc, time, 1, m, loc[m], before), Stay(loc, time, m, last, loc[m], after)
    PROVE  Stay(loc, time, 1, last, loc[m], before + after)
<1>1. PICK arrival \in 1..m, a \in 1..m :
         /\ loc[arrival] = loc[m] /\ loc[a] = loc[m]
         /\ \A i \in 1..m : loc[i] = loc[m] => time[arrival] <= time[i] /\ time[i] <= time[a]
         /\ time[a] = time[arrival] + before
  BY DEF Stay
<1>2. PICK d \in m..last, departure \in m..last :
         /\ loc[d] = loc[m] /\ loc[departure] = loc[m]
         /\ \A i \in m..last : loc[i] = loc[m] =>
               time[d] <= time[i] /\ time[i] <= time[departure]
         /\ time[departure] = time[d] + after
  BY DEF Stay
<1>3. time[a] = time[m]
  <2>1. time[a] <= time[m] /\ time[m] <= time[a]
    BY <1>1 DEF Rises
  <2>2. QED
    BY <2>1
<1>4. time[d] = time[m]
  <2>1. time[d] <= time[m] /\ time[m] <= time[d]
    BY <1>2 DEF Rises
  <2>2. QED
    BY <2>1
<1>5. time[departure] = time[arrival] + (before + after)
  BY <1>1, <1>2, <1>3, <1>4
<1>6. arrival \in 1..last /\ departure \in 1..last
  OBVIOUS
<1>7. ASSUME NEW i \in 1..last, loc[i] = loc[m]
      PROVE  time[arrival] <= time[i] /\ time[i] <= time[departure]
  <2>1. time[arrival] <= time[m] /\ time[m] <= time[departure]
    BY <1>1, <1>2
  <2>2. CASE i <= m
    <3>1. time[arrival] <= time[i] /\ time[i] <= time[m]
      BY <1>1, <1>7, <2>2 DEF Rises
    <3>2. QED
      BY <1>6, <2>1, <3>1
  <2>3. CASE m < i
    <3>1. time[m] <= time[i] /\ time[i] <= time[departure]
      BY <1>2, <1>7, <2>3 DEF Rises
    <3>2. QED
      BY <1>6, <2>1, <3>1
  <2>4. QED
    BY <2>2, <2>3
<1>8. QED
  BY <1>1, <1>2, <1>5, <1>6, <1>7 DEF Stay

\* f, moved by "by" points and raised by n.
Shifted(f, g, len, by, n) == \A k \in 1..len : g[k + by] = f[k] + n

\* A shift keeps the order.
LEMMA ShiftKeepsOrder ==
    ASSUME NEW by \in Nat, NEW len \in Nat, NEW n \in Nat,
           NEW f \in [1..len -> Nat], NEW g \in [1..(len + by) -> Nat],
           Shifted(f, g, len, by, n), NEW k \in 1..len, NEW l \in 1..len
    PROVE  f[k] <= f[l] <=> g[k + by] <= g[l + by]
<1>1. k + by \in 1..(len + by) /\ l + by \in 1..(len + by)
  OBVIOUS
<1>2. g[k + by] = f[k] + n /\ g[l + by] = f[l] + n
  BY DEF Shifted
<1>3. f[k] \in Nat /\ f[l] \in Nat /\ g[k + by] \in Nat /\ g[l + by] \in Nat
  BY <1>1
<1> DEFINE fk == f[k]
           fl == f[l]
           gk == g[k + by]
           gl == g[l + by]
<1>4. gk = fk + n /\ gl = fl + n /\ fk \in Nat /\ fl \in Nat /\ gk \in Nat /\ gl \in Nat
  BY <1>2, <1>3
<1> HIDE DEF fk, fl, gk, gl
<1>5. fk <= fl <=> gk <= gl
  BY <1>4
<1>6. QED
  BY <1>5 DEF fk, fl, gk, gl

\* A shift keeps the stays.
LEMMA ShiftedStay ==
    ASSUME NEW by \in Nat, NEW len \in Nat, NEW n \in Nat, NEW t \in Nat,
           NEW loc \in [1..len -> Nat], NEW time \in [1..len -> Nat],
           NEW loc2 \in [1..(len + by) -> Nat], NEW time2 \in [1..(len + by) -> Nat],
           Shifted(loc, loc2, len, by, n), Shifted(time, time2, len, by, t)
    PROVE  /\ Rises(loc, time, 1, len) => Rises(loc2, time2, by + 1, len + by)
           /\ \A place, duration \in Nat :
                Stay(loc, time, 1, len, place, duration) =>
                    Stay(loc2, time2, by + 1, len + by, n + place, duration)
<1>1. \A i \in (by + 1)..(len + by) : \E k \in 1..len : i = k + by
  <2> TAKE i \in (by + 1)..(len + by)
  <2>1. i - by \in 1..len /\ i = (i - by) + by
    OBVIOUS
  <2>2. QED
    BY <2>1
<1>2. ASSUME Rises(loc, time, 1, len),
             NEW i \in (by + 1)..(len + by), NEW j \in (by + 1)..(len + by), i <= j
      PROVE  loc2[i] <= loc2[j] /\ time2[i] <= time2[j]
  <2>1. PICK k \in 1..len, l \in 1..len : i = k + by /\ j = l + by
    BY <1>1
  <2>2. k <= l
    BY <1>2, <2>1
  <2>3. loc[k] <= loc[l] /\ time[k] <= time[l]
    BY <1>2, <2>2 DEF Rises
  <2>4. loc2[i] <= loc2[j]
    BY <2>1, <2>3, ShiftKeepsOrder
  <2>5. time2[i] <= time2[j]
    BY <2>1, <2>3, ShiftKeepsOrder
  <2>6. QED
    BY <2>4, <2>5
<1>3. ASSUME NEW place \in Nat, NEW duration \in Nat, Stay(loc, time, 1, len, place, duration)
      PROVE  Stay(loc2, time2, by + 1, len + by, n + place, duration)
  <2>1. PICK a \in 1..len, d \in 1..len :
           /\ loc[a] = place /\ loc[d] = place
           /\ \A k \in 1..len : loc[k] = place => time[a] <= time[k] /\ time[k] <= time[d]
           /\ time[d] = time[a] + duration
    BY <1>3 DEF Stay
  <2>2. a + by \in (by + 1)..(len + by) /\ d + by \in (by + 1)..(len + by)
    OBVIOUS
  <2>3. loc2[a + by] = n + place /\ loc2[d + by] = n + place
    <3>1. loc2[a + by] = loc[a] + n /\ loc2[d + by] = loc[d] + n
      BY DEF Shifted
    <3>2. QED
      BY <2>1, <3>1
  <2>4. time2[d + by] = time2[a + by] + duration
    <3> DEFINE here == time[a]
    <3>1. /\ here \in Nat /\ time[d] = here + duration
          /\ time2[a + by] = here + t /\ time2[d + by] = time[d] + t
      BY <2>1 DEF Shifted
    <3> HIDE DEF here
    <3>2. QED
      BY <3>1
  <2>5. ASSUME NEW i \in (by + 1)..(len + by), loc2[i] = n + place
        PROVE  time2[a + by] <= time2[i] /\ time2[i] <= time2[d + by]
    <3>1. PICK k \in 1..len : i = k + by
      BY <1>1
    <3>2. loc[k] = place
      <4> DEFINE there == loc[k]
      <4>1. there \in Nat /\ n + place = there + n
        BY <2>5, <3>1 DEF Shifted
      <4> HIDE DEF there
      <4>2. there = place
        BY <4>1
      <4>3. QED
        BY <4>2 DEF there
    <3>3. time[a] <= time[k] /\ time[k] <= time[d]
      BY <2>1, <3>2
    <3>4. time2[a + by] <= time2[k + by]
      BY <3>3, ShiftKeepsOrder
    <3>5. time2[k + by] <= time2[d + by]
      BY <3>3, ShiftKeepsOrder
    <3>6. QED
      BY <3>1, <3>4, <3>5
  <2>6. QED
    BY <2>2, <2>3, <2>4, <2>5, Zenon DEF Stay
<1>4. QED
  BY <1>2, <1>3 DEF Rises

Locations(points) == [i \in DOMAIN points |-> points[i].location]

Times(points) == [i \in DOMAIN points |-> points[i].time]

\* A trajectory, as the functions of its locations and its times.
LEMMA PointTypes ==
    ASSUME NEW points \in Trajectory
    PROVE  /\ Len(points) \in Nat \ {0} /\ DOMAIN points = 1..Len(points)
           /\ Last(points) = points[Len(points)]
           /\ \A i \in 1..Len(points) : points[i].joints \in Nat
           /\ Locations(points) \in [1..Len(points) -> Nat]
           /\ Times(points) \in [1..Len(points) -> Nat]
           /\ \A i \in 1..Len(points) :
                Locations(points)[i] = points[i].location /\ Times(points)[i] = points[i].time
<1>1. points \in Seq(PointType) /\ points # <<>>
  BY DEF Trajectory
<1>2. Len(points) \in Nat \ {0} /\ DOMAIN points = 1..Len(points)
  BY <1>1
<1>3. \A i \in 1..Len(points) : points[i] \in PointType
  BY <1>1
<1>4. \A i \in 1..Len(points) :
         points[i].joints \in Nat /\ points[i].location \in Nat /\ points[i].time \in Nat
  BY <1>3 DEF PointType
<1>5. Locations(points) \in [1..Len(points) -> Nat] /\ Times(points) \in [1..Len(points) -> Nat]
  BY <1>2, <1>4 DEF Locations, Times
<1>6. \A i \in 1..Len(points) :
         Locations(points)[i] = points[i].location /\ Times(points)[i] = points[i].time
  BY <1>2 DEF Locations, Times
<1>7. Last(points) = points[Len(points)]
  BY DEF Last
<1>8. QED
  BY <1>2, <1>4, <1>5, <1>6, <1>7

\* What it is to pass targets, said of locations and times.
LEMMA PassingIsRising ==
    ASSUME NEW points \in Trajectory, NEW start \in Nat, NEW numMotions \in Nat, NEW stays
    PROVE  Passes(points, start, numMotions, stays) <=>
               LET loc == Locations(points)
                   time == Times(points)
                   last == Len(points)
               IN  /\ loc[last] = numMotions
                   /\ \A i \in 1..last : points[i].joints = start + loc[i]
                   /\ Rises(loc, time, 1, last)
                   /\ \A place \in 0..numMotions :
                        Stay(loc, time, 1, last, place, stays[place])
<1> DEFINE loc == Locations(points)
           time == Times(points)
           last == Len(points)
<1>1. /\ last \in Nat \ {0} /\ DOMAIN points = 1..last /\ Last(points) = points[last]
      /\ loc \in [1..last -> Nat] /\ time \in [1..last -> Nat]
      /\ \A i \in 1..last : loc[i] = points[i].location /\ time[i] = points[i].time
  BY PointTypes
<1> HIDE DEF loc, time, last
<1>2. Last(points).location = numMotions <=> loc[last] = numMotions
  BY <1>1
<1>3. (\A i \in DOMAIN points : points[i].joints = start + points[i].location)
         <=> \A i \in 1..last : points[i].joints = start + loc[i]
  BY <1>1
<1>4. (\A i, j \in DOMAIN points : i < j =>
          /\ points[i].location <= points[j].location
          /\ points[i].time <= points[j].time) <=> Rises(loc, time, 1, last)
  <2>1. ASSUME Rises(loc, time, 1, last), NEW i \in 1..last, NEW j \in 1..last, i < j
        PROVE  points[i].location <= points[j].location /\ points[i].time <= points[j].time
    <3>1. loc[i] <= loc[j] /\ time[i] <= time[j]
      BY <2>1 DEF Rises
    <3>2. QED
      BY <1>1, <3>1
  <2>2. ASSUME \A i, j \in 1..last : i < j =>
                  /\ points[i].location <= points[j].location
                  /\ points[i].time <= points[j].time,
               NEW i \in 1..last, NEW j \in 1..last, i <= j
        PROVE  loc[i] <= loc[j] /\ time[i] <= time[j]
    <3>1. CASE i = j
      BY <1>1, <3>1
    <3>2. CASE i < j
      BY <1>1, <2>2, <3>2
    <3>3. QED
      BY <2>2, <3>1, <3>2
  <2>3. QED
    BY <1>1, <2>1, <2>2 DEF Rises
<1>5. ASSUME NEW place, NEW duration
      PROVE  Held(points, place, duration) <=> Stay(loc, time, 1, last, place, duration)
  <2>1. ASSUME NEW a \in 1..last, NEW d \in 1..last
        PROVE  (/\ points[a].location = place
                /\ points[d].location = place
                /\ \A i \in 1..last : points[i].location = place =>
                      /\ points[a].time <= points[i].time
                      /\ points[i].time <= points[d].time
                /\ points[d].time = points[a].time + duration)
               <=>
               (/\ loc[a] = place /\ loc[d] = place
                /\ \A i \in 1..last : loc[i] = place => time[a] <= time[i] /\ time[i] <= time[d]
                /\ time[d] = time[a] + duration)
    <3>1. /\ loc[a] = points[a].location /\ loc[d] = points[d].location
          /\ time[a] = points[a].time /\ time[d] = points[d].time
      BY <1>1
    <3>2. \A i \in 1..last : loc[i] = points[i].location /\ time[i] = points[i].time
      BY <1>1
    <3>3. QED
      BY <3>1, <3>2, Zenon
  <2>2. DOMAIN points = 1..last
    BY <1>1
  <2>3. Held(points, place, duration) => Stay(loc, time, 1, last, place, duration)
    BY <2>1, <2>2 DEF Held, Stay
  <2>4. Stay(loc, time, 1, last, place, duration) => Held(points, place, duration)
    BY <2>1, <2>2 DEF Held, Stay
  <2>5. QED
    BY <2>3, <2>4
<1>6. QED
  BY <1>2, <1>3, <1>4, <1>5 DEF Passes, loc, time, last

\* The stays of two trajectories that meet at the place n.
StaysMeet(n, more, stays, nextStays, allStays) ==
    /\ \A k \in 0..n : stays[k] \in Nat
    /\ \A k \in 0..more : nextStays[k] \in Nat
    /\ \A k \in 0..(n - 1) : allStays[k] = stays[k]
    /\ allStays[n] = stays[n] + nextStays[0]
    /\ \A k \in 1..more : allStays[n + k] = nextStays[k]

(***************************************************************************)
(* A combination passes what both of its parts pass, one after the other,  *)
(* and the two stays at the place where they meet become one               *)
(* (joint_trajectory.py:10-27).                                            *)
(***************************************************************************)
LEMMA CombinedPasses ==
    ASSUME NEW before \in Trajectory, NEW next \in Trajectory,
           NEW n \in Nat, NEW more \in Nat,
           NEW stays, NEW nextStays, NEW allStays,
           Passes(before, 0, n, stays), Passes(next, n, more, nextStays), Begins(next),
           StaysMeet(n, more, stays, nextStays, allStays)
    PROVE  Passes(Combined(before, next), 0, n + more, allStays)
<1> DEFINE all == Combined(before, next)
           m == Len(before)
           len == Len(next)
           last == Len(all)
           loc == Locations(all)
           time == Times(all)
           loc1 == Locations(before)
           time1 == Times(before)
           loc2 == Locations(next)
           time2 == Times(next)
           by == m - 1
           t == time1[m]
<1>1. all \in Trajectory
  BY CombinedPoints
<1>2. /\ m \in Nat \ {0} /\ len \in Nat \ {0} /\ last \in Nat /\ by \in Nat
      /\ last = len + by /\ m <= last
      /\ loc \in [1..last -> Nat] /\ time \in [1..last -> Nat]
      /\ loc1 \in [1..m -> Nat] /\ time1 \in [1..m -> Nat]
      /\ loc2 \in [1..len -> Nat] /\ time2 \in [1..len -> Nat]
  <2>1. last = m + len - 1
    BY CombinedPoints
  <2>2. m \in Nat \ {0} /\ len \in Nat \ {0} /\ last \in Nat
    BY <1>1, PointTypes
  <2>3. QED
    BY <1>1, <2>1, <2>2, PointTypes
<1>3. \A i \in 1..m : loc[i] = loc1[i] /\ time[i] = time1[i]
                      /\ all[i].joints = before[i].joints
  <2> TAKE i \in 1..m
  <2>1. all[i] = before[i]
    BY CombinedPoints
  <2>2. i \in 1..last
    BY <1>2
  <2>3. QED
    BY <1>1, <2>1, <2>2, PointTypes
<1>4. /\ loc1[m] = n
      /\ \A i \in 1..m : before[i].joints = 0 + loc1[i]
      /\ Rises(loc1, time1, 1, m)
      /\ \A place \in 0..n : Stay(loc1, time1, 1, m, place, stays[place])
  BY PassingIsRising
<1>5. /\ loc2[len] = more
      /\ \A i \in 1..len : next[i].joints = n + loc2[i]
      /\ Rises(loc2, time2, 1, len)
      /\ \A place \in 0..more : Stay(loc2, time2, 1, len, place, nextStays[place])
  BY PassingIsRising
<1>6. loc2[1] = 0 /\ time2[1] = 0
  BY <1>2, PointTypes DEF Begins
<1>7. \A i \in (m + 1)..last : /\ i - m + 1 \in 1..len
                               /\ loc[i] = loc2[i - m + 1] + n
                               /\ time[i] = time2[i - m + 1] + t
                               /\ all[i].joints = next[i - m + 1].joints
  <2> TAKE i \in (m + 1)..last
  <2>1. /\ all[i].joints = next[i - m + 1].joints
        /\ all[i].location = next[i - m + 1].location + before[m].location
        /\ all[i].time = next[i - m + 1].time + before[m].time
    BY CombinedPoints
  <2>2. i - m + 1 \in 1..len /\ i \in 1..last /\ m \in 1..m
    BY <1>2
  <2>3. /\ loc2[i - m + 1] = next[i - m + 1].location
        /\ time2[i - m + 1] = next[i - m + 1].time
    BY <2>2, PointTypes
  <2>4. loc1[m] = before[m].location /\ time1[m] = before[m].time
    BY <2>2, PointTypes
  <2>5. loc[i] = all[i].location /\ time[i] = all[i].time
    BY <1>1, <2>2, PointTypes
  <2>6. QED
    BY <1>4, <2>1, <2>2, <2>3, <2>4, <2>5
<1>8. t \in Nat
  <2>1. m \in 1..m
    BY <1>2
  <2>2. QED
    BY <1>2, <2>1
<1> HIDE DEF all, m, len, last, loc, time, loc1, time1, loc2, time2, by, t
<1>9. Shifted(loc2, loc, len, by, n) /\ Shifted(time2, time, len, by, t)
  <2>1. ASSUME NEW k \in 1..len
        PROVE  loc[k + by] = loc2[k] + n /\ time[k + by] = time2[k] + t
    <3>1. CASE k = 1
      <4>1. k + by = m /\ m \in 1..m
        BY <1>2, <3>1 DEF by
      <4>2. loc[m] = n /\ time[m] = t
        BY <1>3, <1>4, <4>1 DEF t
      <4>3. QED
        BY <1>6, <1>8, <3>1, <4>1, <4>2
    <3>2. CASE k # 1
      <4>1. k + by \in (m + 1)..last /\ (k + by) - m + 1 = k
        BY <1>2, <3>2 DEF by
      <4>2. QED
        BY <1>7, <4>1
    <3>3. QED
      BY <3>1, <3>2
  <2>2. QED
    BY <2>1 DEF Shifted
<1>10. m = by + 1 /\ loc[m] = n
  BY <1>2, <1>3, <1>4 DEF by
<1>11. Rises(loc, time, 1, m)
  BY <1>3, <1>4 DEF Rises
<1>12. Rises(loc, time, m, last)
  BY <1>2, <1>5, <1>8, <1>9, <1>10, ShiftedStay
<1>13. Rises(loc, time, 1, last)
  BY <1>2, <1>11, <1>12, RisesTogether
<1>14. ASSUME NEW place \in 0..n
       PROVE  Stay(loc, time, 1, m, place, stays[place])
  <2>1. Stay(loc1, time1, 1, m, place, stays[place])
    BY <1>4
  <2>2. QED
    BY <1>3, <2>1 DEF Stay
<1>15. ASSUME NEW k \in 0..more
       PROVE  Stay(loc, time, m, last, n + k, nextStays[k])
  <2>1. Stay(loc2, time2, 1, len, k, nextStays[k]) /\ nextStays[k] \in Nat /\ k \in Nat
    BY <1>5 DEF StaysMeet
  <2>2. QED
    BY <1>2, <1>8, <1>9, <1>10, <2>1, ShiftedStay
<1>16. ASSUME NEW place \in 0..(n + more)
       PROVE  Stay(loc, time, 1, last, place, allStays[place])
  <2>1. CASE place < n
    <3>1. place \in 0..n /\ stays[place] \in Nat /\ allStays[place] = stays[place]
      BY <2>1 DEF StaysMeet
    <3>2. Stay(loc, time, 1, m, place, stays[place])
      BY <1>14, <3>1
    <3>3. place \in Nat /\ place < loc[m]
      BY <1>10, <2>1
    <3>4. Stay(loc, time, 1, last, place, stays[place])
      BY <1>2, <1>13, <3>1, <3>2, <3>3, StayOfAPart
    <3>5. QED
      BY <3>1, <3>4
  <2>2. CASE place = n
    <3>1. stays[n] \in Nat /\ nextStays[0] \in Nat /\ allStays[n] = stays[n] + nextStays[0]
      BY DEF StaysMeet
    <3>2. Stay(loc, time, 1, m, loc[m], stays[n])
      BY <1>10, <1>14
    <3>3. Stay(loc, time, m, last, loc[m], nextStays[0])
      <4>1. Stay(loc, time, m, last, n + 0, nextStays[0])
        BY <1>15
      <4>2. n + 0 = n
        OBVIOUS
      <4>3. QED
        BY <1>10, <4>1, <4>2
    <3>4. Stay(loc, time, 1, last, loc[m], stays[n] + nextStays[0])
      BY <1>2, <1>13, <3>1, <3>2, <3>3, StaysThatMeet
    <3>5. QED
      BY <1>10, <2>2, <3>1, <3>4
  <2>3. CASE n < place
    <3>1. PICK k \in 1..more : place = n + k
      <4>1. place - n \in 1..more /\ place = n + (place - n)
        BY <2>3
      <4>2. QED
        BY <4>1
    <3>2. k \in 0..more /\ nextStays[k] \in Nat /\ allStays[place] = nextStays[k]
      BY <3>1 DEF StaysMeet
    <3>3. Stay(loc, time, m, last, place, nextStays[k])
      BY <1>15, <3>1, <3>2
    <3>4. place \in Nat /\ loc[m] < place
      BY <1>10, <2>3
    <3>5. Stay(loc, time, 1, last, place, nextStays[k])
      BY <1>2, <1>13, <3>2, <3>3, <3>4, StayOfAPart
    <3>6. QED
      BY <3>2, <3>5
  <2>4. QED
    BY <2>1, <2>2, <2>3
<1>17. loc[last] = n + more
  <2>1. len \in 1..len /\ last = len + by
    BY <1>2
  <2>2. loc[last] = loc2[len] + n
    BY <1>9, <2>1 DEF Shifted
  <2>3. QED
    BY <1>5, <2>2
<1>18. ASSUME NEW i \in 1..last
       PROVE  all[i].joints = 0 + loc[i]
  <2>1. CASE i <= m
    <3>1. i \in 1..m
      BY <2>1
    <3>2. QED
      BY <1>3, <1>4, <3>1
  <2>2. CASE m < i
    <3>1. i \in (m + 1)..last
      BY <1>2, <2>2
    <3>2. PICK k \in 1..len : loc[i] = loc2[k] + n /\ all[i].joints = next[k].joints
      BY <1>7, <3>1
    <3>3. next[k].joints = n + loc2[k] /\ loc2[k] \in Nat
      BY <1>2, <1>5
    <3>4. QED
      BY <3>2, <3>3
  <2>3. QED
    BY <1>2, <2>1, <2>2
<1>19. QED
  BY <1>1, <1>13, <1>16, <1>17, <1>18, PassingIsRising DEF all, loc, time, last

-------------------------------------------------------------------------------
(* The trajectories of the batches. *)

\* A wait passes no target and stays where it starts for as long as it says.
LEMMA WaitPasses ==
    ASSUME NEW start \in Nat, NEW duration \in Nat
    PROVE  LET points == BuildWaitTrajectory(start, duration)
           IN  /\ points \in Trajectory /\ Begins(points)
               /\ Passes(points, start, 0, [place \in {0} |-> duration])
               /\ Last(points).joints = start
<1> DEFINE steps == duration \div TimeStep + 1
           last == IF steps < 2 THEN 2 ELSE steps
           At(i) == IF i = last THEN duration ELSE (i - 1) * TimeStep
           points == [i \in 1..last |-> Point(start, 0, At(i))]
           loc == Locations(points)
           time == Times(points)
           stays == [place \in {0} |-> duration]
<1>1. last \in Nat /\ last >= 2 /\ (last - 2) * TimeStep <= duration
  BY DEF TimeStep
<1>2. \A i \in 1..last : At(i) \in Nat /\ At(i) <= duration
  BY <1>1 DEF TimeStep
<1>3. \A i, j \in 1..last : i <= j => At(i) <= At(j)
  BY <1>1, <1>2 DEF TimeStep
<1>4. At(1) = 0 /\ At(last) = duration
  BY <1>1 DEF TimeStep
<1>5. BuildWaitTrajectory(start, duration) = points
  BY DEF BuildWaitTrajectory
<1> HIDE DEF last, At
<1>6. ASSUME NEW i \in 1..last
      PROVE  /\ Point(start, 0, At(i)) \in PointType
             /\ Point(start, 0, At(i)).joints = start
             /\ Point(start, 0, At(i)).location = 0
             /\ Point(start, 0, At(i)).time = At(i)
  BY <1>2 DEF Point, PointType
<1>7. points \in Trajectory /\ Len(points) = last
  <2>1. points \in Seq(PointType) /\ Len(points) = last
    BY <1>1, <1>6
  <2>2. points # <<>>
    BY <1>1, <2>1
  <2>3. QED
    BY <2>1, <2>2 DEF Trajectory
<1>8. \A i \in 1..last : /\ points[i].joints = start
                         /\ points[i].location = 0 /\ points[i].time = At(i)
  BY <1>6
<1> HIDE DEF points
<1>9. /\ loc \in [1..last -> Nat] /\ time \in [1..last -> Nat]
      /\ \A i \in 1..last : loc[i] = 0 /\ time[i] = At(i)
      /\ Last(points) = points[last]
  BY <1>7, <1>8, PointTypes
<1> HIDE DEF loc, time
<1>10. Rises(loc, time, 1, last)
  BY <1>3, <1>9 DEF Rises
<1>11. 1 \in 1..last /\ last \in 1..last
  BY <1>1
<1>12. Stay(loc, time, 1, last, 0, duration)
  <2>1. time[1] = 0 /\ time[last] = duration /\ loc[1] = 0 /\ loc[last] = 0
    BY <1>4, <1>9, <1>11
  <2>2. \A i \in 1..last : time[1] <= time[i] /\ time[i] <= time[last]
    BY <1>2, <1>9, <2>1
  <2>3. time[last] = time[1] + duration
    BY <2>1
  <2>4. QED
    BY <1>11, <2>1, <2>2, <2>3 DEF Stay
<1>13. Begins(points) /\ Last(points).joints = start
  BY <1>4, <1>8, <1>9, <1>11 DEF Begins
<1>14. Passes(points, start, 0, stays)
  <2>1. \A place \in 0..0 : Stay(loc, time, 1, last, place, stays[place])
    <3>1. \A place \in 0..0 : place = 0 /\ stays[place] = duration
      OBVIOUS
    <3>2. QED
      BY <1>12, <3>1
  <2>2. loc[last] = 0
    BY <1>9, <1>11
  <2>3. \A i \in 1..last : points[i].joints = start + loc[i]
    BY <1>8, <1>9
  <2>4. QED
    BY <1>7, <1>10, <2>1, <2>2, <2>3, PassingIsRising DEF loc, time
<1>15. QED
  BY <1>5, <1>7, <1>13, <1>14

\* The motions of a batch are passed one after the other, without a stay.
LEMMA MotionsPass ==
    ASSUME NEW start \in Nat, NEW numMotions \in Nat, NEW times \in [0..numMotions -> Nat],
           times[0] = 0, \A i, j \in 0..numMotions : i < j => times[i] <= times[j]
    PROVE  LET points == PlannedMotions(numMotions, start, times)
           IN  /\ points \in Trajectory /\ Begins(points)
               /\ Passes(points, start, numMotions, [place \in 0..numMotions |-> 0])
               /\ Last(points).joints = start + numMotions
<1> DEFINE last == numMotions + 1
           At(k) == Point(start + k - 1, k - 1, times[k - 1])
           points == [k \in 1..last |-> At(k)]
           loc == Locations(points)
           time == Times(points)
           stays == [place \in 0..numMotions |-> 0]
<1>1. PlannedMotions(numMotions, start, times) = points
  BY DEF PlannedMotions
<1>2. ASSUME NEW k \in 1..last
      PROVE  /\ At(k) \in PointType
             /\ At(k).joints = start + k - 1
             /\ At(k).location = k - 1 /\ At(k).time = times[k - 1]
  <2>1. k - 1 \in 0..numMotions /\ start + k - 1 \in Nat /\ k - 1 \in Nat
    OBVIOUS
  <2>2. times[k - 1] \in Nat
    BY <2>1
  <2>3. QED
    BY <2>1, <2>2 DEF Point, PointType
<1> HIDE DEF At
<1>3. points \in Trajectory /\ Len(points) = last
  <2>1. points \in Seq(PointType) /\ Len(points) = last
    BY <1>2
  <2>2. points # <<>>
    BY <2>1
  <2>3. QED
    BY <2>1, <2>2 DEF Trajectory
<1>4. \A k \in 1..last : /\ points[k].joints = start + k - 1
                         /\ points[k].location = k - 1 /\ points[k].time = times[k - 1]
  BY <1>2
<1> HIDE DEF points
<1>5. /\ loc \in [1..last -> Nat] /\ time \in [1..last -> Nat]
      /\ \A k \in 1..last : loc[k] = k - 1 /\ time[k] = times[k - 1]
      /\ Last(points) = points[last]
  BY <1>3, <1>4, PointTypes
<1> HIDE DEF loc, time
<1>6. Rises(loc, time, 1, last)
  <2>1. ASSUME NEW i \in 1..last, NEW j \in 1..last, i <= j
        PROVE  loc[i] <= loc[j] /\ time[i] <= time[j]
    <3>1. loc[i] = i - 1 /\ time[i] = times[i - 1] /\ loc[j] = j - 1 /\ time[j] = times[j - 1]
      BY <1>5
    <3>2. CASE i = j
      BY <1>5, <3>2
    <3>3. CASE i < j
      <4>1. i - 1 \in 0..numMotions /\ j - 1 \in 0..numMotions /\ i - 1 < j - 1
        BY <3>3
      <4>2. QED
        BY <3>1, <4>1
    <3>4. QED
      BY <2>1, <3>2, <3>3
  <2>2. QED
    BY <2>1 DEF Rises
<1>7. ASSUME NEW place \in 0..numMotions
      PROVE  Stay(loc, time, 1, last, place, stays[place])
  <2>1. place + 1 \in 1..last /\ loc[place + 1] = place
    BY <1>5
  <2>2. \A i \in 1..last : loc[i] = place => i = place + 1
    BY <1>5
  <2>3. time[place + 1] \in Nat /\ stays[place] = 0
    BY <1>5, <2>1
  <2>4. time[place + 1] <= time[place + 1] /\ time[place + 1] = time[place + 1] + 0
    BY <2>3
  <2>5. QED
    BY <2>1, <2>2, <2>3, <2>4 DEF Stay
<1>8. 1 \in 1..last /\ last \in 1..last
  OBVIOUS
<1> HIDE DEF last, stays
<1>9. Begins(points) /\ Last(points).joints = start + numMotions
  <2>1. /\ points[1].location = 0 /\ points[1].time = times[0]
        /\ points[last].joints = start + numMotions
    BY <1>4, <1>8 DEF last
  <2>2. QED
    BY <1>5, <2>1 DEF Begins
<1>10. Passes(points, start, numMotions, stays)
  <2>1. loc[last] = numMotions
    BY <1>5, <1>8 DEF last
  <2>2. \A i \in 1..last : points[i].joints = start + loc[i]
    BY <1>4, <1>5
  <2>3. QED
    BY <1>3, <1>6, <1>7, <2>1, <2>2, PassingIsRising DEF loc, time
<1>11. QED
  BY <1>1, <1>3, <1>9, <1>10 DEF stays

-------------------------------------------------------------------------------
(* Planning. *)

\* The motions of a list are those of its first part and those of the rest.
LEMMA MotionsAddUp ==
    ASSUME NEW middle \in Nat, NEW last \in Nat, middle <= last
    PROVE  /\ NumMotions(1, last) \in Nat
           /\ NumMotions(middle + 1, last) \in Nat
           /\ NumMotions(1, last) = NumMotions(1, middle) + NumMotions(middle + 1, last)
           /\ NumMotions(1, last) <= last
<1> DEFINE S(a, b) == {i \in a..b : IsMotion(actions[i])}
<1>1. /\ IsFiniteSet(1..last) /\ Cardinality(1..last) = last
      /\ IsFiniteSet(1..middle) /\ IsFiniteSet((middle + 1)..last)
  BY FS_Interval
<1>2. /\ IsFiniteSet(S(1, last)) /\ Cardinality(S(1, last)) <= last
      /\ IsFiniteSet(S(1, middle)) /\ IsFiniteSet(S(middle + 1, last))
  <2>1. /\ S(1, last) \in SUBSET (1..last) /\ S(1, middle) \in SUBSET (1..middle)
        /\ S(middle + 1, last) \in SUBSET ((middle + 1)..last)
    OBVIOUS
  <2> HIDE DEF S
  <2>2. QED
    BY <1>1, <2>1, FS_Subset
<1>3. S(1, last) = S(1, middle) \cup S(middle + 1, last)
  OBVIOUS
<1>4. S(1, middle) \cap S(middle + 1, last) = {}
  OBVIOUS
<1>5. /\ NumMotions(1, last) = Cardinality(S(1, last))
      /\ NumMotions(1, middle) = Cardinality(S(1, middle))
      /\ NumMotions(middle + 1, last) = Cardinality(S(middle + 1, last))
  BY DEF NumMotions
<1> HIDE DEF S
<1>6. /\ Cardinality(S(1, last)) \in Nat /\ Cardinality(S(1, middle)) \in Nat
      /\ Cardinality(S(middle + 1, last)) \in Nat
  BY <1>2, FS_CardinalityType
<1>7. Cardinality(S(1, last)) = Cardinality(S(1, middle)) + Cardinality(S(middle + 1, last))
  <2>1. Cardinality(S(1, middle) \cup S(middle + 1, last)) =
           Cardinality(S(1, middle)) + Cardinality(S(middle + 1, last))
             - Cardinality(S(1, middle) \cap S(middle + 1, last))
    BY <1>2, FS_Union
  <2>2. Cardinality(S(1, middle) \cap S(middle + 1, last)) = 0
    BY <1>4, FS_EmptySet
  <2>3. QED
    BY <1>3, <1>6, <2>1, <2>2
<1>8. QED
  BY <1>2, <1>5, <1>6, <1>7

\* A wait is a batch of its own.
LEMMA WaitsAreAlone ==
    ASSUME actions \in Seq(Action), NEW first \in DOMAIN actions, NEW last \in DOMAIN actions,
           IsNextBatch(first, last)
    PROVE  /\ actions[first].kind = "wait" => last = first
           /\ actions[first].kind # "wait" =>
                \A i \in first..last : actions[i].kind # "wait"
<1>1. /\ Len(actions) \in Nat /\ first \in 1..Len(actions) /\ last \in first..Len(actions)
      /\ \A i \in first..(last - 1) : ~EndsBatch(i)
  BY DEF IsNextBatch
<1>2. ASSUME actions[first].kind = "wait", last # first
      PROVE  FALSE
  <2>1. first \in first..(last - 1)
    BY <1>1, <1>2
  <2>2. EndsBatch(first)
    BY <1>2 DEF EndsBatch, Alone
  <2>3. QED
    BY <1>1, <2>1, <2>2
<1>3. ASSUME actions[first].kind # "wait", NEW i \in first..last, actions[i].kind = "wait"
      PROVE  FALSE
  <2>1. i - 1 \in first..(last - 1) /\ (i - 1) + 1 = i
    BY <1>1, <1>3
  <2>2. EndsBatch(i - 1)
    BY <1>3, <2>1 DEF EndsBatch, Alone
  <2>3. QED
    BY <1>1, <2>1, <2>2
<1>4. QED
  BY <1>2, <1>3

\* The list is fixed; the rest follows what is planned of it.
PlanTypeOK ==
    /\ actions \in Seq(Action) /\ Len(actions) \in 1..MaxActions
    /\ planned \in 0..Len(actions)
    /\ planned = 0 => trajectory = <<>>
    /\ planned > 0 => trajectory \in Trajectory
    /\ refused \in BOOLEAN
    /\ held \in [0..Len(actions) -> Nat]

(***************************************************************************)
(* Where the next batch starts, and that nothing is held yet at a location *)
(* the plan has not come to.                                               *)
(***************************************************************************)
PlanInv ==
    /\ PlanTypeOK
    /\ joints = MotionsPlanned
    /\ \A place \in DOMAIN held : place > MotionsPlanned \/ planned = 0 => held[place] = 0
    /\ waited = {i \in 1..planned : actions[i].kind = "wait"}
    /\ PlanPassesTargets

\* Nothing is planned at the start.
LEMMA PlanInitInv == PlanInit => PlanInv
<1> SUFFICES ASSUME PlanInit PROVE PlanInv
  OBVIOUS
<1>1. PICK n \in 1..MaxActions : actions \in [1..n -> Action]
  BY MaxActionsAssumption DEF PlanInit
<1>2. actions \in Seq(Action) /\ Len(actions) = n /\ n \in Nat /\ n <= MaxActions
  BY <1>1, MaxActionsAssumption
<1>3. planned = 0 /\ joints = 0 /\ trajectory = <<>> /\ waited = {}
      /\ held = [place \in 0..Len(actions) |-> 0]
  BY DEF PlanInit
<1>4. refused \in BOOLEAN
  BY Zenon DEF PlanInit
<1>5. PlanTypeOK
  BY <1>2, <1>3, <1>4 DEF PlanTypeOK
<1>6. MotionsPlanned = 0
  <2>1. {i \in 1..planned : IsMotion(actions[i])} = {}
    BY <1>3
  <2>2. QED
    BY <2>1, FS_EmptySet DEF MotionsPlanned, NumMotions
<1>7. {i \in 1..planned : actions[i].kind = "wait"} = {}
  BY <1>3
<1>8. PlanPassesTargets
  BY <1>3 DEF PlanPassesTargets
<1>9. QED
  BY <1>3, <1>5, <1>6, <1>7, <1>8 DEF PlanInv

\* The stays of a plan once a batch is put at its end.
StaysAfter(next, first, last, nextStays) ==
    /\ held' \in [0..Len(actions) -> Nat]
    /\ StaysMeet(joints, NumMotions(first, last), held, nextStays, held')
    /\ \A place \in 0..Len(actions) :
          place > joints + NumMotions(first, last) => held'[place] = held[place]

(***************************************************************************)
(* A batch that passes its targets from where the plan ends continues the  *)
(* plan (motion_group.py:881-911).                                         *)
(***************************************************************************)
LEMMA BatchContinues ==
    ASSUME PlanInv, NEW first \in DOMAIN actions, NEW last \in DOMAIN actions,
           IsNextBatch(first, last), UNCHANGED <<actions, refused>>,
           NEW next \in Trajectory, NEW nextStays, Begins(next),
           Passes(next, joints, NumMotions(first, last), nextStays),
           Last(next).joints = joints + NumMotions(first, last),
           PlannedUpTo(last, next), StaysAfter(next, first, last, nextStays),
           waited' = {i \in 1..last : actions[i].kind = "wait"}
    PROVE  PlanInv'
<1> DEFINE more == NumMotions(first, last)
<1>1. /\ actions \in Seq(Action) /\ Len(actions) \in Nat
      /\ last \in Nat /\ last > 0 /\ planned \in Nat /\ planned <= last
      /\ last <= Len(actions) /\ first = planned + 1
      /\ joints = MotionsPlanned /\ held \in [0..Len(actions) -> Nat]
  BY DEF PlanInv, PlanTypeOK, IsNextBatch
<1>2. /\ joints \in Nat /\ more \in Nat /\ joints + more <= last
      /\ NumMotions(1, last) = joints + more
  <2>1. NumMotions(1, planned) \in Nat
    <3>1. 0 \in Nat /\ 0 <= planned
      BY <1>1
    <3>2. QED
      BY <1>1, <3>1, MotionsAddUp
  <2>2. QED
    BY <1>1, <2>1, MotionsAddUp DEF MotionsPlanned
<1>3. planned' = last /\ joints' = joints + more /\ trajectory' = Combined(trajectory, next)
  BY DEF PlannedUpTo
<1>4. MotionsPlanned' = joints + more
  <2>1. MotionsPlanned' = NumMotions(1, last)
    BY <1>3 DEF MotionsPlanned, NumMotions
  <2>2. QED
    BY <1>2, <2>1
<1>5. trajectory' \in Trajectory /\ Passes(trajectory', 0, joints + more, held')
  <2>1. CASE planned = 0
    <3>1. trajectory' = next /\ joints = 0
      <4>1. trajectory = <<>>
        BY <2>1 DEF PlanInv, PlanTypeOK
      <4>2. NumMotions(1, 0) = 0
        <5>1. {i \in 1..0 : IsMotion(actions[i])} = {}
          OBVIOUS
        <5>2. QED
          BY <5>1, FS_EmptySet DEF NumMotions
      <4>3. QED
        BY <1>1, <1>3, <2>1, <4>1, <4>2 DEF Combined, MotionsPlanned
    <3>2. \A place \in 0..more : held'[place] = nextStays[place]
      <4>1. TAKE place \in 0..more
      <4>2. CASE place = 0
        <5>1. held[0] = 0
          BY <1>1, <2>1 DEF PlanInv
        <5>2. held'[0] = held[0] + nextStays[0] /\ nextStays[0] \in Nat
          BY <1>2, <3>1 DEF StaysAfter, StaysMeet
        <5>3. QED
          BY <4>2, <5>1, <5>2
      <4>3. CASE place # 0
        <5>1. place \in 1..more /\ joints + place = place
          BY <3>1, <4>3
        <5>2. held'[joints + place] = nextStays[place]
          BY <5>1 DEF StaysAfter, StaysMeet
        <5>3. QED
          BY <5>1, <5>2
      <4>4. QED
        BY <4>2, <4>3
    <3>3. Passes(next, 0, more, nextStays)
      BY <3>1
    <3>4. Passes(next, 0, more, held')
      BY <3>2, <3>3 DEF Passes
    <3>5. QED
      BY <1>2, <3>1, <3>4
  <2>2. CASE planned > 0
    <3>1. trajectory \in Trajectory /\ Passes(trajectory, 0, joints, held)
      BY <1>1, <2>2 DEF PlanInv, PlanTypeOK, PlanPassesTargets
    <3>2. trajectory' \in Trajectory
      BY <1>3, <3>1, CombinedPoints
    <3>3. Passes(Combined(trajectory, next), 0, joints + more, held')
      BY <1>2, <3>1, CombinedPasses DEF StaysAfter
    <3>4. QED
      BY <1>3, <3>2, <3>3
  <2>3. QED
    BY <1>1, <2>1, <2>2
<1>6. ASSUME NEW place \in DOMAIN held', place > MotionsPlanned' \/ planned' = 0
      PROVE  held'[place] = 0
  <2>1. DOMAIN held' = 0..Len(actions) /\ DOMAIN held = 0..Len(actions)
    BY <1>1 DEF StaysAfter
  <2>2. place > joints + more
    BY <1>1, <1>3, <1>4, <1>6
  <2>3. held'[place] = held[place]
    BY <1>6, <2>1, <2>2 DEF StaysAfter
  <2>4. place > MotionsPlanned
    BY <1>1, <1>2, <2>1, <2>2
  <2>5. held[place] = 0
    BY <1>6, <2>1, <2>4 DEF PlanInv
  <2>6. QED
    BY <2>3, <2>5
<1>7. PlanTypeOK'
  BY <1>1, <1>3, <1>5 DEF PlanInv, PlanTypeOK, StaysAfter
<1>8. QED
  BY <1>3, <1>4, <1>5, <1>6, <1>7 DEF PlanInv, PlanPassesTargets

\* What the planning of a batch begins with.
LEMMA BatchToPlan ==
    ASSUME PlanInv, NEW first \in DOMAIN actions, NEW last \in DOMAIN actions,
           IsNextBatch(first, last)
    PROVE  /\ actions \in Seq(Action) /\ Len(actions) \in Nat
           /\ planned \in Nat /\ first = planned + 1
           /\ last \in Nat /\ first <= last /\ last <= Len(actions)
           /\ joints \in Nat /\ joints = MotionsPlanned /\ joints <= planned
           /\ NumMotions(first, last) \in Nat
           /\ joints + NumMotions(first, last) <= Len(actions)
           /\ held \in [0..Len(actions) -> Nat]
           /\ \A place \in 0..Len(actions) : place > joints => held[place] = 0
<1>1. /\ actions \in Seq(Action) /\ Len(actions) \in Nat
      /\ planned \in Nat /\ first = planned + 1
      /\ last \in Nat /\ first <= last /\ last <= Len(actions)
      /\ joints = MotionsPlanned /\ held \in [0..Len(actions) -> Nat]
  BY DEF PlanInv, PlanTypeOK, IsNextBatch
<1>2. NumMotions(1, planned) \in Nat /\ NumMotions(1, planned) <= planned
  <2>1. planned <= planned
    BY <1>1
  <2>2. QED
    BY <1>1, <2>1, MotionsAddUp
<1>3. /\ NumMotions(first, last) \in Nat
      /\ NumMotions(1, last) = NumMotions(1, planned) + NumMotions(first, last)
      /\ NumMotions(1, last) <= last
  <2>1. planned <= last
    BY <1>1
  <2>2. QED
    BY <1>1, <2>1, MotionsAddUp
<1>4. \A place \in 0..Len(actions) : place > joints => held[place] = 0
  BY <1>1 DEF PlanInv
<1>5. QED
  BY <1>1, <1>2, <1>3, <1>4 DEF MotionsPlanned

\* A batch of motions continues the plan.
LEMMA MotionsContinue == PlanInv /\ PlanMotions => PlanInv'
<1> SUFFICES ASSUME PlanInv, PlanMotions PROVE PlanInv'
  OBVIOUS
<1>1. PICK first \in DOMAIN actions, last \in DOMAIN actions :
         /\ IsNextBatch(first, last)
         /\ actions[first].kind # "wait"
         /\ \E times \in [0..NumMotions(first, last) -> MotionTimes \cup {0}] :
               /\ times[0] = 0
               /\ \A i, j \in DOMAIN times : i < j => times[i] <= times[j]
               /\ PlannedUpTo(last, PlannedMotions(NumMotions(first, last), joints, times))
         /\ UNCHANGED <<actions, refused, waited, held>>
  BY DEF PlanMotions
<1> DEFINE n == NumMotions(first, last)
           zero == [place \in 0..n |-> 0]
<1>2. /\ actions \in Seq(Action) /\ Len(actions) \in Nat
      /\ planned \in Nat /\ first = planned + 1
      /\ last \in Nat /\ first <= last /\ last <= Len(actions)
      /\ joints \in Nat /\ joints = MotionsPlanned /\ joints <= planned
      /\ n \in Nat /\ joints + n <= Len(actions)
      /\ held \in [0..Len(actions) -> Nat]
      /\ \A place \in 0..Len(actions) : place > joints => held[place] = 0
  BY <1>1, BatchToPlan
<1>3. PICK times \in [0..n -> MotionTimes \cup {0}] :
         /\ times[0] = 0
         /\ \A i, j \in DOMAIN times : i < j => times[i] <= times[j]
         /\ PlannedUpTo(last, PlannedMotions(n, joints, times))
  BY <1>1
<1>4. times \in [0..n -> Nat] /\ \A i, j \in 0..n : i < j => times[i] <= times[j]
  <2>1. MotionTimes \cup {0} \subseteq Nat
    BY TimesAssumption
  <2>2. times \in [0..n -> Nat] /\ DOMAIN times = 0..n
    BY <1>3, <2>1
  <2>3. QED
    BY <1>3, <2>2
<1> DEFINE next == PlannedMotions(n, joints, times)
<1>5. /\ next \in Trajectory /\ Begins(next)
      /\ Passes(next, joints, n, zero)
      /\ Last(next).joints = joints + n
  BY <1>2, <1>3, <1>4, MotionsPass
<1>6. PlannedUpTo(last, next)
  BY <1>3
<1>7. waited' = {i \in 1..last : actions[i].kind = "wait"}
  <2>1. \A i \in first..last : actions[i].kind # "wait"
    BY <1>1, <1>2, WaitsAreAlone
  <2>2. waited' = {i \in 1..planned : actions[i].kind = "wait"}
    BY <1>1 DEF PlanInv
  <2>3. {i \in 1..planned : actions[i].kind = "wait"}
           = {i \in 1..last : actions[i].kind = "wait"}
    BY <1>2, <2>1
  <2>4. QED
    BY <2>2, <2>3
<1>8. held' = held
  BY <1>1
<1> HIDE DEF n, next
<1>9. StaysMeet(joints, n, held, zero, held)
  <2>1. \A k \in 0..joints : held[k] \in Nat
    BY <1>2
  <2>2. \A k \in 0..n : zero[k] = 0
    OBVIOUS
  <2>3. held[joints] = held[joints] + zero[0]
    BY <1>2, <2>1, <2>2
  <2>4. \A k \in 1..n : held[joints + k] = zero[k]
    BY <1>2, <2>2
  <2>5. QED
    BY <2>1, <2>2, <2>3, <2>4 DEF StaysMeet
<1>10. StaysAfter(next, first, last, zero)
  BY <1>2, <1>8, <1>9 DEF StaysAfter, n
<1>11. UNCHANGED <<actions, refused>>
  BY <1>1
<1>12. QED
  BY <1>1, <1>5, <1>6, <1>7, <1>10, <1>11, BatchContinues DEF n

\* So does a wait: the location where the plan ends is held for longer.
LEMMA WaitContinues == PlanInv /\ PlanWait => PlanInv'
<1> SUFFICES ASSUME PlanInv, PlanWait PROVE PlanInv'
  OBVIOUS
<1>1. PICK first \in DOMAIN actions, last \in DOMAIN actions :
         /\ IsNextBatch(first, last)
         /\ actions[first].kind = "wait"
         /\ PlannedUpTo(last, BuildWaitTrajectory(joints, actions[first].duration))
         /\ waited' = waited \cup {first}
         /\ held' = [held EXCEPT ![MotionsPlanned] = @ + actions[first].duration]
         /\ UNCHANGED <<actions, refused>>
  BY DEF PlanWait
<1> DEFINE duration == actions[first].duration
           stays == [place \in {0} |-> duration]
           next == BuildWaitTrajectory(joints, duration)
<1>2. /\ actions \in Seq(Action) /\ Len(actions) \in Nat
      /\ planned \in Nat /\ first = planned + 1
      /\ last \in Nat /\ first <= last /\ last <= Len(actions)
      /\ joints \in Nat /\ joints = MotionsPlanned /\ joints <= planned
      /\ held \in [0..Len(actions) -> Nat]
      /\ \A place \in 0..Len(actions) : place > joints => held[place] = 0
  BY <1>1, BatchToPlan
<1>3. last = first
  BY <1>1, <1>2, WaitsAreAlone
<1>4. NumMotions(first, last) = 0
  <2>1. {i \in first..last : IsMotion(actions[i])} = {}
    <3>1. \A i \in first..last : i = first
      BY <1>2, <1>3
    <3>2. QED
      BY <1>1, <3>1 DEF IsMotion
  <2>2. QED
    BY <2>1, FS_EmptySet DEF NumMotions
<1>5. duration \in Nat
  <2>1. actions[first] \in Action
    BY <1>2
  <2>2. duration \in {0} \cup WaitDurations
    BY <2>1 DEF Action
  <2>3. {0} \cup WaitDurations \subseteq Nat
    BY TimesAssumption
  <2>4. QED
    BY <2>2, <2>3
<1>6. /\ next \in Trajectory /\ Begins(next)
      /\ Passes(next, joints, 0, stays)
      /\ Last(next).joints = joints
  BY <1>2, <1>5, WaitPasses
<1>7. waited' = {i \in 1..last : actions[i].kind = "wait"}
  <2>1. waited' = {i \in 1..planned : actions[i].kind = "wait"} \cup {first}
    BY <1>1 DEF PlanInv
  <2>2. \A i \in 1..last : i \in 1..planned \/ i = first
    BY <1>2, <1>3
  <2>3. 1..planned \subseteq 1..last /\ first \in 1..last
    BY <1>2
  <2>4. QED
    BY <1>1, <2>1, <2>2, <2>3
<1>8. held' = [held EXCEPT ![joints] = held[joints] + duration]
  BY <1>1, <1>2
<1>9. PlannedUpTo(last, next) /\ UNCHANGED <<actions, refused>>
  BY <1>1
<1> HIDE DEF next, duration
<1>10. /\ held' \in [0..Len(actions) -> Nat]
       /\ held'[joints] = held[joints] + duration
       /\ \A place \in 0..Len(actions) : place # joints => held'[place] = held[place]
  BY <1>2, <1>5, <1>8
<1>11. StaysMeet(joints, 0, held, stays, held')
  <2>1. \A k \in 0..0 : k = 0 /\ stays[k] = duration
    OBVIOUS
  <2>2. \A k \in 0..joints : held[k] \in Nat
    BY <1>2
  <2>3. \A k \in 0..(joints - 1) : held'[k] = held[k]
    BY <1>2, <1>10
  <2>4. held'[joints] = held[joints] + stays[0]
    BY <1>10, <2>1
  <2>5. QED
    BY <1>5, <2>1, <2>2, <2>3, <2>4 DEF StaysMeet
<1>12. StaysAfter(next, first, last, stays)
  BY <1>2, <1>4, <1>10, <1>11 DEF StaysAfter
<1>13. Last(next).joints = joints + 0
  BY <1>2, <1>6
<1>14. QED
  BY <1>1, <1>4, <1>6, <1>7, <1>9, <1>12, <1>13, BatchContinues

\* Planning keeps the invariant.
LEMMA PlanStep == PlanInv /\ [PlanNext]_planVars => PlanInv'
<1> SUFFICES ASSUME PlanInv, [PlanNext]_planVars PROVE PlanInv'
  OBVIOUS
<1>1. CASE PlanMotions
  BY <1>1, MotionsContinue
<1>2. CASE PlanWait
  BY <1>2, WaitContinues
<1>3. CASE PlanningFails \/ UNCHANGED planVars
  <2>1. UNCHANGED <<actions, planned, joints, trajectory, waited, held>>
    BY <1>3 DEF PlanningFails, planVars
  <2>2. refused' \in BOOLEAN
    BY <1>3, Zenon DEF PlanningFails, planVars, PlanInv, PlanTypeOK
  <2>3. MotionsPlanned' = MotionsPlanned
    BY <2>1 DEF MotionsPlanned, NumMotions
  <2>4. PlanTypeOK'
    BY <2>1, <2>2 DEF PlanInv, PlanTypeOK
  <2>5. PlanPassesTargets'
    BY <2>1, <2>3 DEF PlanInv, PlanPassesTargets
  <2>6. QED
    BY <2>1, <2>3, <2>4, <2>5 DEF PlanInv
<1>4. QED
  BY <1>1, <1>2, <1>3 DEF PlanNext

-------------------------------------------------------------------------------
(***************************************************************************)
(* The plan of any list, however long, takes the robot to the targets of   *)
(* its motions and holds it as long as its waits say (motion_group.py:     *)
(* 847-962).                                                               *)
(***************************************************************************)
THEOREM PlansPassTheTargets == PlanSpec => []PlanPassesTargets
<1>1. PlanInv => PlanPassesTargets
  BY DEF PlanInv
<1>2. QED
  BY <1>1, PlanInitInv, PlanStep, PTL DEF PlanSpec

(***************************************************************************)
(* A walk along a plan is a plan and a walk, so that what is proved of     *)
(* either holds of both together.                                          *)
(***************************************************************************)
THEOREM WalkIsPlannedFirst == Spec => PlanSpec /\ WalkSpec
<1>1. Init => PlanInit /\ WalkInit
  BY DEF Init
<1>2. [Next]_vars => [PlanNext]_planVars /\ [WalkNext]_walkVars
  BY DEF Next, vars
<1>3. QED
  BY <1>1, <1>2, PTL DEF Spec, PlanSpec, WalkSpec

(***************************************************************************)
(* Every plan ends at the number of the list's motions, so that no cursor  *)
(* refuses one (trajectory_cursor.py:536-544).                             *)
(***************************************************************************)
THEOREM CursorsAcceptPlans == Spec => [](planned = Len(actions) => CursorCreated)
<1> DEFINE AllMotions == NumMotions(1, Len(actions)) = NumActions
<1>1. Init => AllMotions
  BY DEF Init
<1>2. AllMotions /\ [PlanNext]_planVars => AllMotions'
  <2> SUFFICES ASSUME AllMotions, [PlanNext]_planVars PROVE AllMotions'
    OBVIOUS
  <2>1. UNCHANGED actions
    BY DEF PlanNext, PlanMotions, PlanWait, PlanningFails, planVars
  <2>2. QED
    BY <2>1 DEF NumMotions
<1>3. PlanInv /\ AllMotions => (planned = Len(actions) => CursorCreated)
  <2> SUFFICES ASSUME PlanInv, AllMotions, planned = Len(actions)
               PROVE  Last(trajectory).location = NumActions
    BY DEF CursorCreated
  <2>1. planned > 0
    BY DEF PlanInv, PlanTypeOK
  <2>2. Passes(trajectory, 0, MotionsPlanned, held)
    BY <2>1 DEF PlanInv, PlanPassesTargets
  <2>3. QED
    BY <2>2 DEF Passes, MotionsPlanned
<1>4. Spec => []PlanInv
  BY PlanInitInv, PlanStep, WalkIsPlannedFirst, PTL DEF PlanSpec
<1>5. Spec => []AllMotions
  BY <1>1, <1>2, WalkIsPlannedFirst, PTL DEF PlanSpec, Spec
<1>6. QED
  BY <1>3, <1>4, <1>5, PTL
===============================================================================
