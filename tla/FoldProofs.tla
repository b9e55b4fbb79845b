------------------------------ MODULE FoldProofs ------------------------------
(***************************************************************************)
(* What holds, for every value of the constants, of the nodes whose code    *)
(* runs over data of any length: the rays of a laser scan, the batches of a *)
(* recording, the samples of a lidar's scans, the nodes the launch files    *)
(* start, the driver's configuration file, and the poses of a plan.  The    *)
(* folds and recursive functions they are modelled with are defined on the  *)
(* naturals, and every fact of them is by induction up to a number          *)
(* (CountsUp).                                                              *)
(***************************************************************************)
EXTENDS NodeProofs

-----------------------------------------------------------------------------
(* A step of Nodes is one of the module whose scene runs, and none of the   *)
(* others.                                                                  *)

LEMMA LaserSteps == (Init => Laser!Init) /\ ([Next]_vars => [Laser!Next]_LaserVars)
<1>1. ASSUME Next, scene = "laser_scan" PROVE Laser!Next
  BY <1>1 DEF Next, Step
<1>2. ASSUME Next, scene # "laser_scan" PROVE UNCHANGED LaserVars
  BY <1>2 DEF Next, OthersStand
<1> QED BY <1>1, <1>2 DEF Init, vars, modules

LEMMA RecSteps == (Init => Rec!Init) /\ ([Next]_vars => [Rec!Next]_RecVars)
<1>1. ASSUME Next, scene = "record" PROVE Rec!Next
  BY <1>1 DEF Next, Step
<1>2. ASSUME Next, scene # "record" PROVE UNCHANGED RecVars
  BY <1>2 DEF Next, OthersStand
<1> QED BY <1>1, <1>2 DEF Init, vars, modules

LEMMA SyncSteps == (Init => Sync!Init) /\ ([Next]_vars => [Sync!Next]_SyncVars)
<1>1. ASSUME Next, scene = "scan_sync" PROVE Sync!Next
  BY <1>1 DEF Next, Step
<1>2. ASSUME Next, scene # "scan_sync" PROVE UNCHANGED SyncVars
  BY <1>2 DEF Next, OthersStand
<1> QED BY <1>1, <1>2 DEF Init, vars, modules

LEMMA FilesSteps == (Init => Files!Init) /\ ([Next]_vars => [Files!Next]_FilesVars)
<1>1. ASSUME Next, scene = "launch" PROVE Files!Next
  BY <1>1 DEF Next, Step
<1>2. ASSUME Next, scene # "launch" PROVE UNCHANGED FilesVars
  BY <1>2 DEF Next, OthersStand
<1> QED BY <1>1, <1>2 DEF Init, vars, modules

LEMMA PursuitSteps == (Init => Pursuit!Init) /\ ([Next]_vars => [Pursuit!Next]_PursuitVars)
<1>1. ASSUME Next, scene = "pursuit" PROVE Pursuit!Next
  BY <1>1 DEF Next, Step
<1>2. ASSUME Next, scene # "pursuit" PROVE UNCHANGED PursuitVars
  BY <1>2 DEF Next, OthersStand
<1> QED BY <1>1, <1>2 DEF Init, vars, modules

LEMMA StartupSteps == (Init => Startup!Init) /\ ([Next]_vars => [Startup!Next]_StartupVars)
<1>1. ASSUME Next, scene = "startup" PROVE Startup!Next
  BY <1>1 DEF Next, Step
<1>2. ASSUME Next, scene # "startup" PROVE UNCHANGED StartupVars
  BY <1>2 DEF Next, OthersStand
<1> QED BY <1>1, <1>2 DEF Init, vars, modules

-----------------------------------------------------------------------------
(* The listener thread of pointcloud_to_laserscan, and the scan made of any  *)
(* cloud.                                                                    *)

\* A thread that has ended left unsubscribed, and the destructor waits for it.
UnsubscribedInv ==
    (listener = "done" => ~subscribed) /\ (destructor = "done" => listener = "done")

LEMMA LaserKept ==
    /\ Laser!Init => UnsubscribedInv
    /\ UnsubscribedInv /\ [Laser!Next]_LaserVars => UnsubscribedInv'
<1>1. Laser!Init => UnsubscribedInv
  BY DEF Laser!Init, UnsubscribedInv
<1>2. ASSUME UnsubscribedInv, Laser!Thread PROVE UnsubscribedInv'
  BY <1>2 DEF UnsubscribedInv, Laser!Thread, Laser!LoopTest, Laser!FollowListeners,
              Laser!WaitEnds, Laser!LeaveLoop, Laser!Running
<1>3. ASSUME UnsubscribedInv, Laser!ListenersComeOrGo \/ Laser!ShutDownContext \/ Laser!BeginDestructor
                              \/ Laser!Join \/ Laser!TakeCloud \/ Laser!CallbackEnds
      PROVE  UnsubscribedInv'
  BY <1>3 DEF UnsubscribedInv, Laser!ListenersComeOrGo, Laser!ShutDownContext,
              Laser!BeginDestructor, Laser!Join, Laser!TakeCloud, Laser!CallbackEnds
<1>4. ASSUME UnsubscribedInv, UNCHANGED LaserVars PROVE UnsubscribedInv'
  BY <1>4 DEF UnsubscribedInv, LaserVars
<1> QED BY <1>1, <1>2, <1>3, <1>4 DEF Laser!Next

NoPoints == [i \in 0..Rays - 1 |-> Laser!Inf]

\* f holds the scans of the first 0, 1, ..., n points.
ScansUpTo(f, n, cloud) ==
    f = [i \in 0..n |-> IF i = 0 THEN NoPoints ELSE Laser!LookAt(f[i - 1], cloud[i])]

LEMMA ScansExist ==
    ASSUME NEW cloud, NEW m \in Nat
    PROVE  \E f : ScansUpTo(f, m, cloud)
<1> DEFINE S == {n \in 0..m : \E f : ScansUpTo(f, n, cloud)}
<1>1. 0 \in S
  <2> DEFINE g == [i \in 0..0 |-> NoPoints]
  <2>1. ScansUpTo(g, 0, cloud)
    BY DEF ScansUpTo
  <2> HIDE DEF g
  <2> QED BY <2>1
<1>2. ASSUME NEW n \in 1..m, n - 1 \in S PROVE n \in S
  <2>1. PICK g : ScansUpTo(g, n - 1, cloud)
    BY <1>2
  <2> DEFINE h == [i \in 0..n |-> IF i = n THEN Laser!LookAt(g[n - 1], cloud[n]) ELSE g[i]]
  <2>2. ASSUME NEW i \in 0..n
        PROVE  h[i] = IF i = 0 THEN NoPoints ELSE Laser!LookAt(h[i - 1], cloud[i])
    <3>1. CASE i = n
      <4>1. i - 1 \in 0..n /\ i - 1 # n /\ i # 0
        BY <3>1
      <4>2. h[i] = Laser!LookAt(g[n - 1], cloud[n]) /\ h[n - 1] = g[n - 1]
        BY <3>1, <4>1
      <4> HIDE DEF h
      <4> QED BY <3>1, <4>1, <4>2
    <3>2. CASE i # n
      <4>1. i \in 0..(n - 1)
        BY <3>2
      <4>2. g[i] = IF i = 0 THEN NoPoints ELSE Laser!LookAt(g[i - 1], cloud[i])
        BY <2>1, <4>1 DEF ScansUpTo
      <4>3. h[i] = g[i] /\ (i # 0 => h[i - 1] = g[i - 1])
        BY <3>2, <4>1
      <4> HIDE DEF h
      <4> QED BY <4>2, <4>3
    <3> QED BY <3>1, <3>2
  <2>3. h = [i \in 0..n |-> h[i]]
    OBVIOUS
  <2> HIDE DEF h
  <2>4. ScansUpTo(h, n, cloud)
    BY Zenon, <2>2, <2>3 DEF ScansUpTo
  <2> QED BY <2>4
<1>3. m \in S
  <2> HIDE DEF S
  <2>1. \A i \in 0..m : i \in S
    BY <1>1, <1>2, CountsUp
  <2> QED BY <2>1
<1> QED BY <1>3

LEMMA ScanIs ==
    ASSUME NEW cloud, Len(cloud) \in Nat
    PROVE  \E f : /\ Laser!ScanOf(cloud) = f[Len(cloud)]
                  /\ f[0] = NoPoints
                  /\ \A i \in 1..Len(cloud) : f[i] = Laser!LookAt(f[i - 1], cloud[i])
<1> DEFINE n == Len(cloud)
           f == CHOOSE g : ScansUpTo(g, n, cloud)
<1>1. Laser!ScanOf(cloud) = f[n]
  BY DEF Laser!ScanOf, ScansUpTo, NoPoints
<1>2. \E g : ScansUpTo(g, n, cloud)
  <2> HIDE DEF n
  <2> QED BY ScansExist DEF n
<1>3. ScansUpTo(f, n, cloud)
  BY <1>2
<1> HIDE DEF f
<1>4. f = [i \in 0..n |-> IF i = 0 THEN NoPoints ELSE Laser!LookAt(f[i - 1], cloud[i])]
  BY Zenon, <1>3 DEF ScansUpTo
<1>5. f[0] = NoPoints /\ \A i \in 1..n : f[i] = Laser!LookAt(f[i - 1], cloud[i])
  <2>1. n \in Nat
    OBVIOUS
  <2> HIDE DEF n
  <2>2. 0 \in 0..n /\ \A i \in 1..n : i \in 0..n /\ i # 0
    BY <2>1
  <2> QED BY Zenon, <1>4, <2>2
<1> QED BY <1>1, <1>5

\* r is the scan of the first n points.
NearestOf(r, cloud, n) ==
    /\ r \in [0..Rays - 1 -> Nat]
    /\ \A i \in 0..Rays - 1 :
          /\ \/ r[i] = Laser!Inf
             \/ \E k \in 1..n : /\ Laser!Accepted(cloud[k]) /\ Laser!Ray(cloud[k]) = i
                                /\ r[i] = cloud[k].range
          /\ \A k \in 1..n : Laser!Accepted(cloud[k]) /\ Laser!Ray(cloud[k]) = i
                                => r[i] <= cloud[k].range

LEMMA NearestLooked ==
    ASSUME NEW cloud, NEW n \in Nat \ {0}, cloud[n] \in Laser!Point, NEW r, NearestOf(r, cloud, n - 1),
           \A k \in 1..n : cloud[k].range \in Nat
    PROVE  NearestOf(Laser!LookAt(r, cloud[n]), cloud, n)
<1> DEFINE p == cloud[n]
           s == Laser!LookAt(r, p)
<1>1. p.range \in Nat /\ n \in 1..n
  OBVIOUS
<1>2. \A k \in 1..n : k \in 1..(n - 1) \/ k = n
  OBVIOUS
<1>3. s = IF Laser!Accepted(p) /\ Laser!Ray(p) < Rays /\ p.range < r[Laser!Ray(p)]
          THEN [r EXCEPT ![Laser!Ray(p)] = p.range] ELSE r
  BY DEF Laser!LookAt
<1>4. r \in [0..Rays - 1 -> Nat]
  BY DEF NearestOf
<1> HIDE DEF s
<1>5. s \in [0..Rays - 1 -> Nat]
  BY Zenon, <1>1, <1>3, <1>4
<1>6. ASSUME NEW i \in 0..Rays - 1
      PROVE  /\ \/ s[i] = Laser!Inf
                \/ \E k \in 1..n : /\ Laser!Accepted(cloud[k]) /\ Laser!Ray(cloud[k]) = i
                                   /\ s[i] = cloud[k].range
             /\ \A k \in 1..n : Laser!Accepted(cloud[k]) /\ Laser!Ray(cloud[k]) = i
                                   => s[i] <= cloud[k].range
  <2>1. /\ \/ r[i] = Laser!Inf
           \/ \E k \in 1..(n - 1) : /\ Laser!Accepted(cloud[k]) /\ Laser!Ray(cloud[k]) = i
                                    /\ r[i] = cloud[k].range
        /\ \A k \in 1..(n - 1) : Laser!Accepted(cloud[k]) /\ Laser!Ray(cloud[k]) = i
                                    => r[i] <= cloud[k].range
    BY DEF NearestOf
  <2>2. r[i] \in Nat
    BY <1>4
  <2>3. CASE Laser!Accepted(p) /\ p.range < r[i] /\ Laser!Ray(p) = i
    <3>1. s[i] = p.range
      BY <1>3, <1>4, <2>3, LaserAssumption
    <3>2. \A k \in 1..n : Laser!Accepted(cloud[k]) /\ Laser!Ray(cloud[k]) = i
                             => p.range <= cloud[k].range
      <4> TAKE k \in 1..n
      <4>1. CASE k = n
        BY <1>1, <4>1
      <4>2. CASE k \in 1..(n - 1)
        BY <1>1, <2>1, <2>2, <2>3, <4>2
      <4> QED BY <1>2, <4>1, <4>2
    <3> QED BY <1>1, <2>3, <3>1, <3>2
  <2>4. CASE ~(Laser!Accepted(p) /\ p.range < r[i] /\ Laser!Ray(p) = i)
    <3>1. s[i] = r[i]
      BY <1>3, <1>4, <2>4
    <3>2. Laser!Accepted(p) /\ Laser!Ray(p) = i => r[i] <= p.range
      BY <1>1, <2>2, <2>4
    <3>3. \A k \in 1..(n - 1) : k \in 1..n
      OBVIOUS
    <3> QED BY <1>2, <2>1, <3>1, <3>2, <3>3
  <2> QED BY <2>3, <2>4
<1> QED BY <1>5, <1>6 DEF NearestOf, s

\* A ray of the scan made of any cloud is the nearest accepted point of its sector,
\* or none, and only a point at angle_max is looked up past the last ray
\* (cloudCallback of PointCloudToLaserScanNode).
THEOREM RaysAreNearest ==
    ASSUME NEW cloud \in Seq(Laser!Point)
    PROVE  Laser!NearestPerRay(cloud)
<1> DEFINE n == Len(cloud)
<1>1. n \in Nat /\ \A k \in 1..n : cloud[k] \in Laser!Point
  OBVIOUS
<1>2. \A k \in 1..n : cloud[k].range \in Nat
  BY <1>1, LaserAssumption, SMTT(40) DEF Laser!Point, Laser!Inf
<1>3. PICK f : /\ Laser!ScanOf(cloud) = f[Len(cloud)] /\ f[0] = NoPoints
               /\ \A i \in 1..Len(cloud) : f[i] = Laser!LookAt(f[i - 1], cloud[i])
  BY <1>1, ScanIs
<1>4. DOMAIN cloud = 1..n
  OBVIOUS
<1>5. Laser!ScanOf(cloud) = f[n] /\ \A i \in 1..n : f[i] = Laser!LookAt(f[i - 1], cloud[i])
  BY <1>3
<1> HIDE DEF n
<1> DEFINE S == {i \in 0..n : NearestOf(f[i], cloud, i)}
<1>6. 0 \in S
  <2>1. Laser!Inf \in Nat
    BY LaserAssumption DEF Laser!Inf
  <2>2. NearestOf(NoPoints, cloud, 0)
    BY <2>1 DEF NearestOf, NoPoints
  <2> QED BY <1>1, <1>3, <2>2
<1>7. ASSUME NEW i \in 1..n, i - 1 \in S PROVE i \in S
  <2>1. i \in Nat \ {0} /\ i \in 0..n /\ \A k \in 1..i : k \in 1..n
    BY <1>1
  <2>2. NearestOf(f[i - 1], cloud, i - 1)
    BY <1>7
  <2>3. NearestOf(Laser!LookAt(f[i - 1], cloud[i]), cloud, i)
    BY <1>1, <1>2, <2>1, <2>2, NearestLooked
  <2> QED BY <1>5, <2>1, <2>3
<1>8. NearestOf(Laser!ScanOf(cloud), cloud, n)
  <2> HIDE DEF S
  <2>1. \A i \in 0..n : i \in S
    BY Zenon, <1>1, <1>6, <1>7, CountsUp
  <2>2. n \in S
    BY <1>1, <2>1
  <2> QED BY <1>5, <2>2 DEF S
<1>9. ASSUME NEW i \in 0..Rays - 1
      PROVE  LET near == {cloud[k].range : k \in {k \in DOMAIN cloud :
                                 Laser!Accepted(cloud[k]) /\ Laser!Ray(cloud[k]) = i}}
             IN  IF near = {} THEN Laser!ScanOf(cloud)[i] = Laser!Inf
                 ELSE Laser!ScanOf(cloud)[i] \in near /\ \A r \in near : Laser!ScanOf(cloud)[i] <= r
  <2> DEFINE near == {cloud[k].range : k \in {k \in DOMAIN cloud :
                                 Laser!Accepted(cloud[k]) /\ Laser!Ray(cloud[k]) = i}}
             x == Laser!ScanOf(cloud)[i]
  <2>1. \A r : r \in near <=> \E k \in 1..n : /\ Laser!Accepted(cloud[k]) /\ Laser!Ray(cloud[k]) = i
                                             /\ r = cloud[k].range
    BY <1>4
  <2>2. /\ \/ x = Laser!Inf
           \/ \E k \in 1..n : /\ Laser!Accepted(cloud[k]) /\ Laser!Ray(cloud[k]) = i
                              /\ x = cloud[k].range
        /\ \A k \in 1..n : Laser!Accepted(cloud[k]) /\ Laser!Ray(cloud[k]) = i
                              => x <= cloud[k].range
    BY <1>8 DEF NearestOf
  <2>3. \A k \in 1..n : Laser!Accepted(cloud[k]) => cloud[k].range < Laser!Inf
    BY <1>2, LaserAssumption DEF Laser!Accepted, Laser!Inf
  <2>4. \A k \in 1..n : cloud[k].range \in Nat /\ Laser!Inf \in Nat
    BY <1>2, LaserAssumption DEF Laser!Inf
  <2> HIDE DEF near, x
  <2>5. near = {} => x = Laser!Inf
    BY Zenon, <2>1, <2>2
  <2>6. near # {} => x \in near
    <3> SUFFICES ASSUME near # {}, x = Laser!Inf PROVE FALSE
      BY <2>1, <2>2
    <3>1. PICK k \in 1..n : Laser!Accepted(cloud[k]) /\ Laser!Ray(cloud[k]) = i
      BY <2>1
    <3>2. x <= cloud[k].range /\ cloud[k].range < Laser!Inf
      BY <2>2, <2>3, <3>1
    <3> QED BY <2>4, <3>2
  <2>7. \A r \in near : x <= r
    BY <2>1, <2>2
  <2> QED BY Zenon, <2>5, <2>6, <2>7 DEF near, x
<1>10. ASSUME Laser!Overruns(cloud)
       PROVE  \E k \in DOMAIN cloud : cloud[k].angle = AngleMax /\ AngleMax = Rays * Increment
  <2>1. PICK k \in DOMAIN cloud : Laser!Accepted(cloud[k]) /\ Laser!Ray(cloud[k]) >= Rays
    BY Zenon, <1>10 DEF Laser!Overruns
  <2> DEFINE a == cloud[k].angle
  <2>2. cloud[k] \in Laser!Point
    BY <1>1, <1>4
  <2>3. a \in Nat /\ a <= AngleMax /\ a \div Increment >= Rays
    BY <2>1, <2>2, LaserAssumption DEF Laser!Point, Laser!Accepted, Laser!Ray
  <2> HIDE DEF a
  <2>4. a >= Increment * (a \div Increment)
    BY <2>3, LaserAssumption
  <2>5. Increment * (a \div Increment) >= Increment * Rays
    <3>1. a \div Increment \in Nat
      BY <2>3, LaserAssumption
    <3>2. \A q, m, d \in Nat : q >= m => d * q >= d * m
      BY SMTT(30)
    <3> QED BY <2>3, <3>1, <3>2, LaserAssumption
  <2>6. Increment * Rays = Rays * Increment /\ Rays * Increment \in Nat
    BY LaserAssumption
  <2>7. a = AngleMax /\ AngleMax = Rays * Increment
    <3>1. Increment * (a \div Increment) \in Nat
      BY <2>3, LaserAssumption
    <3> QED BY <2>3, <2>4, <2>5, <2>6, <3>1, LaserAssumption
  <2> QED BY Zenon, <2>7 DEF a
<1> QED BY Zenon, <1>9, <1>10 DEF Laser!NearestPerRay

-----------------------------------------------------------------------------
(* The recording of the odin driver.                                         *)

LEMMA NatsJoined ==
    ASSUME NEW a \in Seq(Nat), NEW b \in Seq(Nat)
    PROVE  a \o b \in Seq(Nat) /\ Len(a \o b) = Len(a) + Len(b)
OBVIOUS

LEMMA NatsAssociative ==
    ASSUME NEW a \in Seq(Nat), NEW b \in Seq(Nat), NEW c \in Seq(Nat)
    PROVE  (a \o b) \o c = a \o (b \o c)
BY ConcatAssociative, SMTT(40)

LEMMA NatsNoneJoined ==
    ASSUME NEW a \in Seq(Nat)
    PROVE  a \o <<>> = a /\ <<>> \o a = a /\ <<>> \in Seq(Nat)
BY ConcatEmptySeq, EmptySeq

LEMMA NatsAppended ==
    ASSUME NEW a \in Seq(Nat), NEW b \in Seq(Nat), NEW x \in Nat
    PROVE  /\ Append(b, x) \in Seq(Nat) /\ Len(Append(b, x)) = Len(b) + 1
           /\ a \o Append(b, x) = Append(a \o b, x)
<1>1. Append(b, x) = b \o <<x>> /\ <<x>> \in Seq(Nat)
  OBVIOUS
<1>2. a \o (b \o <<x>>) = (a \o b) \o <<x>>
  BY <1>1, NatsAssociative
<1>3. Append(a \o b, x) = (a \o b) \o <<x>>
  <2>1. a \o b \in Seq(Nat)
    BY NatsJoined
  <2> HIDE <1>1, <1>2
  <2> QED BY <2>1
<1>4. Append(b, x) \in Seq(Nat) /\ Len(Append(b, x)) = Len(b) + 1
  OBVIOUS
<1> QED BY Zenon, <1>1, <1>2, <1>3, <1>4

\* s is what the batches of q say one after the other: rest[i] is what follows
\* batch i.
Queued(q, s) ==
    \E rest : /\ rest \in [0..Len(q) -> Seq(Nat)] /\ rest[0] = s /\ rest[Len(q)] = <<>>
              /\ \A i \in 1..Len(q) : rest[i - 1] = q[i] \o rest[i]

LEMMA QueuedNone == Queued(<<>>, <<>>)
<1> DEFINE r == [i \in 0..0 |-> <<>>]
<1>1. r \in [0..0 -> Seq(Nat)] /\ r[0] = <<>> /\ Len(<<>>) = 0
  OBVIOUS
<1> HIDE DEF r
<1> QED BY <1>1 DEF Queued

LEMMA QueuedLast ==
    ASSUME NEW q \in Seq(Seq(Nat)), NEW s, Queued(q, s), NEW b \in Seq(Nat)
    PROVE  Queued(Append(q, b), s \o b)
<1> DEFINE n == Len(q)  longer == Append(q, b)
<1>1. /\ n \in Nat /\ Len(longer) = n + 1 /\ longer[n + 1] = b
      /\ \A i \in 1..n : longer[i] = q[i] /\ q[i] \in Seq(Nat)
  OBVIOUS
<1>2. PICK r : /\ r \in [0..n -> Seq(Nat)] /\ r[0] = s /\ r[n] = <<>>
               /\ \A i \in 1..n : r[i - 1] = q[i] \o r[i]
  BY Zenon DEF Queued
<1> HIDE DEF n, longer
<1> DEFINE t == [i \in 0..(n + 1) |-> IF i = n + 1 THEN <<>> ELSE r[i] \o b]
<1>3. t[n + 1] = <<>> /\ \A i \in 0..n : t[i] = r[i] \o b
  BY <1>1
<1>4. ASSUME NEW i \in 0..n PROVE t[i] \in Seq(Nat)
  <2>1. r[i] \in Seq(Nat) /\ t[i] = r[i] \o b
    BY Zenon, <1>2, <1>3
  <2>2. r[i] \o b \in Seq(Nat)
    BY <2>1, NatsJoined
  <2> QED BY Zenon, <2>1, <2>2
<1>5. t \in [0..(n + 1) -> Seq(Nat)]
  <2>1. \A i \in 0..(n + 1) : i \in 0..n \/ i = n + 1
    BY <1>1
  <2>2. \A i \in 0..(n + 1) : t[i] \in Seq(Nat)
    BY Zenon, <1>3, <1>4, <2>1, EmptySeq
  <2>3. t = [i \in 0..(n + 1) |-> t[i]]
    OBVIOUS
  <2> HIDE DEF t
  <2> QED BY <2>2, <2>3
<1> HIDE DEF t
<1>6. t[0] = s \o b
  <2>1. 0 \in 0..n
    BY <1>1
  <2> QED BY Zenon, <1>2, <1>3, <2>1
<1>7. ASSUME NEW i \in 1..(n + 1) PROVE t[i - 1] = longer[i] \o t[i]
  <2>1. CASE i = n + 1
    <3>1. i - 1 = n /\ n \in 0..n
      BY <1>1, <2>1
    <3>2. t[n] = <<>> \o b /\ t[i] = <<>> /\ longer[i] = b
      BY Zenon, <1>1, <1>2, <1>3, <2>1, <3>1
    <3>3. <<>> \o b = b /\ b \o <<>> = b
      BY NatsNoneJoined
    <3> QED BY <3>1, <3>2, <3>3
  <2>2. CASE i # n + 1
    <3>1. i \in 1..n /\ i \in 0..n /\ i - 1 \in 0..n
      BY <1>1, <2>2
    <3>2. r[i - 1] = q[i] \o r[i] /\ q[i] \in Seq(Nat) /\ r[i] \in Seq(Nat) /\ longer[i] = q[i]
      BY Zenon, <1>1, <1>2, <3>1
    <3>3. t[i - 1] = r[i - 1] \o b /\ t[i] = r[i] \o b
      BY <1>3, <3>1
    <3>4. (q[i] \o r[i]) \o b = q[i] \o (r[i] \o b)
      BY Zenon, <3>2, NatsAssociative
    <3> QED BY <3>2, <3>3, <3>4
  <2> QED BY Zenon, <2>1, <2>2
<1> QED BY Zenon, <1>1, <1>3, <1>5, <1>6, <1>7 DEF Queued, longer

LEMMA QueuedFirst ==
    ASSUME NEW q \in Seq(Seq(Nat)), q # <<>>, NEW s, Queued(q, s)
    PROVE  \E t \in Seq(Nat) : Queued(Tail(q), t) /\ s = Head(q) \o t
<1> DEFINE m == Len(Tail(q))
<1>1. /\ m \in Nat /\ Len(q) = m + 1 /\ Head(q) = q[1]
      /\ \A i \in 1..m : Tail(q)[i] = q[i + 1]
  OBVIOUS
<1>2. PICK r : /\ r \in [0..Len(q) -> Seq(Nat)] /\ r[0] = s /\ r[Len(q)] = <<>>
               /\ \A i \in 1..Len(q) : r[i - 1] = q[i] \o r[i]
  BY Zenon DEF Queued
<1> DEFINE t == [i \in 0..m |-> r[i + 1]]
<1> HIDE DEF m
<1>3. \A i \in 0..m : t[i] = r[i + 1] /\ r[i + 1] \in Seq(Nat)
  BY <1>1, <1>2
<1>4. t \in [0..m -> Seq(Nat)]
  BY <1>3
<1>5. t[0] = r[1] /\ t[m] = <<>> /\ t[0] \in Seq(Nat)
  <2>1. 0 \in 0..m /\ m \in 0..m /\ 0 + 1 = 1
    BY <1>1
  <2>2. r[m + 1] = <<>>
    BY <1>1, <1>2
  <2> HIDE DEF t
  <2> QED BY Zenon, <1>3, <2>1, <2>2
<1>6. s = Head(q) \o r[1]
  <2>1. 1 \in 1..Len(q) /\ 1 - 1 = 0
    BY <1>1
  <2>2. r[1 - 1] = q[1] \o r[1]
    BY Zenon, <1>2, <2>1
  <2> QED BY Zenon, <1>1, <1>2, <2>1, <2>2
<1> HIDE DEF t
<1>7. ASSUME NEW i \in 1..m PROVE t[i - 1] = Tail(q)[i] \o t[i]
  <2>1. i \in 0..m /\ i - 1 \in 0..m /\ i + 1 \in 1..Len(q) /\ (i + 1) - 1 = i /\ (i - 1) + 1 = i
    BY <1>1
  <2>2. r[(i + 1) - 1] = q[i + 1] \o r[i + 1]
    BY Zenon, <1>2, <2>1
  <2>3. t[i - 1] = r[(i - 1) + 1] /\ t[i] = r[i + 1] /\ Tail(q)[i] = q[i + 1]
    BY <1>1, <1>3, <2>1
  <2> QED BY Zenon, <2>1, <2>2, <2>3
<1>8. Queued(Tail(q), t[0])
  BY Zenon, <1>4, <1>5, <1>7 DEF Queued, m
<1> QED BY Zenon, <1>5, <1>6, <1>8

\* f holds q[1], q[1] \o q[2], ... up to n.
Joins(f, n, q) == f = [i \in 1..n |-> IF i = 1 THEN q[i] ELSE f[i - 1] \o q[i]]

LEMMA JoinsExist ==
    ASSUME NEW q, NEW m \in Nat
    PROVE  \E f : Joins(f, m, q)
<1> DEFINE S == {n \in 0..m : \E f : Joins(f, n, q)}
<1>1. 0 \in S
  <2> DEFINE g == [i \in 1..0 |-> <<>>]
  <2>1. Joins(g, 0, q)
    BY DEF Joins
  <2> HIDE DEF g
  <2> QED BY <2>1
<1>2. ASSUME NEW n \in 1..m, n - 1 \in S PROVE n \in S
  <2>1. PICK g : Joins(g, n - 1, q)
    BY <1>2
  <2> DEFINE h == [i \in 1..n |-> IF i # n THEN g[i] ELSE IF n = 1 THEN q[n] ELSE g[n - 1] \o q[n]]
  <2>2. ASSUME NEW i \in 1..n PROVE h[i] = IF i = 1 THEN q[i] ELSE h[i - 1] \o q[i]
    <3>1. CASE i = n
      <4>1. n # 1 => n - 1 \in 1..n /\ n - 1 # n
        OBVIOUS
      <4>2. h[n] = (IF n = 1 THEN q[n] ELSE g[n - 1] \o q[n]) /\ (n # 1 => h[n - 1] = g[n - 1])
        BY <4>1
      <4> HIDE DEF h
      <4> QED BY <3>1, <4>2
    <3>2. CASE i # n
      <4>1. i \in 1..(n - 1)
        BY <3>2
      <4>2. g[i] = IF i = 1 THEN q[i] ELSE g[i - 1] \o q[i]
        BY Zenon, <2>1, <4>1 DEF Joins
      <4>3. h[i] = g[i] /\ (i # 1 => h[i - 1] = g[i - 1])
        BY <3>2, <4>1
      <4> HIDE DEF h
      <4> QED BY <4>2, <4>3
    <3> QED BY <3>1, <3>2
  <2>3. h = [i \in 1..n |-> h[i]]
    OBVIOUS
  <2> HIDE DEF h
  <2>4. Joins(h, n, q)
    BY Zenon, <2>2, <2>3 DEF Joins
  <2> QED BY <2>4
<1>3. m \in S
  <2> HIDE DEF S
  <2>1. \A i \in 0..m : i \in S
    BY <1>1, <1>2, CountsUp
  <2> QED BY <2>1
<1> QED BY <1>3

LEMMA QueuedIsFlat ==
    ASSUME NEW q \in Seq(Seq(Nat)), NEW s, Queued(q, s)
    PROVE  Rec!FlattenSeq(q) = s
<1> DEFINE n == Len(q)
           f == CHOOSE g : Joins(g, n, q)
<1>1. /\ n \in Nat /\ \A i \in 1..n : q[i] \in Seq(Nat)
      /\ n = 0 => q = <<>>
  OBVIOUS
<1>2. Rec!FlattenSeq(q) = IF n = 0 THEN q ELSE f[n]
  BY DEF Rec!FlattenSeq, Joins
<1>3. PICK r : /\ r \in [0..n -> Seq(Nat)] /\ r[0] = s /\ r[n] = <<>>
               /\ \A i \in 1..n : r[i - 1] = q[i] \o r[i]
  BY Zenon DEF Queued
<1>4. CASE n = 0
  <2> HIDE DEF n, f
  <2> QED BY <1>1, <1>2, <1>3, <1>4
<1>5. CASE n # 0
  <2>1. Joins(f, n, q)
    <3>1. \E g : Joins(g, n, q)
      <4> HIDE DEF n
      <4> QED BY Zenon, <1>1, JoinsExist
    <3> QED BY <3>1
  <2> HIDE DEF n, f
  <2>2. \A i \in 1..n : f[i] = IF i = 1 THEN q[i] ELSE f[i - 1] \o q[i]
    BY Zenon, <2>1 DEF Joins
  <2> DEFINE S == {i \in 0..n : i # 0 => f[i] \in Seq(Nat) /\ f[i] \o r[i] = s}
  <2>3. 0 \in S
    BY <1>1
  <2>4. ASSUME NEW i \in 1..n, i - 1 \in S PROVE i \in S
    <3>1. i \in 0..n /\ i - 1 \in 0..n /\ i # 0
      BY <1>1
    <3>2. q[i] \in Seq(Nat) /\ r[i] \in Seq(Nat) /\ r[i - 1] = q[i] \o r[i]
      BY Zenon, <1>1, <1>3, <3>1
    <3>3. CASE i = 1
      <4>1. f[i] = q[i] /\ r[i - 1] = s
        BY <1>3, <2>2, <3>3
      <4> QED BY Zenon, <3>1, <3>2, <4>1
    <3>4. CASE i # 1
      <4>1. f[i] = f[i - 1] \o q[i] /\ f[i - 1] \in Seq(Nat) /\ f[i - 1] \o r[i - 1] = s
        <5>1. i - 1 # 0
          BY <3>1, <3>4
        <5>2. f[i - 1] \in Seq(Nat) /\ f[i - 1] \o r[i - 1] = s
          BY Zenon, <2>4, <5>1
        <5> HIDE DEF S
        <5> QED BY Zenon, <2>2, <3>4, <5>2
      <4>2. (f[i - 1] \o q[i]) \o r[i] = f[i - 1] \o (q[i] \o r[i]) /\ f[i - 1] \o q[i] \in Seq(Nat)
        BY Zenon, <3>2, <4>1, NatsAssociative, NatsJoined
      <4>3. f[i] \in Seq(Nat) /\ f[i] \o r[i] = s
        BY Zenon, <3>2, <4>1, <4>2
      <4> QED BY Zenon, <3>1, <4>3
    <3> QED BY Zenon, <3>3, <3>4
  <2>5. n \in S
    <3> HIDE DEF S
    <3>1. \A i \in 0..n : i \in S
      BY Zenon, <1>1, <2>3, <2>4, CountsUp
    <3> QED BY <1>1, <3>1
  <2>6. f[n] \in Seq(Nat) /\ f[n] \o <<>> = s
    BY Zenon, <1>3, <1>5, <2>5
  <2> QED BY <1>2, <1>5, <2>6, NatsNoneJoined
<1> QED BY <1>4, <1>5

\* The types.
RecTyped ==
    /\ cloud_index_ \in Nat /\ holds \in [Callbacks -> Nat \cup {-1}]
    /\ {pending, batch, Rec_file, enqueued, online} \subseteq Seq(Nat)
    /\ write_queue \in Seq(Seq(Nat)) /\ stop \in BOOLEAN
    /\ index_count \in Nat /\ wcwi_index_ \in Nat

\* What was handed over is in the file, with the thread, queued or pending, in
\* this order; after the end, frames nobody counts on may follow.
HandedOver ==
    \E s \in Seq(Nat) :
        /\ Queued(write_queue, s)
        /\ ~stop => enqueued = ((Rec_file \o batch) \o s) \o pending
        /\ stop => \E late \in Seq(Nat) : (Rec_file \o batch) \o s = enqueued \o late

\* The thread ends after the last batch, and the destructor after the thread.
EndsInOrder ==
    /\ worker # "write" => batch = <<>>
    /\ worker = "ended" /\ opened => stop /\ \E late \in Seq(Nat) : Rec_file = enqueued \o late
    /\ logger = "gone" => worker = "ended"
    /\ stop <=> logger # "up"

OneCallback == \E c \in Callbacks : Callbacks = {c}

\* Every number is a frame's or a callback's, and of a single callback the
\* numbers are in order.
NumbersApart ==
    /\ \A i \in 1..Len(enqueued) : enqueued[i] < cloud_index_
    /\ \A i, j \in 1..Len(enqueued) :
          i < j => enqueued[i] # enqueued[j] /\ (OneCallback => enqueued[i] < enqueued[j])
    /\ \A c \in Callbacks : holds[c] # -1 =>
          /\ holds[c] < cloud_index_
          /\ \A i \in 1..Len(enqueued) :
                enqueued[i] # holds[c] /\ (OneCallback => enqueued[i] < holds[c])
          /\ \A d \in Callbacks : d # c => holds[d] # holds[c]

ListNumbered ==
    /\ \A i \in 1..Len(online) : online[i] = i - 1
    /\ Len(online) = index_count /\ index_count <= wcwi_index_

RecInv == RecTyped /\ HandedOver /\ EndsInOrder /\ NumbersApart /\ Rec!LessThanBatch /\ ListNumbered

LEMMA RecInit == Rec!Init => RecInv
<1> SUFFICES ASSUME Rec!Init PROVE RecInv
  OBVIOUS
<1> USE DEF Rec!Init
<1>1. RecTyped
  BY Zenon, EmptySeq DEF RecTyped, Rec!NoFrame
<1>2. HandedOver
  <2>1. <<>> \in Seq(Nat) /\ <<>> \o <<>> = <<>>
    BY NatsNoneJoined
  <2> QED BY Zenon, <2>1, QueuedNone DEF HandedOver
<1>3. EndsInOrder
  BY DEF EndsInOrder
<1>4. NumbersApart
  BY DEF NumbersApart, Rec!NoFrame
<1>5. Rec!LessThanBatch /\ ListNumbered
  BY RecordAssumption DEF Rec!LessThanBatch, ListNumbered
<1> QED BY <1>1, <1>2, <1>3, <1>4, <1>5 DEF RecInv

\* What the thread and the list do not touch.
LEMMA RecIdle ==
    ASSUME RecInv, UNCHANGED <<pending, write_queue, stop, batch, Rec_file, enqueued>>
    PROVE  HandedOver' /\ Rec!LessThanBatch'
<1>1. HandedOver'
  BY Zenon DEF RecInv, HandedOver
<1> QED BY <1>1 DEF RecInv, Rec!LessThanBatch

LEMMA RecTakeIndex ==
    ASSUME RecInv, NEW c \in Callbacks, NEW points \in 0..1, Rec!TakeIndex(c, points)
    PROVE  RecInv'
<1>1. /\ holds[c] = -1 /\ holds' = [holds EXCEPT ![c] = cloud_index_] /\ cloud_index_' = cloud_index_ + 1
      /\ UNCHANGED <<pending, write_queue, stop, worker, batch, opened, Rec_file, logger,
                     enqueued, index_count, wcwi_index_, online>>
  BY DEF Rec!TakeIndex, Rec!writer, Rec!thread, Rec!rotations, Rec!NoFrame
<1>2. cloud_index_ \in Nat /\ holds \in [Callbacks -> Nat \cup {-1}] /\ enqueued \in Seq(Nat)
  BY DEF RecInv, RecTyped
<1>3. RecTyped'
  BY <1>1, <1>2 DEF RecInv, RecTyped
<1>4. HandedOver' /\ Rec!LessThanBatch'
  BY <1>1, RecIdle
<1>5. EndsInOrder' /\ ListNumbered'
  BY Zenon, <1>1 DEF RecInv, EndsInOrder, ListNumbered
<1>6. NumbersApart'
  <2>1. \A i \in 1..Len(enqueued) : enqueued[i] \in Nat /\ enqueued[i] < cloud_index_
    BY <1>2 DEF RecInv, NumbersApart
  <2>2. \A i \in 1..Len(enqueued) : enqueued[i] < cloud_index_ + 1
    BY <1>2, <2>1
  <2>3. \A i, j \in 1..Len(enqueued) :
           i < j => enqueued[i] # enqueued[j] /\ (OneCallback => enqueued[i] < enqueued[j])
    BY DEF RecInv, NumbersApart
  <2>4. ASSUME NEW d \in Callbacks, holds'[d] # -1
        PROVE  /\ holds'[d] < cloud_index_ + 1
               /\ \A i \in 1..Len(enqueued) :
                     enqueued[i] # holds'[d] /\ (OneCallback => enqueued[i] < holds'[d])
               /\ \A e \in Callbacks : e # d => holds'[e] # holds'[d]
    <3>1. \A e \in Callbacks : holds[e] # -1 => holds[e] < cloud_index_
      BY DEF RecInv, NumbersApart
    <3>2. \A e \in Callbacks : e # c => holds'[e] = holds[e]
      BY <1>1, <1>2
    <3>3. holds'[c] = cloud_index_
      BY <1>1, <1>2
    <3>4. CASE d = c
      BY <1>2, <2>1, <3>1, <3>2, <3>3, <3>4
    <3>5. CASE d # c
      <4>1. /\ holds[d] < cloud_index_ /\ holds[d] \in Nat /\ holds'[d] = holds[d]
            /\ \A i \in 1..Len(enqueued) :
                  enqueued[i] # holds[d] /\ (OneCallback => enqueued[i] < holds[d])
            /\ \A e \in Callbacks : e # d => holds[e] # holds[d]
        BY <1>2, <2>4, <3>2, <3>5 DEF RecInv, NumbersApart
      <4> QED BY <1>2, <3>2, <3>3, <4>1
    <3> QED BY <3>4, <3>5
  <2> QED BY <1>1, <2>2, <2>3, <2>4 DEF NumbersApart, OneCallback
<1> QED BY <1>3, <1>4, <1>5, <1>6 DEF RecInv

LEMMA RecRotate ==
    ASSUME RecInv, NEW opens \in BOOLEAN, Rec!recordrotate(opens)
    PROVE  RecInv'
<1>1. /\ wcwi_index_' = wcwi_index_ + 1
      /\ UNCHANGED <<cloud_index_, holds, pending, write_queue, stop, worker, batch, opened,
                     Rec_file, logger, enqueued>>
  BY DEF Rec!recordrotate, Rec!writer, Rec!thread
<1>2. HandedOver' /\ Rec!LessThanBatch'
  BY <1>1, RecIdle
<1>3. EndsInOrder' /\ NumbersApart'
  BY <1>1 DEF RecInv, EndsInOrder, NumbersApart, OneCallback
<1>4. /\ index_count \in Nat /\ wcwi_index_ \in Nat /\ online \in Seq(Nat)
      /\ \A i \in 1..Len(online) : online[i] = i - 1
      /\ Len(online) = index_count /\ index_count <= wcwi_index_
  BY DEF RecInv, RecTyped, ListNumbered
<1>5. online' \in Seq(Nat) /\ index_count' \in Nat /\ wcwi_index_' \in Nat /\ ListNumbered'
  <2>1. CASE opens
    <3>1. online' = Append(online, index_count) /\ index_count' = index_count + 1
      <4>1. index_count = 0 => online = <<>>
        BY <1>4
      <4> QED BY <2>1, <4>1 DEF Rec!recordrotate
    <3>2. /\ Len(online') = index_count + 1 /\ online' \in Seq(Nat)
          /\ \A i \in 1..index_count : online'[i] = online[i]
          /\ online'[index_count + 1] = index_count
      BY <1>4, <3>1
    <3>3. \A i \in 1..(index_count + 1) : online'[i] = i - 1
      BY <1>4, <3>2
    <3> QED BY <1>1, <1>4, <3>1, <3>2, <3>3 DEF ListNumbered
  <2>2. CASE ~opens
    BY <1>1, <1>4, <2>2 DEF Rec!recordrotate, ListNumbered
  <2> QED BY <2>1, <2>2
<1>6. RecTyped'
  BY <1>1, <1>5 DEF RecInv, RecTyped
<1> QED BY <1>2, <1>3, <1>5, <1>6 DEF RecInv

LEMMA RecOpenFile ==
    ASSUME RecInv, NEW opens \in BOOLEAN, Rec!OpenFile(opens)
    PROVE  RecInv'
<1>1. /\ worker = "open" /\ opened' = opens /\ worker' = IF opens THEN "wait" ELSE "ended"
      /\ UNCHANGED <<cloud_index_, holds, pending, write_queue, stop, batch, Rec_file, logger,
                     enqueued, index_count, wcwi_index_, online>>
  BY DEF Rec!OpenFile, Rec!Idle, Rec!writer, Rec!rotations
<1>2. HandedOver' /\ Rec!LessThanBatch'
  BY <1>1, RecIdle
<1>3. EndsInOrder'
  BY <1>1 DEF RecInv, EndsInOrder
<1>4. RecTyped' /\ NumbersApart' /\ ListNumbered'
  BY <1>1 DEF RecInv, RecTyped, NumbersApart, ListNumbered, OneCallback
<1> QED BY <1>2, <1>3, <1>4 DEF RecInv

LEMMA RecWriteBatch ==
    ASSUME RecInv, Rec!WriteBatch
    PROVE  RecInv'
<1>1. /\ worker = "write" /\ worker' = "wait" /\ Rec_file' = Rec_file \o batch /\ batch' = <<>>
      /\ UNCHANGED <<cloud_index_, holds, pending, write_queue, stop, opened, logger,
                     enqueued, index_count, wcwi_index_, online>>
  BY DEF Rec!WriteBatch, Rec!Idle, Rec!writer, Rec!rotations
<1>2. Rec_file \in Seq(Nat) /\ batch \in Seq(Nat)
  BY DEF RecInv, RecTyped
<1>3. Rec_file' \in Seq(Nat) /\ batch' \in Seq(Nat) /\ Rec_file' \o batch' = Rec_file \o batch
  BY <1>1, <1>2, NatsJoined, NatsNoneJoined
<1>4. RecTyped'
  BY <1>1, <1>3 DEF RecInv, RecTyped
<1>5. HandedOver'
  <2> HIDE <1>2
  <2> QED BY Zenon, <1>1, <1>3 DEF RecInv, HandedOver
<1>6. EndsInOrder'
  BY <1>1 DEF RecInv, EndsInOrder
<1>7. NumbersApart' /\ ListNumbered' /\ Rec!LessThanBatch'
  BY <1>1 DEF RecInv, NumbersApart, ListNumbered, OneCallback, Rec!LessThanBatch
<1> QED BY <1>4, <1>5, <1>6, <1>7 DEF RecInv

LEMMA RecTakeBatch ==
    ASSUME RecInv, Rec!TakeBatch
    PROVE  RecInv'
<1>1. /\ worker = "wait"
      /\ UNCHANGED <<cloud_index_, holds, pending, stop, opened, Rec_file, logger, enqueued,
                     index_count, wcwi_index_, online>>
  BY DEF Rec!TakeBatch, Rec!writer, Rec!rotations
<1>2. Rec_file \in Seq(Nat) /\ batch = <<>> /\ write_queue \in Seq(Seq(Nat))
  BY <1>1 DEF RecInv, RecTyped, EndsInOrder
<1>3. NumbersApart' /\ ListNumbered' /\ Rec!LessThanBatch'
  BY <1>1 DEF RecInv, NumbersApart, ListNumbered, OneCallback, Rec!LessThanBatch
<1>4. PICK s \in Seq(Nat) :
         /\ Queued(write_queue, s)
         /\ ~stop => enqueued = ((Rec_file \o batch) \o s) \o pending
         /\ stop => \E late \in Seq(Nat) : (Rec_file \o batch) \o s = enqueued \o late
  BY Zenon DEF RecInv, HandedOver
<1>5. (Rec_file \o batch) \o s = Rec_file \o s
  BY <1>2, NatsNoneJoined
<1>6. CASE write_queue # <<>>
  <2>1. batch' = Head(write_queue) /\ write_queue' = Tail(write_queue) /\ worker' = "write"
    BY <1>6 DEF Rec!TakeBatch
  <2>2. batch' \in Seq(Nat) /\ write_queue' \in Seq(Seq(Nat))
    BY <1>2, <1>6, <2>1
  <2>3. PICK t \in Seq(Nat) : Queued(write_queue', t) /\ s = batch' \o t
    BY Zenon, <1>2, <1>4, <1>6, <2>1, QueuedFirst
  <2>4. (Rec_file' \o batch') \o t = Rec_file \o s
    BY Zenon, <1>1, <1>2, <2>2, <2>3, NatsAssociative
  <2>5. HandedOver'
    <3>1. ~stop' => enqueued' = ((Rec_file' \o batch') \o t) \o pending'
      BY <1>1, <1>4, <1>5, <2>4
    <3>2. stop' => \E late \in Seq(Nat) : (Rec_file' \o batch') \o t = enqueued' \o late
      BY Zenon, <1>1, <1>4, <1>5, <2>4
    <3> QED BY Zenon, <2>3, <3>1, <3>2 DEF HandedOver
  <2>6. RecTyped'
    BY <1>1, <2>2 DEF RecInv, RecTyped
  <2>7. EndsInOrder'
    BY <1>1, <2>1 DEF RecInv, EndsInOrder
  <2> QED BY <1>3, <2>5, <2>6, <2>7 DEF RecInv
<1>7. CASE write_queue = <<>>
  <2>1. worker' = "ended" /\ UNCHANGED <<batch, write_queue>> /\ stop
    BY <1>7 DEF Rec!TakeBatch
  <2>2. s = <<>>
    BY <1>4, <1>7 DEF Queued
  <2>3. \E late \in Seq(Nat) : Rec_file = enqueued \o late
    BY Zenon, <1>2, <1>4, <1>5, <2>1, <2>2, NatsNoneJoined
  <2>4. EndsInOrder'
    BY Zenon, <1>1, <1>2, <2>1, <2>3 DEF RecInv, EndsInOrder
  <2>5. HandedOver'
    BY Zenon, <1>1, <2>1 DEF RecInv, HandedOver
  <2>6. RecTyped'
    BY <1>1, <2>1 DEF RecInv, RecTyped
  <2> QED BY <1>3, <2>4, <2>5, <2>6 DEF RecInv
<1> QED BY <1>6, <1>7

\* What is written and queued, with the pending frames queued behind it.
LEMMA WaySwapped ==
    ASSUME RecInv, NEW s \in Seq(Nat), NEW p \in Seq(Nat)
    PROVE  /\ Rec_file \o batch \in Seq(Nat) /\ (Rec_file \o batch) \o s \in Seq(Nat)
           /\ (Rec_file \o batch) \o (s \o p) = ((Rec_file \o batch) \o s) \o p
<1>1. Rec_file \in Seq(Nat) /\ batch \in Seq(Nat)
  BY DEF RecInv, RecTyped
<1> DEFINE a == Rec_file \o batch
<1>2. a \in Seq(Nat)
  BY <1>1, NatsJoined
<1> HIDE DEF a
<1>3. a \o s \in Seq(Nat) /\ (a \o s) \o p = a \o (s \o p)
  BY ONLY Zenon, <1>2, NatsJoined, NatsAssociative, s \in Seq(Nat), p \in Seq(Nat)
<1> QED BY <1>2, <1>3 DEF a

LEMMA RecShutdown ==
    ASSUME RecInv, Rec!Shutdown
    PROVE  RecInv'
<1>1. /\ logger = "up" /\ logger' = "joining" /\ stop' = TRUE /\ pending' = <<>>
      /\ write_queue' = IF pending = <<>> THEN write_queue ELSE Append(write_queue, pending)
      /\ UNCHANGED <<cloud_index_, holds, worker, batch, opened, Rec_file, enqueued,
                     index_count, wcwi_index_, online>>
  BY DEF Rec!Shutdown, Rec!thread, Rec!rotations
<1>2. ~stop /\ pending \in Seq(Nat) /\ write_queue \in Seq(Seq(Nat)) /\ enqueued \in Seq(Nat)
  BY <1>1 DEF RecInv, RecTyped, EndsInOrder
<1>3. NumbersApart' /\ ListNumbered' /\ Rec!LessThanBatch'
  <2>1. NumbersApart' /\ ListNumbered'
    BY <1>1 DEF RecInv, NumbersApart, ListNumbered, OneCallback
  <2>2. Rec!LessThanBatch'
    BY <1>1, RecordAssumption DEF Rec!LessThanBatch
  <2> QED BY <2>1, <2>2
<1>4. EndsInOrder'
  <2>1. worker = "ended" /\ opened => FALSE
    BY <1>2 DEF RecInv, EndsInOrder
  <2> QED BY <1>1, <2>1 DEF RecInv, EndsInOrder
<1>5. pending' \in Seq(Nat) /\ write_queue' \in Seq(Seq(Nat))
  BY <1>1, <1>2, EmptySeq
<1>6. RecTyped'
  BY <1>1, <1>5 DEF RecInv, RecTyped
<1>7. PICK s \in Seq(Nat) :
         Queued(write_queue, s) /\ enqueued = ((Rec_file \o batch) \o s) \o pending
  BY Zenon, <1>2 DEF RecInv, HandedOver
<1>8. Queued(write_queue', s \o pending)
  <2>1. CASE pending = <<>>
    BY <1>1, <1>7, <2>1, NatsNoneJoined
  <2>2. CASE pending # <<>>
    BY <1>1, <1>2, <1>7, <2>2, QueuedLast
  <2> QED BY <2>1, <2>2
<1>9. (Rec_file' \o batch') \o (s \o pending) = enqueued' \o <<>>
  <2>1. enqueued \o <<>> = enqueued
    BY <1>2, NatsNoneJoined
  <2>2. (Rec_file \o batch) \o (s \o pending) = enqueued
    BY Zenon, <1>2, <1>7, WaySwapped
  <2> QED BY <1>1, <2>1, <2>2
<1>10. HandedOver'
  <2>1. s \o pending \in Seq(Nat) /\ <<>> \in Seq(Nat)
    BY <1>2, NatsJoined, EmptySeq
  <2>2. \E late \in Seq(Nat) : (Rec_file' \o batch') \o (s \o pending) = enqueued' \o late
    BY Zenon, <1>9, <2>1
  <2> QED BY Zenon, <1>1, <1>8, <2>1, <2>2 DEF HandedOver
<1> QED BY <1>3, <1>4, <1>6, <1>10 DEF RecInv

LEMMA RecJoin ==
    ASSUME RecInv, Rec!Join
    PROVE  RecInv'
<1>1. /\ logger = "joining" /\ worker = "ended" /\ logger' = "gone"
      /\ UNCHANGED <<cloud_index_, holds, pending, write_queue, stop, worker, batch, opened,
                     Rec_file, enqueued, index_count, wcwi_index_, online>>
  BY DEF Rec!Join, Rec!writer, Rec!thread, Rec!rotations
<1>2. HandedOver' /\ Rec!LessThanBatch'
  BY <1>1, RecIdle
<1>3. EndsInOrder'
  BY <1>1 DEF RecInv, EndsInOrder
<1>4. RecTyped' /\ NumbersApart' /\ ListNumbered'
  BY <1>1 DEF RecInv, RecTyped, NumbersApart, ListNumbered, OneCallback
<1> QED BY <1>2, <1>3, <1>4 DEF RecInv

LEMMA RecEnqueue ==
    ASSUME RecInv, NEW c \in Callbacks, Rec!enqueue(c)
    PROVE  RecInv'
<1> DEFINE x == holds[c]  p == Append(pending, x)
<1>1. /\ x # -1 /\ logger # "gone" /\ holds' = [holds EXCEPT ![c] = -1]
      /\ enqueued' = IF stop THEN enqueued ELSE Append(enqueued, x)
      /\ UNCHANGED <<cloud_index_, stop, worker, batch, opened, Rec_file, logger,
                     index_count, wcwi_index_, online>>
  BY DEF Rec!enqueue, Rec!thread, Rec!rotations, Rec!NoFrame
<1>2. \/ Len(p) >= batch_size /\ pending' = <<>> /\ write_queue' = Append(write_queue, p)
      \/ ~(Len(p) >= batch_size) /\ pending' = p /\ write_queue' = write_queue
  BY DEF Rec!enqueue, Rec!SwapPending
<1>3. /\ pending \in Seq(Nat) /\ write_queue \in Seq(Seq(Nat)) /\ enqueued \in Seq(Nat)
      /\ cloud_index_ \in Nat /\ holds \in [Callbacks -> Nat \cup {-1}] /\ x \in Nat
  BY <1>1 DEF RecInv, RecTyped
<1>4. /\ p \in Seq(Nat) /\ Len(p) \in Nat
      /\ Append(enqueued, x) \in Seq(Nat) /\ Len(Append(enqueued, x)) = Len(enqueued) + 1
  BY <1>3, NatsAppended
<1> HIDE DEF p
<1>5. pending' \in Seq(Nat) /\ write_queue' \in Seq(Seq(Nat)) /\ enqueued' \in Seq(Nat)
  <2>1. Append(write_queue, p) \in Seq(Seq(Nat)) /\ <<>> \in Seq(Nat)
    BY <1>3, <1>4
  <2> QED BY Zenon, <1>1, <1>2, <1>3, <1>4, <2>1
<1>6. Rec!LessThanBatch'
  BY <1>2, <1>4, RecordAssumption DEF Rec!LessThanBatch
<1>7. RecTyped'
  <2>1. holds' \in [Callbacks -> Nat \cup {-1}]
    BY <1>1, <1>3
  <2> QED BY <1>1, <1>5, <2>1 DEF RecInv, RecTyped
<1>8. EndsInOrder'
  BY <1>1 DEF RecInv, EndsInOrder
<1>9. ListNumbered'
  BY <1>1 DEF RecInv, ListNumbered
<1>10. HandedOver'
  <2>1. PICK s \in Seq(Nat) :
           /\ Queued(write_queue, s)
           /\ ~stop => enqueued = ((Rec_file \o batch) \o s) \o pending
           /\ stop => \E late \in Seq(Nat) : (Rec_file \o batch) \o s = enqueued \o late
    BY Zenon DEF RecInv, HandedOver
  <2> DEFINE way == (Rec_file \o batch) \o s
  <2>2. way \in Seq(Nat) /\ (Rec_file \o batch) \o (s \o p) = way \o p
    BY Zenon, <1>4, WaySwapped
  <2>3. (Rec_file' \o batch') \o s = way /\ (Rec_file' \o batch') \o (s \o p) = way \o p
    BY <1>1, <2>2
  <2>4. ~stop => enqueued' = way \o p
    <3>1. ~stop => enqueued' = Append(enqueued, x) /\ enqueued = way \o pending
      BY Zenon, <1>1, <2>1
    <3>2. way \o Append(pending, x) = Append(way \o pending, x)
      <4> HIDE DEF way, x
      <4> QED BY Zenon, <1>3, <2>2, NatsAppended
    <3> QED BY Zenon, <3>1, <3>2 DEF p
  <2>5. stop => enqueued' = enqueued /\ \E late \in Seq(Nat) : way = enqueued \o late
    BY Zenon, <1>1, <2>1
  <2>6. Queued(Append(write_queue, p), s \o p) /\ s \o p \in Seq(Nat)
    BY <1>3, <1>4, <2>1, QueuedLast, NatsJoined
  <2> HIDE DEF way
  <2>7. CASE Len(p) >= batch_size
    <3>1. pending' = <<>> /\ Queued(write_queue', s \o p)
      BY Zenon, <1>2, <2>6, <2>7
    <3>2. ~stop' => enqueued' = ((Rec_file' \o batch') \o (s \o p)) \o pending'
      <4>1. (way \o p) \o <<>> = way \o p
        BY <1>4, <2>2, NatsJoined, NatsNoneJoined
      <4> QED BY Zenon, <1>1, <2>3, <2>4, <3>1, <4>1
    <3>3. stop' => \E late \in Seq(Nat) : (Rec_file' \o batch') \o (s \o p) = enqueued' \o late
      <4> SUFFICES ASSUME stop
                   PROVE  \E late \in Seq(Nat) : (Rec_file' \o batch') \o (s \o p) = enqueued' \o late
        BY Zenon, <1>1
      <4>1. PICK late \in Seq(Nat) : way = enqueued \o late
        BY Zenon, <2>5
      <4>2. (enqueued \o late) \o p = enqueued \o (late \o p) /\ late \o p \in Seq(Nat)
        <5>1. enqueued \in Seq(Nat) /\ p \in Seq(Nat)
          BY <1>3, <1>4
        <5> QED BY ONLY <5>1, late \in Seq(Nat), NatsAssociative, NatsJoined, SMTT(40)
      <4> QED BY Zenon, <2>3, <2>5, <4>1, <4>2
    <3> QED BY Zenon, <2>6, <3>1, <3>2, <3>3 DEF HandedOver
  <2>8. CASE ~(Len(p) >= batch_size)
    <3>1. pending' = p /\ Queued(write_queue', s)
      BY <1>2, <2>1, <2>8
    <3>2. ~stop' => enqueued' = ((Rec_file' \o batch') \o s) \o pending'
      BY Zenon, <1>1, <2>3, <2>4, <3>1
    <3>3. stop' => \E late \in Seq(Nat) : (Rec_file' \o batch') \o s = enqueued' \o late
      BY Zenon, <1>1, <2>3, <2>5
    <3> QED BY Zenon, <3>1, <3>2, <3>3 DEF HandedOver
  <2> QED BY <2>7, <2>8
<1>11. NumbersApart'
  <2>1. /\ \A i \in 1..Len(enqueued) : enqueued[i] < cloud_index_
        /\ \A i, j \in 1..Len(enqueued) :
              i < j => enqueued[i] # enqueued[j] /\ (OneCallback => enqueued[i] < enqueued[j])
        /\ x < cloud_index_
        /\ \A i \in 1..Len(enqueued) : enqueued[i] # x /\ (OneCallback => enqueued[i] < x)
    BY <1>1 DEF RecInv, NumbersApart
  <2>2. ASSUME NEW d \in Callbacks, holds'[d] # -1
        PROVE  /\ holds'[d] = holds[d] /\ d # c /\ holds[d] < cloud_index_ /\ holds[d] # x /\ ~OneCallback
               /\ \A i \in 1..Len(enqueued) : enqueued[i] # holds[d]
               /\ \A e \in Callbacks : e # d => holds'[e] # holds'[d]
    <3>1. d # c /\ holds'[d] = holds[d]
      BY <1>1, <1>3, <2>2
    <3>2. \A e \in Callbacks : holds'[e] = IF e = c THEN -1 ELSE holds[e]
      BY <1>1, <1>3
    <3>3. ~OneCallback
      BY <3>1 DEF OneCallback
    <3>4. /\ holds[d] < cloud_index_ /\ (\A i \in 1..Len(enqueued) : enqueued[i] # holds[d])
          /\ \A e \in Callbacks : e # d => holds[e] # holds[d]
      BY <2>2, <3>1 DEF RecInv, NumbersApart
    <3> QED BY <2>2, <3>1, <3>2, <3>3, <3>4
  <2>3. CASE stop
    BY <1>1, <2>1, <2>2, <2>3 DEF NumbersApart, OneCallback
  <2>4. CASE ~stop
    <3> DEFINE n == Len(enqueued)
    <3>1. /\ n \in Nat /\ enqueued' = Append(enqueued, x) /\ Len(enqueued') = n + 1 /\ enqueued'[n + 1] = x
          /\ \A i \in 1..n : enqueued'[i] = enqueued[i]
      BY <1>1, <1>3, <2>4
    <3> HIDE DEF n, x
    <3>2. \A i \in 1..(n + 1) : i \in 1..n \/ i = n + 1
      BY <3>1
    <3>3. \A i \in 1..(n + 1) : enqueued'[i] < cloud_index_
      BY <2>1, <3>1, <3>2 DEF n
    <3>4. \A i, j \in 1..(n + 1) : i < j => i \in 1..n /\ (j \in 1..n \/ j = n + 1)
      BY <3>1
    <3>5. ASSUME NEW i \in 1..(n + 1), NEW j \in 1..(n + 1), i < j
          PROVE  enqueued'[i] # enqueued'[j] /\ (OneCallback => enqueued'[i] < enqueued'[j])
      BY <2>1, <3>1, <3>4, <3>5 DEF n
    <3>6. ASSUME NEW d \in Callbacks, holds'[d] # -1, NEW i \in 1..(n + 1)
          PROVE  enqueued'[i] # holds'[d] /\ ~OneCallback
      BY <2>2, <3>1, <3>2, <3>6 DEF n
    <3>7. \A d \in Callbacks : holds'[d] # -1 => holds'[d] < cloud_index_ /\ \A e \in Callbacks : e # d => holds'[e] # holds'[d]
      BY <2>2
    <3>8. OneCallback' <=> OneCallback
      BY DEF OneCallback
    <3> QED BY <1>1, <3>1, <3>3, <3>5, <3>6, <3>7, <3>8 DEF NumbersApart
  <2> QED BY <2>3, <2>4
<1> QED BY <1>6, <1>7, <1>8, <1>9, <1>10, <1>11 DEF RecInv

LEMMA RecStep == RecInv /\ [Rec!Next]_RecVars => RecInv'
<1> SUFFICES ASSUME RecInv, [Rec!Next]_RecVars PROVE RecInv'
  OBVIOUS
<1>1. CASE UNCHANGED RecVars
  <2>1. /\ UNCHANGED <<pending, write_queue, stop, batch, Rec_file, enqueued, cloud_index_, holds>>
        /\ UNCHANGED <<worker, opened, logger, index_count, wcwi_index_, online>>
    BY <1>1 DEF RecVars
  <2>2. HandedOver' /\ Rec!LessThanBatch'
    BY <2>1, RecIdle
  <2>3. RecTyped' /\ EndsInOrder' /\ NumbersApart' /\ ListNumbered'
    BY Zenon, <2>1 DEF RecInv, RecTyped, EndsInOrder, NumbersApart, ListNumbered, OneCallback
  <2> QED BY <2>2, <2>3 DEF RecInv
<1>2. CASE \E c \in Callbacks : Rec!enqueue(c) \/ \E points \in 0..1 : Rec!TakeIndex(c, points)
  BY <1>2, RecEnqueue, RecTakeIndex
<1>3. CASE \E opens \in BOOLEAN : Rec!recordrotate(opens) \/ Rec!OpenFile(opens)
  BY <1>3, RecRotate, RecOpenFile
<1> QED BY <1>1, <1>2, <1>3, RecTakeBatch, RecWriteBatch, RecShutdown, RecJoin DEF Rec!Next,
           Rec!Thread

LEMMA RecSound == RecInv => Rec!RecordSound
<1> SUFFICES ASSUME RecInv PROVE Rec!RecordSound
  OBVIOUS
<1>1. /\ enqueued \in Seq(Nat) /\ Rec_file \in Seq(Nat) /\ batch \in Seq(Nat) /\ pending \in Seq(Nat)
      /\ write_queue \in Seq(Seq(Nat)) /\ online \in Seq(Nat)
  BY DEF RecInv, RecTyped
<1>2. ASSUME NEW late \in Seq(Nat) PROVE Rec!IsPrefix(enqueued, enqueued \o late)
  <2>1. /\ Len(enqueued \o late) = Len(enqueued) + Len(late) /\ Len(late) \in Nat
        /\ \A i \in 1..Len(enqueued) : (enqueued \o late)[i] = enqueued[i]
    BY <1>1, ConcatProperties
  <2>2. Len(enqueued) <= Len(enqueued \o late)
    BY <1>1, <2>1
  <2>3. SubSeq(enqueued, 1, Len(enqueued)) = SubSeq(enqueued \o late, 1, Len(enqueued))
    BY <1>1, <2>1, <2>2
  <2> QED BY <2>2, <2>3 DEF Rec!IsPrefix
<1>3. Rec!NothingLost
  <2>1. PICK s \in Seq(Nat) :
           /\ Queued(write_queue, s)
           /\ ~stop => enqueued = ((Rec_file \o batch) \o s) \o pending
           /\ stop => \E late \in Seq(Nat) : (Rec_file \o batch) \o s = enqueued \o late
    BY Zenon DEF RecInv, HandedOver
  <2>2. Rec!FlattenSeq(write_queue) = s
    BY <1>1, <2>1, QueuedIsFlat
  <2>3. Rec_file \o batch \o Rec!FlattenSeq(write_queue) \o pending = ((Rec_file \o batch) \o s) \o pending
    BY <2>2
  <2>4. CASE stop
    <3>1. PICK late \in Seq(Nat) : (Rec_file \o batch) \o s = enqueued \o late
      BY Zenon, <2>1, <2>4
    <3>2. (enqueued \o late) \o pending = enqueued \o (late \o pending) /\ late \o pending \in Seq(Nat)
      <4>1. enqueued \in Seq(Nat) /\ pending \in Seq(Nat)
        BY <1>1
      <4> QED BY ONLY <4>1, late \in Seq(Nat), NatsAssociative, NatsJoined, SMTT(40)
    <3>3. Rec!IsPrefix(enqueued, ((Rec_file \o batch) \o s) \o pending)
      BY Zenon, <1>2, <3>1, <3>2
    <3> QED BY <2>3, <2>4, <3>3 DEF Rec!NothingLost
  <2>5. CASE ~stop
    <3>1. enqueued \o <<>> = enqueued /\ <<>> \in Seq(Nat)
      BY <1>1, NatsNoneJoined
    <3>2. Rec!IsPrefix(enqueued, enqueued)
      BY Zenon, <1>2, <3>1
    <3> QED BY Zenon, <2>1, <2>3, <2>5, <3>2 DEF Rec!NothingLost
  <2> QED BY <2>4, <2>5
<1>4. Rec!FileComplete
  BY Zenon, <1>2 DEF RecInv, EndsInOrder, Rec!FileComplete
<1>5. Rec!NumbersOnce
  <2>1. DOMAIN enqueued = 1..Len(enqueued)
    BY <1>1
  <2>2. \A i, j \in 1..Len(enqueued) :
           i < j => enqueued[i] # enqueued[j] /\ (OneCallback => enqueued[i] < enqueued[j])
    BY DEF RecInv, NumbersApart
  <2>3. \A i, j \in DOMAIN enqueued :
           i < j => /\ enqueued[i] # enqueued[j]
                    /\ (\E c \in Callbacks : Callbacks = {c}) => enqueued[i] < enqueued[j]
    BY <2>1, <2>2, Zenon DEF OneCallback
  <2> QED BY <2>3 DEF Rec!NumbersOnce
<1>6. Rec!OnlineNumbered
  <2>1. DOMAIN online = 1..Len(online)
    BY <1>1
  <2> QED BY <2>1 DEF RecInv, ListNumbered, Rec!OnlineNumbered
<1>7. Rec!LessThanBatch
  BY DEF RecInv
<1> QED BY <1>3, <1>4, <1>5, <1>6, <1>7 DEF Rec!RecordSound

\* No thread ends subscribed, the rays are the nearest points, and every frame
\* handed over is written once and in order, for any number of callbacks and any
\* size of a batch.
THEOREM ScansDoHold == Spec => []ScansSound
<1>1. Spec => []UnsubscribedInv
  BY LaserKept, LaserSteps, PTL DEF Spec
<1>2. Spec => []RecInv
  BY RecInit, RecStep, RecSteps, PTL DEF Spec
<1>3. UnsubscribedInv => Laser!EndsUnsubscribed
  BY DEF UnsubscribedInv, Laser!EndsUnsubscribed
<1>4. NearestPerRay
  <2>1. ASSUME NEW p \in Laser!Point, NEW q \in Laser!Point
        PROVE  Laser!NearestPerRay(<<p>>) /\ Laser!NearestPerRay(<<p, q>>)
    <3>1. <<p>> \in Seq(Laser!Point) /\ <<p, q>> \in Seq(Laser!Point)
      OBVIOUS
    <3> QED BY Zenon, <3>1, RaysAreNearest
  <2> QED BY Zenon, <2>1 DEF NearestPerRay
<1>5. UnsubscribedInv /\ RecInv => ScansSound
  BY <1>3, <1>4, RecSound DEF ScansSound
<1> QED BY <1>1, <1>2, <1>5, PTL

-----------------------------------------------------------------------------
(* ScanSync: the queue of samples is what is left of those that arrived, and *)
(* the filter has those before its front.                                   *)

WalkType ==
    [deque : Seq(Nat), next : Nat, last : Nat, first : BOOLEAN, current : Nat, predict : Nat,
     used : Seq(Nat), bad : BOOLEAN, stop : BOOLEAN]

\* The samples of w are the newest, its front is imu_next, and what has been used
\* came before; with the IMU in the output they are those right before the front,
\* and after the first point the filter is never past the front.
Fed(w) ==
    /\ w \in WalkType /\ ~w.bad
    /\ w.deque # <<>> /\ w.next = w.deque[1]
    /\ Len(w.deque) <= Len(arrived)
    /\ \A i \in 1..Len(w.deque) : w.deque[i] = arrived[Len(arrived) - Len(w.deque) + i]
    /\ w.last <= w.next
    /\ \A i \in 1..Len(w.used) : w.used[i] <= w.last
    /\ \A i, j \in 1..Len(w.used) : i < j => w.used[i] <= w.used[j]
    /\ w.used # <<>> => ~w.first
    /\ ~w.first => w.predict <= w.next
    /\ ~use_imu_as_input => Len(w.used) <= Len(arrived) - Len(w.deque)
    /\ ~use_imu_as_input =>
           \A i \in 1..Len(w.used) : w.used[i] = arrived[Len(arrived) - Len(w.deque) - Len(w.used) + i]

\* A scan that ends there can be worked through.
FedTo(w, end) == Fed(w) /\ end <= w.deque[Len(w.deque)] /\ w.predict <= end

Scan == [beg : Nat, points : BOOLEAN]
Begs(s) == [i \in 1..Len(s) |-> s[i].beg]

\* The stamps of s ascend; none is past last; those of s come before those of t.
Ascend(s) == \A i, j \in 1..Len(s) : i < j => s[i] < s[j]
UpTo(s, last) == \A i \in 1..Len(s) : s[i] <= last
Before(s, t) == \A i \in 1..Len(s), j \in 1..Len(t) : s[i] < t[j]

\* The scans taken, those that wait, and those that are put together.
InOrder(m, b, p, last) ==
    /\ Ascend(m) /\ Ascend(b) /\ Ascend(p)
    /\ Before(m, b) /\ Before(m, p) /\ Before(b, p)
    /\ UpTo(m, last) /\ UpTo(b, last) /\ UpTo(p, last)

SyncTypes ==
    /\ Sync_lidar_buffer \in Seq(Scan) /\ ptr_con \in Seq(Scan)
    /\ mapped \in Seq(Nat) /\ arrived \in Seq(Nat)
    /\ Sync_last_timestamp_lidar \in Nat /\ last_timestamp_imu \in Nat
    /\ con_frame \in BOOLEAN /\ use_imu_as_input \in BOOLEAN /\ imu_need_init_ \in BOOLEAN
    /\ Sync!Walk \in WalkType

ScansOrdered ==
    /\ InOrder(mapped, Begs(Sync_lidar_buffer), Begs(ptr_con), Sync_last_timestamp_lidar)
    /\ ~con_frame => ptr_con = <<>>

\* The samples came in the order of time, and those that wait are the newest.
SamplesOrdered ==
    /\ Ascend(arrived)
    /\ UpTo(arrived, last_timestamp_imu)
    /\ imu_deque # <<>> => imu_deque[Len(imu_deque)] = last_timestamp_imu
    /\ Len(imu_deque) <= Len(arrived)
    /\ \A i \in 1..Len(imu_deque) : imu_deque[i] = arrived[Len(arrived) - Len(imu_deque) + i]

SyncInv ==
    /\ SyncTypes /\ ScansOrdered /\ SamplesOrdered
    /\ ~pops_empty
    /\ mapped = <<>> => imu_need_init_ /\ is_first_frame /\ time_predict = 0 /\ imu_last = 0
    /\ imu_need_init_ => used = <<>>
    /\ mapped # <<>> => Fed(Sync!Walk) /\ time_predict <= mapped[Len(mapped)] + Duration

\* How a loop may turn: samples are passed over only before the first is used, and
\* used only after the first point.
Hows == {"pass", "next", "last", "alone"}
HowFits(w, how) ==
    /\ how = "pass" => w.used = <<>>
    /\ how # "pass" => ~w.first
    /\ how = "last" => use_imu_as_input
    /\ how = "next" => ~use_imu_as_input

LEMMA SeqOfNat ==
    ASSUME NEW s \in Seq(Nat)
    PROVE  Len(s) \in Nat /\ \A i \in 1..Len(s) : s[i] \in Nat
  OBVIOUS

\* An element more, that is none of those before.
LEMMA Appended ==
    ASSUME NEW s \in Seq(Nat), NEW x \in Nat, NEW y \in Nat, x <= y,
           \A i \in 1..Len(s) : s[i] <= x,
           \A i, j \in 1..Len(s) : i < j => s[i] <= s[j]
    PROVE  LET t == Append(s, x)
           IN  /\ \A i \in 1..Len(t) : t[i] <= y
               /\ \A i, j \in 1..Len(t) : i < j => t[i] <= t[j]
<1> DEFINE k == Len(s)
           t == Append(s, x)
<1>1. k \in Nat /\ \A i \in 1..k : s[i] \in Nat
  BY SeqOfNat
<1>2. Len(t) = k + 1 /\ t[k + 1] = x /\ \A i \in 1..k : t[i] = s[i]
  BY AppendProperties
<1> HIDE DEF k, t
<1>3. \A i \in 1..(k + 1) : i \in 1..k \/ i = k + 1
  BY <1>1
<1>4. ASSUME NEW i \in 1..k PROVE t[i] \in Nat /\ t[i] <= x
  BY Zenon, <1>1, <1>2, <1>4 DEF k
<1>5. ASSUME NEW i \in 1..(k + 1) PROVE t[i] <= y
  <2>1. CASE i \in 1..k
    BY <1>4, <2>1
  <2>2. CASE i = k + 1
    BY <1>2, <2>2
  <2> QED BY <1>3, <2>1, <2>2
<1>6. ASSUME NEW i \in 1..(k + 1), NEW j \in 1..(k + 1), i < j PROVE t[i] <= t[j]
  <2>1. i \in 1..k
    BY <1>1, <1>6
  <2>2. CASE j \in 1..k
    BY <1>2, <1>6, <2>1, <2>2 DEF k
  <2>3. CASE j = k + 1
    BY <1>2, <1>4, <2>1, <2>3
  <2> QED BY <1>3, <2>2, <2>3
<1> QED BY <1>2, <1>5, <1>6 DEF t

LEMMA TurnTurns ==
    ASSUME NEW w \in WalkType, NEW how \in Hows, HowFits(w, how), w.last <= w.next
    PROVE  LET u == Sync!Turn(w, how)
           IN  /\ u \in WalkType /\ u.deque = w.deque /\ u.next = w.next /\ u.last = w.last
               /\ u.first = w.first /\ u.bad = w.bad /\ u.stop = w.stop
               /\ how = "pass" => u.used = w.used /\ u.predict = w.predict
               /\ how # "pass" => u.predict <= w.next
               /\ \/ u.used = w.used /\ (how = "pass" \/ use_imu_as_input)
                  \/ u.used = Append(w.used, w.next)
                  \/ u.used = Append(w.used, w.last) /\ use_imu_as_input
<1> DEFINE u == Sync!Turn(w, how)
<1>1. /\ w.next \in Nat /\ w.last \in Nat /\ w.used \in Seq(Nat)
      /\ Append(w.used, w.next) \in Seq(Nat) /\ Append(w.used, w.last) \in Seq(Nat)
  <2>1. w.next \in Nat /\ w.last \in Nat /\ w.used \in Seq(Nat)
    BY DEF WalkType
  <2> QED BY <2>1, AppendProperties
<1>2. CASE how = "pass"
  <2>1. u = w
    BY <1>2 DEF Sync!Turn
  <2> QED BY <1>2, <2>1
<1>3. CASE how = "next"
  <2>1. u = [w EXCEPT !.used = Append(w.used, w.next), !.predict = w.next]
    BY <1>3 DEF Sync!Turn, Sync!UseNext
  <2> HIDE DEF u
  <2>2. u \in WalkType
    BY Zenon, <1>1, <2>1 DEF WalkType
  <2>3. /\ u.deque = w.deque /\ u.next = w.next /\ u.last = w.last /\ u.first = w.first
        /\ u.bad = w.bad /\ u.stop = w.stop /\ u.used = Append(w.used, w.next) /\ u.predict = w.next
    BY <2>1 DEF WalkType
  <2>4. w.next <= w.next
    BY <1>1
  <2> QED BY <1>3, <2>2, <2>3, <2>4 DEF u
<1>4. CASE how = "last"
  <2>1. u = [w EXCEPT !.used = Append(w.used, w.last), !.predict = w.last]
    BY <1>4 DEF Sync!Turn, Sync!UseLast
  <2> HIDE DEF u
  <2>2. u \in WalkType
    BY Zenon, <1>1, <2>1 DEF WalkType
  <2>3. /\ u.deque = w.deque /\ u.next = w.next /\ u.last = w.last /\ u.first = w.first
        /\ u.bad = w.bad /\ u.stop = w.stop /\ u.used = Append(w.used, w.last) /\ u.predict = w.last
    BY <2>1 DEF WalkType
  <2> QED BY <1>4, <2>2, <2>3 DEF u, HowFits
<1>5. CASE how = "alone"
  <2>1. u = [(IF use_imu_as_input THEN [w EXCEPT !.predict = w.next] ELSE Sync!UseNext(w))
                EXCEPT !.current = w.next]
    BY <1>5 DEF Sync!Turn
  <2>2. CASE use_imu_as_input
    <3>1. u = [w EXCEPT !.predict = w.next, !.current = w.next]
      BY <2>1, <2>2
    <3> HIDE DEF u
    <3>2. u \in WalkType
      BY Zenon, <1>1, <3>1 DEF WalkType
    <3>3. /\ u.deque = w.deque /\ u.next = w.next /\ u.last = w.last /\ u.first = w.first
          /\ u.bad = w.bad /\ u.stop = w.stop /\ u.used = w.used /\ u.predict = w.next
      BY <3>1 DEF WalkType
    <3>4. w.next <= w.next
      BY <1>1
    <3> QED BY <1>5, <2>2, <3>2, <3>3, <3>4 DEF u
  <2>3. CASE ~use_imu_as_input
    <3>1. u = [w EXCEPT !.used = Append(w.used, w.next), !.predict = w.next, !.current = w.next]
      BY <2>1, <2>3 DEF Sync!UseNext
    <3> HIDE DEF u
    <3>2. u \in WalkType
      BY Zenon, <1>1, <3>1 DEF WalkType
    <3>3. /\ u.deque = w.deque /\ u.next = w.next /\ u.last = w.last /\ u.first = w.first
          /\ u.bad = w.bad /\ u.stop = w.stop /\ u.used = Append(w.used, w.next) /\ u.predict = w.next
      BY <3>1 DEF WalkType
    <3>4. w.next <= w.next
      BY <1>1
    <3> QED BY <1>5, <3>2, <3>3, <3>4 DEF u
  <2> QED BY <2>2, <2>3
<1> QED BY <1>2, <1>3, <1>4, <1>5 DEF Hows

\* One turn of a loop that has not passed until.
LEMMA TurnFed ==
    ASSUME NEW w, NEW end \in Nat, FedTo(w, end), NEW until \in Nat, until <= end,
           NEW how \in Hows, ~w.stop, Sync!Goes(w, until, how), HowFits(w, how),
           arrived \in Seq(Nat), Ascend(arrived)
    PROVE  LET v == Sync!NextTurn(w, until, how)
           IN  /\ FedTo(v, end) /\ ~v.stop /\ v.first = w.first
               /\ Len(v.deque) = Len(w.deque) - 1
               /\ how = "pass" => v.used = w.used /\ v.predict = w.predict
<1> DEFINE d == w.deque
           n == Len(arrived)
           m == Len(d)
           u == Sync!Turn(w, how)
           v == Sync!NextTurn(w, until, how)
<1>1. /\ w \in WalkType /\ ~w.bad /\ d \in Seq(Nat) /\ d # <<>> /\ w.next = d[1]
      /\ m \in Nat /\ n \in Nat /\ m <= n
      /\ \A i \in 1..m : d[i] = arrived[n - m + i]
      /\ w.last <= w.next /\ end <= d[m] /\ w.predict <= end /\ w.used \in Seq(Nat)
      /\ w.next \in Nat /\ w.last \in Nat /\ w.predict \in Nat /\ w.first \in BOOLEAN
  <2>1. w \in WalkType
    BY DEF FedTo, Fed
  <2>2. /\ d \in Seq(Nat) /\ w.used \in Seq(Nat) /\ w.next \in Nat /\ w.last \in Nat
        /\ w.predict \in Nat /\ w.first \in BOOLEAN
    BY <2>1 DEF WalkType
  <2>3. m \in Nat /\ n \in Nat
    BY <2>2
  <2> QED BY Zenon, <2>1, <2>2, <2>3 DEF FedTo, Fed
<1>0. /\ m # 0 /\ Len(w.used) \in Nat /\ d[m] \in Nat
      /\ \A i \in 1..n : arrived[i] \in Nat
  <2>1. m # 0
    BY <1>1
  <2>2. Len(w.used) \in Nat /\ \A i \in 1..n : arrived[i] \in Nat
    BY Zenon, <1>1, SeqOfNat
  <2>3. \A i \in 1..m : d[i] \in Nat
    BY <1>1, SeqOfNat
  <2> HIDE DEF m, n, d
  <2>4. m \in 1..m
    BY <1>1, <2>1
  <2> QED BY <2>1, <2>2, <2>3, <2>4
<1> HIDE DEF m, n, d
<1>2. w.next < until
  BY DEF Sync!Goes
<1>3. m >= 2
  <2>1. m # 1
    BY <1>0, <1>1, <1>2
  <2> QED BY <1>0, <1>1, <2>1
<1>4. \A i, j \in 1..m : i < j => d[i] < d[j]
  <2> SUFFICES ASSUME NEW i \in 1..m, NEW j \in 1..m, i < j PROVE d[i] < d[j]
    OBVIOUS
  <2>1. n - m + i \in 1..n /\ n - m + j \in 1..n /\ n - m + i < n - m + j
    BY <1>1
  <2>2. arrived[n - m + i] < arrived[n - m + j]
    BY <2>1 DEF Ascend, n
  <2> QED BY <1>1, <2>2
<1>5. /\ u \in WalkType /\ u.deque = d /\ u.next = w.next /\ u.last = w.last
      /\ u.first = w.first /\ u.bad = w.bad /\ u.stop = w.stop
      /\ how = "pass" => u.used = w.used /\ u.predict = w.predict
      /\ how # "pass" => u.predict <= w.next
      /\ \/ u.used = w.used /\ (how = "pass" \/ use_imu_as_input)
         \/ u.used = Append(w.used, w.next)
         \/ u.used = Append(w.used, w.last) /\ use_imu_as_input
  BY Zenon, <1>1, TurnTurns DEF d
<1>6. v = [u EXCEPT !.deque = Tail(d), !.last = d[1], !.next = d[2]]
  <2>1. v = Sync!PopFront(u)
    BY DEF Sync!NextTurn
  <2>2. ~(Len(u.deque) <= 1)
    BY <1>1, <1>3, <1>5 DEF m
  <2> HIDE DEF u, v
  <2> QED BY <1>1, <1>5, <2>1, <2>2 DEF Sync!PopFront
<1> HIDE DEF u, v
<1>7. Tail(d) \in Seq(Nat) /\ Len(Tail(d)) = m - 1 /\ \A i \in 1..(m - 1) : Tail(d)[i] = d[i + 1]
  BY <1>1, HeadTailProperties DEF m
<1>8. d[1] \in Nat /\ d[2] \in Nat /\ d[1] < d[2]
  <2>1. 1 \in 1..m /\ 2 \in 1..m
    BY <1>1, <1>3
  <2>2. d[1] \in Nat /\ d[2] \in Nat
    BY <1>1, <2>1, SeqOfNat DEF m
  <2> QED BY <1>4, <2>1, <2>2
<1>9. /\ v \in WalkType /\ v.deque = Tail(d) /\ v.last = d[1] /\ v.next = d[2] /\ v.first = w.first
      /\ v.bad = w.bad /\ v.stop = w.stop /\ v.used = u.used /\ v.predict = u.predict
  BY Zenon, <1>5, <1>6, <1>7, <1>8 DEF WalkType
<1>10. v.deque # <<>> /\ v.next = v.deque[1] /\ Len(v.deque) = m - 1 /\ m - 1 <= n
       /\ end <= v.deque[m - 1]
  <2>1. 1 \in 1..(m - 1) /\ m - 1 \in 1..(m - 1) /\ m - 1 + 1 = m /\ 1 + 1 = 2 /\ m - 1 # 0 /\ m - 1 <= n
    BY <1>1, <1>3
  <2>2. v.deque # <<>> /\ Len(v.deque) = m - 1
    BY <1>7, <1>9, <2>1
  <2>3. v.deque[1] = d[2] /\ v.deque[m - 1] = d[m]
    BY <1>7, <1>9, <2>1
  <2> QED BY Zenon, <1>1, <1>9, <2>1, <2>2, <2>3
<1>11. \A i \in 1..(m - 1) : v.deque[i] = arrived[n - (m - 1) + i]
  <2> TAKE i \in 1..(m - 1)
  <2>1. i + 1 \in 1..m /\ n - m + (i + 1) = n - (m - 1) + i
    BY <1>1
  <2> QED BY Zenon, <1>1, <1>7, <1>9, <2>1
<1>12. /\ \A i \in 1..Len(w.used) : w.used[i] <= w.last
       /\ \A i, j \in 1..Len(w.used) : i < j => w.used[i] <= w.used[j]
       /\ \A i \in 1..Len(w.used) : w.used[i] \in Nat
       /\ Len(w.used) \in Nat
  <2>1. /\ \A i \in 1..Len(w.used) : w.used[i] <= w.last
        /\ \A i, j \in 1..Len(w.used) : i < j => w.used[i] <= w.used[j]
    BY DEF FedTo, Fed
  <2>2. \A i \in 1..Len(w.used) : w.used[i] \in Nat
    BY <1>1, SeqOfNat
  <2> QED BY <1>0, <2>1, <2>2
<1>13. /\ \A i \in 1..Len(v.used) : v.used[i] <= v.last
       /\ \A i, j \in 1..Len(v.used) : i < j => v.used[i] <= v.used[j]
  <2>1. CASE u.used = w.used
    <3>1. w.last <= v.last /\ v.last \in Nat
      BY <1>1, <1>8, <1>9
    <3>2. ASSUME NEW i \in 1..Len(w.used) PROVE w.used[i] <= v.last
      <4>1. w.used[i] \in Nat /\ w.used[i] <= w.last
        BY <1>12
      <4>2. w.last \in Nat
        BY <1>1
      <4> QED BY <3>1, <4>1, <4>2
    <3> QED BY <1>9, <1>12, <2>1, <3>2
  <2>2. ASSUME NEW x, x = w.next \/ x = w.last, u.used = Append(w.used, x)
        PROVE  /\ \A i \in 1..Len(v.used) : v.used[i] <= v.last
               /\ \A i, j \in 1..Len(v.used) : i < j => v.used[i] <= v.used[j]
    <3>1. x \in Nat /\ w.last <= x /\ x <= v.last /\ v.last \in Nat
      <4>1. w.last \in Nat /\ w.next \in Nat /\ w.last <= w.next /\ v.last = w.next
        BY <1>1, <1>9
      <4> QED BY <2>2, <4>1
    <3>2. ASSUME NEW i \in 1..Len(w.used) PROVE w.used[i] <= x
      <4>1. w.used[i] \in Nat /\ w.used[i] <= w.last
        BY <1>12
      <4>2. w.last \in Nat
        BY <1>1
      <4> QED BY <3>1, <4>1, <4>2
    <3>3. v.used = Append(w.used, x) /\ w.used \in Seq(Nat)
      BY <1>1, <1>9, <2>2
    <3>4. \A i, j \in 1..Len(w.used) : i < j => w.used[i] <= w.used[j]
      BY <1>12
    <3> QED BY Zenon, <3>1, <3>2, <3>3, <3>4, Appended
  <2> QED BY Zenon, <1>5, <2>1, <2>2
<1>14. v.used # <<>> => ~v.first
  BY <1>5, <1>9 DEF HowFits
<1>15. v.predict <= end /\ (~v.first => v.predict <= v.next)
  <2>1. CASE how = "pass"
    <3>1. ~w.first => w.predict <= w.next
      BY DEF FedTo, Fed
    <3>2. v.predict = w.predict /\ v.first = w.first /\ v.next = d[2] /\ w.next = d[1]
      BY <1>1, <1>5, <1>9, <2>1
    <3> QED BY <1>1, <1>8, <3>1, <3>2
  <2>2. CASE how # "pass"
    <3>1. v.predict <= v.next /\ v.predict \in Nat
      <4>1. v.predict \in Nat
        BY <1>9 DEF WalkType
      <4>2. v.predict <= w.next
        BY <1>5, <1>9, <2>2
      <4>3. w.next <= v.next
        BY <1>1, <1>8, <1>9
      <4>4. w.next \in Nat /\ v.next \in Nat
        BY <1>1, <1>8, <1>9
      <4> QED BY <4>1, <4>2, <4>3, <4>4
    <3>2. v.predict <= w.next
      BY <1>5, <1>9, <2>2
    <3>3. w.next \in Nat
      BY <1>1
    <3> QED BY <1>2, <3>1, <3>2, <3>3
  <2> QED BY <2>1, <2>2
<1>16. ASSUME ~use_imu_as_input
       PROVE  /\ Len(v.used) <= n - (m - 1)
              /\ \A i \in 1..Len(v.used) : v.used[i] = arrived[n - (m - 1) - Len(v.used) + i]
  <2>1. CASE how = "pass"
    <3>1. v.used = <<>>
      BY <1>5, <1>9, <2>1 DEF HowFits
    <3> QED BY <1>1, <3>1
  <2>2. CASE how # "pass"
    <3> DEFINE k == Len(w.used)
    <3>1. v.used = Append(w.used, d[1])
      BY <1>1, <1>5, <1>9, <1>16, <2>2
    <3>2. /\ Len(v.used) = k + 1 /\ v.used[k + 1] = d[1] /\ \A i \in 1..k : v.used[i] = w.used[i]
      <4>1. w.used \in Seq(Nat) /\ d[1] \in Nat
        BY <1>1, <1>8
      <4> QED BY <3>1, <4>1, AppendProperties
    <3>3. k <= n - m /\ \A i \in 1..k : w.used[i] = arrived[n - m - k + i]
      BY Zenon, <1>16 DEF FedTo, Fed, n, m, d
    <3>4. d[1] = arrived[n - m + 1]
      <4>1. 1 \in 1..m
        BY <1>1, <1>3
      <4> QED BY <1>1, <4>1
    <3>0. k \in Nat
      BY <1>12
    <3> HIDE DEF k
    <3>5. k + 1 <= n - (m - 1)
      BY <1>1, <3>0, <3>3
    <3>6. ASSUME NEW i \in 1..(k + 1) PROVE v.used[i] = arrived[n - (m - 1) - (k + 1) + i]
      <4>1. n - (m - 1) - (k + 1) + i = n - m - k + i /\ n - m - k + (k + 1) = n - m + 1
        BY <1>1, <3>0
      <4>2. i \in 1..k \/ i = k + 1
        BY <3>0
      <4> QED BY <3>2, <3>3, <3>4, <4>1, <4>2
    <3> QED BY <3>2, <3>5, <3>6
  <2> QED BY <2>1, <2>2
<1>17. Fed(v)
  <2>1. v.last <= v.next /\ ~v.bad /\ Len(v.deque) = m - 1
    BY <1>1, <1>8, <1>9, <1>10
  <2>2. \A i \in 1..Len(v.deque) : v.deque[i] = arrived[n - Len(v.deque) + i]
    BY <1>11, <2>1
  <2>3. ~use_imu_as_input =>
          /\ Len(v.used) <= n - Len(v.deque)
          /\ \A i \in 1..Len(v.used) : v.used[i] = arrived[n - Len(v.deque) - Len(v.used) + i]
    BY <1>16, <2>1
  <2> QED BY Zenon, <1>9, <1>10, <1>13, <1>14, <1>15, <2>1, <2>2, <2>3 DEF Fed, n
<1> QED BY <1>5, <1>9, <1>10, <1>15, <1>17 DEF FedTo, v, m, d

\* f holds what there is after 0, 1, ..., n turns of a loop.
TurnsOf(f, n, w, until, how) ==
    f = [i \in 0..n |->
            IF i = 0
            THEN [w EXCEPT !.stop = FALSE,
                           !.bad = @ \/ (w.deque = <<>> /\ Sync!Goes(w, until, how))]
            ELSE Sync!NextTurn(f[i - 1], until, how)]

LEMMA TurnsExist ==
    ASSUME NEW w, NEW until, NEW how, NEW m \in Nat
    PROVE  \E f : TurnsOf(f, m, w, until, how)
<1> DEFINE S == {n \in 0..m : \E f : TurnsOf(f, n, w, until, how)}
           start == [w EXCEPT !.stop = FALSE,
                              !.bad = @ \/ (w.deque = <<>> /\ Sync!Goes(w, until, how))]
<1>1. 0 \in S
  <2> DEFINE g == [i \in 0..0 |-> start]
  <2>1. TurnsOf(g, 0, w, until, how)
    BY DEF TurnsOf
  <2> HIDE DEF g
  <2> QED BY <2>1
<1>2. ASSUME NEW n \in 1..m, n - 1 \in S PROVE n \in S
  <2>1. PICK g : TurnsOf(g, n - 1, w, until, how)
    BY <1>2
  <2> DEFINE h == [i \in 0..n |-> IF i = n THEN Sync!NextTurn(g[n - 1], until, how) ELSE g[i]]
  <2>2. ASSUME NEW i \in 0..n
        PROVE  h[i] = IF i = 0 THEN start ELSE Sync!NextTurn(h[i - 1], until, how)
    <3>1. CASE i = n
      <4>1. i - 1 \in 0..n /\ i - 1 # n /\ i # 0
        BY <3>1
      <4>2. h[i] = Sync!NextTurn(g[n - 1], until, how) /\ h[n - 1] = g[n - 1]
        BY <3>1, <4>1
      <4> HIDE DEF h
      <4> QED BY <3>1, <4>1, <4>2
    <3>2. CASE i # n
      <4>1. i \in 0..(n - 1)
        BY <3>2
      <4>2. g[i] = IF i = 0 THEN start ELSE Sync!NextTurn(g[i - 1], until, how)
        BY Zenon, <2>1, <4>1 DEF TurnsOf
      <4>3. h[i] = g[i] /\ (i # 0 => h[i - 1] = g[i - 1])
        BY <3>2, <4>1
      <4> HIDE DEF h
      <4> QED BY <4>2, <4>3
    <3> QED BY <3>1, <3>2
  <2>3. h = [i \in 0..n |-> h[i]]
    OBVIOUS
  <2> HIDE DEF h
  <2>4. TurnsOf(h, n, w, until, how)
    BY Zenon, <2>2, <2>3 DEF TurnsOf
  <2> QED BY <2>4
<1>3. m \in S
  <2> HIDE DEF S
  <2>1. \A i \in 0..m : i \in S
    BY <1>1, <1>2, CountsUp
  <2> QED BY <2>1
<1> QED BY <1>3

LEMMA LoopIs ==
    ASSUME NEW w \in WalkType, NEW until, NEW how, w.deque # <<>>
    PROVE  \E f : /\ Sync!Loop(w, until, how) = f[Len(w.deque)]
                  /\ f[0] = [w EXCEPT !.stop = FALSE]
                  /\ \A i \in 1..Len(w.deque) : f[i] = Sync!NextTurn(f[i - 1], until, how)
<1> DEFINE n == Len(w.deque)
           f == CHOOSE g : TurnsOf(g, n, w, until, how)
<1>1. Sync!Loop(w, until, how) = f[n]
  BY DEF Sync!Loop, TurnsOf
<1>2. n \in Nat
  BY DEF WalkType
<1> HIDE DEF n
<1>3. \E g : TurnsOf(g, n, w, until, how)
  BY <1>2, TurnsExist
<1>4. TurnsOf(f, n, w, until, how)
  BY <1>3
<1> HIDE DEF f
<1>5. /\ f[0] = [w EXCEPT !.stop = FALSE,
                          !.bad = @ \/ (w.deque = <<>> /\ Sync!Goes(w, until, how))]
      /\ \A i \in 1..n : f[i] = Sync!NextTurn(f[i - 1], until, how)
  <2>1. 0 \in 0..n /\ \A i \in 1..n : i \in 0..n /\ i # 0
    BY <1>2
  <2> QED BY Zenon, <1>4, <2>1 DEF TurnsOf
<1>6. [w EXCEPT !.stop = FALSE, !.bad = @ \/ (w.deque = <<>> /\ Sync!Goes(w, until, how))]
          = [w EXCEPT !.stop = FALSE]
  <2>1. w.bad \in BOOLEAN
    BY DEF WalkType
  <2>2. (w.bad \/ (w.deque = <<>> /\ Sync!Goes(w, until, how))) = w.bad
    BY <2>1
  <2>3. [w EXCEPT !.stop = FALSE, !.bad = w.bad] = [w EXCEPT !.stop = FALSE]
    BY Zenon DEF WalkType
  <2> QED BY Zenon, <2>2, <2>3
<1> QED BY <1>1, <1>5, <1>6 DEF n

\* A loop that does not pass the end of the scan leaves samples, and stops where it
\* should.
LEMMA LoopFed ==
    ASSUME NEW w, NEW end \in Nat, FedTo(w, end), NEW until \in Nat, until <= end,
           NEW how \in Hows, Sync!Goes(w, until, how) => HowFits(w, how),
           arrived \in Seq(Nat), Ascend(arrived)
    PROVE  LET v == Sync!Loop(w, until, how)
           IN  /\ FedTo(v, end) /\ v.first = w.first /\ ~Sync!Goes(v, until, how)
               /\ how = "pass" => v.used = w.used /\ v.predict = w.predict
<1> DEFINE n == Len(w.deque)
<1>1. w \in WalkType /\ w.deque # <<>> /\ n \in Nat /\ n # 0
  BY DEF FedTo, Fed, WalkType
<1>2. PICK f : /\ Sync!Loop(w, until, how) = f[n]
               /\ f[0] = [w EXCEPT !.stop = FALSE]
               /\ \A i \in 1..n : f[i] = Sync!NextTurn(f[i - 1], until, how)
  <2>1. \E f : /\ Sync!Loop(w, until, how) = f[Len(w.deque)]
                /\ f[0] = [w EXCEPT !.stop = FALSE]
                /\ \A i \in 1..Len(w.deque) : f[i] = Sync!NextTurn(f[i - 1], until, how)
    <3>1. w \in WalkType /\ w.deque # <<>>
      BY <1>1
    <3> HIDE DEF n
    <3> QED BY <3>1, LoopIs, SMTT(30)
  <2> QED BY <2>1
<1> HIDE DEF n
<1> DEFINE Turned(i) ==
             /\ FedTo(f[i], end) /\ ~f[i].stop /\ f[i].first = w.first
             /\ how = "pass" => f[i].used = w.used /\ f[i].predict = w.predict
             /\ Sync!Goes(f[i], until, how) =>
                    /\ Len(f[i].deque) = n - i
                    /\ HowFits(f[i], how)
           S == {i \in 0..n : Turned(i)}
<1>3. 0 \in S
  <2>1. /\ f[0] \in WalkType /\ ~f[0].stop /\ f[0].deque = w.deque /\ f[0].next = w.next
        /\ f[0].last = w.last /\ f[0].first = w.first /\ f[0].predict = w.predict
        /\ f[0].used = w.used /\ f[0].bad = w.bad /\ f[0].current = w.current
    BY Zenon, <1>1, <1>2 DEF WalkType
  <2>2. FedTo(f[0], end)
    BY Zenon, <2>1 DEF FedTo, Fed
  <2>3. Sync!Goes(f[0], until, how) => Sync!Goes(w, until, how)
    BY <2>1 DEF Sync!Goes
  <2>4. Sync!Goes(f[0], until, how) => HowFits(f[0], how) /\ Len(f[0].deque) = n - 0
    BY <1>1, <2>1, <2>3 DEF HowFits, n
  <2>5. 0 \in 0..n
    BY <1>1
  <2> QED BY <2>1, <2>2, <2>4, <2>5
<1>4. ASSUME NEW i \in 1..n, i - 1 \in S PROVE i \in S
  <2>1. f[i] = Sync!NextTurn(f[i - 1], until, how) /\ i \in 0..n
    BY <1>1, <1>2
  <2>2. Turned(i - 1)
    BY <1>4
  <2>3. CASE Sync!Goes(f[i - 1], until, how)
    <3>1. /\ FedTo(f[i], end) /\ ~f[i].stop /\ f[i].first = f[i - 1].first
          /\ Len(f[i].deque) = Len(f[i - 1].deque) - 1
          /\ how = "pass" => f[i].used = f[i - 1].used /\ f[i].predict = f[i - 1].predict
      BY <2>1, <2>2, <2>3, TurnFed
    <3>2. Len(f[i].deque) = n - i
      <4>1. Len(f[i - 1].deque) = n - (i - 1)
        BY <2>2, <2>3
      <4> QED BY <1>1, <3>1, <4>1
    <3>3. HowFits(f[i], how)
      BY <2>2, <2>3, <3>1 DEF HowFits
    <3> QED BY <2>1, <2>2, <3>1, <3>2, <3>3
  <2>4. CASE ~Sync!Goes(f[i - 1], until, how)
    <3>1. f[i] = f[i - 1]
      BY <2>1, <2>4 DEF Sync!NextTurn
    <3> QED BY <2>1, <2>2, <2>4, <3>1
  <2> QED BY <2>3, <2>4
<1>5. Turned(n)
  <2> HIDE DEF S
  <2>1. \A i \in 0..n : i \in S
    BY Zenon, <1>1, <1>3, <1>4, CountsUp
  <2>2. n \in 0..n
    BY <1>1
  <2> QED BY <2>1, <2>2 DEF S
<1>6. ~Sync!Goes(f[n], until, how)
  <2>1. f[n].deque # <<>> /\ f[n].deque \in Seq(Nat)
    BY Zenon, <1>5 DEF FedTo, Fed, WalkType
  <2>2. Len(f[n].deque) # 0
    BY <2>1
  <2>3. n - n = 0
    BY <1>1
  <2> QED BY <1>5, <2>2, <2>3
<1> QED BY <1>2, <1>5, <1>6

\* What a loop leaves the filter with is not changed by the time it goes on to.
LEMMA AtPoint ==
    ASSUME NEW w, NEW end \in Nat, FedTo(w, end), NEW t \in Nat, t <= end, t <= w.next
    PROVE  /\ FedTo([w EXCEPT !.predict = t, !.current = t], end)
           /\ w.used = <<>> => FedTo([w EXCEPT !.first = FALSE, !.predict = t], end)
<1>1. w \in WalkType
  BY DEF FedTo, Fed
<1>2. ASSUME NEW v, v = [w EXCEPT !.predict = t, !.current = t] PROVE FedTo(v, end)
  <2>1. /\ v \in WalkType /\ v.deque = w.deque /\ v.next = w.next /\ v.last = w.last
        /\ v.first = w.first /\ v.predict = t /\ v.used = w.used /\ v.bad = w.bad
    BY Zenon, <1>1, <1>2 DEF WalkType
  <2> QED BY Zenon, <2>1 DEF FedTo, Fed
<1>3. ASSUME NEW v, v = [w EXCEPT !.first = FALSE, !.predict = t] PROVE FedTo(v, end)
  <2>1. /\ v \in WalkType /\ v.deque = w.deque /\ v.next = w.next /\ v.last = w.last
        /\ v.first = FALSE /\ v.predict = t /\ v.used = w.used /\ v.bad = w.bad
    BY Zenon, <1>1, <1>3 DEF WalkType
  <2> QED BY Zenon, <2>1 DEF FedTo, Fed
<1> QED BY <1>2, <1>3

LEMMA FirstPointFed ==
    ASSUME NEW w, NEW end \in Nat, FedTo(w, end), NEW t \in Nat, t <= end,
           arrived \in Seq(Nat), Ascend(arrived)
    PROVE  FedTo(Sync!FirstPoint(w, t), end) /\ ~Sync!FirstPoint(w, t).first
<1>1. w \in WalkType /\ w.first \in BOOLEAN
  BY DEF FedTo, Fed, WalkType
<1>2. CASE ~w.first
  BY <1>2 DEF Sync!FirstPoint
<1>3. CASE w.first
  <2> DEFINE v == Sync!Loop(w, t, "pass")
  <2>1. w.used = <<>> /\ HowFits(w, "pass") /\ "pass" \in Hows
    BY <1>3 DEF FedTo, Fed, HowFits, Hows
  <2>2. FedTo(v, end) /\ ~Sync!Goes(v, t, "pass") /\ v.used = w.used
    BY <2>1, LoopFed
  <2> HIDE DEF v
  <2>3. v \in WalkType /\ v.next \in Nat /\ t <= v.next
    <3>1. v \in WalkType /\ ~(v.next < t)
      BY <2>2 DEF FedTo, Fed, Sync!Goes
    <3>2. v.next \in Nat
      BY <3>1 DEF WalkType
    <3> QED BY <3>1, <3>2
  <2>4. FedTo([v EXCEPT !.first = FALSE, !.predict = t], end)
    BY Zenon, <2>1, <2>2, <2>3, AtPoint
  <2>5. Sync!FirstPoint(w, t) = [v EXCEPT !.first = FALSE, !.predict = t]
    BY <1>3 DEF Sync!FirstPoint, v
  <2>6. ~[v EXCEPT !.first = FALSE, !.predict = t].first
    BY <2>3 DEF WalkType
  <2> QED BY <2>4, <2>5, <2>6
<1> QED BY <1>1, <1>2, <1>3

LEMMA PointFed ==
    ASSUME NEW w, NEW end \in Nat, FedTo(w, end), NEW t \in Nat, t <= end,
           arrived \in Seq(Nat), Ascend(arrived), use_imu_as_input \in BOOLEAN
    PROVE  FedTo(Sync!Point(w, t), end)
<1> DEFINE a == Sync!FirstPoint(w, t)
<1>1. FedTo(a, end) /\ ~a.first
  BY FirstPointFed
<1>2. ASSUME NEW v, FedTo(v, end), ~Sync!Goes(v, t, "next") \/ ~Sync!Goes(v, t, "last")
      PROVE  FedTo([v EXCEPT !.predict = t, !.current = t], end)
  <2>1. v.next \in Nat /\ t <= v.next
    <3>1. v \in WalkType /\ ~(v.next < t)
      BY <1>2 DEF FedTo, Fed, Sync!Goes
    <3>2. v.next \in Nat
      BY <3>1 DEF WalkType
    <3> QED BY <3>1, <3>2
  <2> QED BY Zenon, <1>2, <2>1, AtPoint
<1>3. CASE use_imu_as_input
  <2>1. HowFits(a, "last") /\ "last" \in Hows
    BY <1>1, <1>3 DEF HowFits, Hows
  <2>2. FedTo(Sync!Loop(a, t, "last"), end) /\ ~Sync!Goes(Sync!Loop(a, t, "last"), t, "last")
    BY <1>1, <2>1, LoopFed
  <2>3. Sync!Point(w, t) = [Sync!Loop(a, t, "last") EXCEPT !.predict = t, !.current = t]
    BY <1>3 DEF Sync!Point, Sync!PointInput
  <2> QED BY Zenon, <1>2, <2>2, <2>3
<1>4. CASE ~use_imu_as_input
  <2> DEFINE c == Sync!CatchUp(a)
  <2>1. /\ a \in WalkType /\ a.deque # <<>> /\ a.next = Head(a.deque)
        /\ a.predict \in Nat /\ a.next \in Nat /\ a.predict <= end /\ a.predict <= a.next
    <3>1. /\ a \in WalkType /\ a.deque # <<>> /\ a.next = a.deque[1] /\ a.predict <= end
          /\ a.predict <= a.next
      BY <1>1 DEF FedTo, Fed
    <3>2. a.predict \in Nat /\ a.next \in Nat /\ a.deque \in Seq(Nat)
      BY Zenon, <3>1 DEF WalkType
    <3> QED BY <3>1, <3>2
  <2>2. c = Sync!Loop(a, a.predict, "pass")
    BY <2>1 DEF Sync!CatchUp
  <2>3. ~Sync!Goes(a, a.predict, "pass") /\ "pass" \in Hows /\ "next" \in Hows
    BY <2>1 DEF Sync!Goes, Hows
  <2>4. FedTo(c, end) /\ ~c.first
    BY <1>1, <2>1, <2>2, <2>3, LoopFed
  <2>5. HowFits(c, "next")
    BY <1>4, <2>4 DEF HowFits
  <2>6. FedTo(Sync!Loop(c, t, "next"), end) /\ ~Sync!Goes(Sync!Loop(c, t, "next"), t, "next")
    BY <2>3, <2>4, <2>5, LoopFed
  <2>7. Sync!Point(w, t) = [Sync!Loop(c, t, "next") EXCEPT !.predict = t, !.current = t]
    BY <1>4, <2>1 DEF Sync!Point, Sync!PointOutput
  <2> QED BY Zenon, <1>2, <2>6, <2>7
<1> QED BY <1>3, <1>4

LEMMA EmptyScanFed ==
    ASSUME NEW w, NEW end \in Nat, FedTo(w, end), arrived \in Seq(Nat), Ascend(arrived)
    PROVE  FedTo(Sync!EmptyScan(w, end), end)
<1> DEFINE a == [w EXCEPT !.last = w.next, !.next = Head(w.deque)]
<1>1. /\ w \in WalkType /\ w.deque # <<>> /\ w.next = Head(w.deque) /\ w.next \in Nat
      /\ w.last \in Nat /\ w.last <= w.next /\ w.used \in Seq(Nat)
  BY DEF FedTo, Fed, WalkType
<1>2. /\ a \in WalkType /\ a.deque = w.deque /\ a.next = w.next /\ a.last = w.next
      /\ a.first = w.first /\ a.predict = w.predict /\ a.used = w.used /\ a.bad = w.bad
  BY Zenon, <1>1 DEF WalkType
<1>3. Sync!EmptyScan(w, end) = IF ~Sync!Goes(a, end, "alone") THEN a
                               ELSE Sync!Loop(a, end, IF a.first THEN "pass" ELSE "alone")
  BY <1>1 DEF Sync!EmptyScan
<1> HIDE DEF a
<1>4. \A i \in 1..Len(a.used) : a.used[i] <= a.last
  <2> TAKE i \in 1..Len(a.used)
  <2>1. w.used[i] \in Nat /\ w.used[i] <= w.last
    BY Zenon, <1>1, <1>2, SeqOfNat DEF FedTo, Fed
  <2> QED BY <1>1, <1>2, <2>1
<1>5. a.last <= a.next
  BY <1>1, <1>2
<1>6. FedTo(a, end)
  BY Zenon, <1>2, <1>4, <1>5 DEF FedTo, Fed
<1>7. end <= end /\ {"pass", "alone"} \subseteq Hows
  BY DEF Hows
<1>8. CASE a.first
  <2>1. HowFits(a, "pass")
    BY Zenon, <1>6, <1>8 DEF FedTo, Fed, HowFits
  <2>2. FedTo(Sync!Loop(a, end, "pass"), end)
    BY <1>6, <1>7, <2>1, LoopFed
  <2> QED BY <1>3, <1>6, <1>8, <2>2
<1>9. CASE ~a.first
  <2>1. HowFits(a, "alone")
    BY <1>9 DEF HowFits
  <2>2. FedTo(Sync!Loop(a, end, "alone"), end)
    BY <1>6, <1>7, <2>1, LoopFed
  <2> QED BY <1>3, <1>6, <1>9, <2>2
<1> QED BY <1>8, <1>9

LEMMA WalkScanFed ==
    ASSUME NEW w, NEW scan \in Scan, FedTo(w, Sync!End(scan)),
           arrived \in Seq(Nat), Ascend(arrived), use_imu_as_input \in BOOLEAN
    PROVE  FedTo(Sync!WalkScan(w, scan), Sync!End(scan))
<1>1. /\ scan.beg \in Nat /\ Sync!End(scan) \in Nat /\ scan.beg <= Sync!End(scan)
      /\ Sync!End(scan) <= Sync!End(scan)
  BY SyncAssumption DEF Scan, Sync!End
<1>2. FedTo(Sync!Point(Sync!Point(w, scan.beg), Sync!End(scan)), Sync!End(scan))
  <2>1. FedTo(Sync!Point(w, scan.beg), Sync!End(scan))
    BY <1>1, PointFed
  <2> QED BY <1>1, <2>1, PointFed
<1>3. FedTo(Sync!EmptyScan(w, Sync!End(scan)), Sync!End(scan))
  BY <1>1, EmptyScanFed
<1> QED BY <1>2, <1>3 DEF Sync!WalkScan

LEMMA BegsOf ==
    ASSUME NEW s \in Seq(Scan)
    PROVE  /\ Begs(s) \in Seq(Nat) /\ Len(Begs(s)) = Len(s)
           /\ \A i \in 1..Len(s) : Begs(s)[i] = s[i].beg
           /\ \A x \in Scan : Begs(Append(s, x)) = Append(Begs(s), x.beg)
           /\ s # <<>> => Begs(Tail(s)) = Tail(Begs(s)) /\ Begs(s) # <<>>
<1>1. /\ Len(s) \in Nat /\ \A i \in 1..Len(s) : s[i] \in Scan
  OBVIOUS
<1>2. \A i \in 1..Len(s) : s[i].beg \in Nat
  BY <1>1 DEF Scan
<1>3. Begs(s) \in Seq(Nat) /\ Len(Begs(s)) = Len(s)
  BY <1>1, <1>2, IsASeq, LenProperties DEF Begs
<1>4. \A i \in 1..Len(s) : Begs(s)[i] = s[i].beg
  BY DEF Begs
<1>5. ASSUME NEW x \in Scan PROVE Begs(Append(s, x)) = Append(Begs(s), x.beg)
  <2> DEFINE k == Len(s)
             t == Append(s, x)
             a == Append(Begs(s), x.beg)
  <2>1. x.beg \in Nat
    BY DEF Scan
  <2>2. /\ Len(t) = k + 1 /\ t[k + 1] = x /\ \A i \in 1..k : t[i] = s[i]
    BY AppendProperties
  <2>3. /\ a \in Seq(Nat) /\ Len(a) = k + 1 /\ a[k + 1] = x.beg
        /\ \A i \in 1..k : a[i] = Begs(s)[i]
    BY <1>3, <2>1, AppendProperties
  <2>4. a = [i \in 1..(k + 1) |-> a[i]]
    BY <2>3
  <2>5. ASSUME NEW i \in 1..(k + 1) PROVE a[i] = t[i].beg
    <3>1. i \in 1..k \/ i = k + 1
      BY <1>1
    <3> HIDE DEF k, t, a
    <3> QED BY Zenon, <1>4, <2>2, <2>3, <3>1 DEF k
  <2>6. Begs(t) = [i \in 1..(k + 1) |-> t[i].beg]
    BY <2>2 DEF Begs
  <2> HIDE DEF k, t, a
  <2> QED BY Zenon, <2>4, <2>5, <2>6 DEF t, a
<1>6. ASSUME s # <<>> PROVE Begs(Tail(s)) = Tail(Begs(s)) /\ Begs(s) # <<>>
  <2> DEFINE k == Len(s)
             t == Tail(s)
             a == Tail(Begs(s))
  <2>1. k # 0 /\ Begs(s) # <<>>
    BY <1>3, <1>6
  <2>2. /\ Len(t) = k - 1 /\ \A i \in 1..(k - 1) : t[i] = s[i + 1]
    BY <1>6, HeadTailProperties
  <2>3. /\ a \in Seq(Nat) /\ Len(a) = k - 1 /\ \A i \in 1..(k - 1) : a[i] = Begs(s)[i + 1]
    BY <1>3, <2>1, HeadTailProperties
  <2>4. a = [i \in 1..(k - 1) |-> a[i]]
    <3> HIDE DEF a, k
    <3>1. a = [i \in 1..Len(a) |-> a[i]]
      BY <2>3
    <3> QED BY <2>3, <3>1
  <2>5. ASSUME NEW i \in 1..(k - 1) PROVE a[i] = t[i].beg
    <3>1. i + 1 \in 1..k
      BY <1>1
    <3> HIDE DEF k, t, a
    <3> QED BY Zenon, <1>4, <2>2, <2>3, <3>1 DEF k
  <2>6. Begs(t) = [i \in 1..(k - 1) |-> t[i].beg]
    BY <2>2 DEF Begs
  <2>7. Begs(t) = a
    <3> HIDE DEF k, t, a
    <3> QED BY <2>4, <2>5, <2>6
  <2> QED BY <2>1, <2>7
<1> QED BY <1>3, <1>4, <1>5, <1>6

\* Appending keeps an order when what is appended is past what there is.
LEMMA OrderAppends ==
    ASSUME NEW s \in Seq(Nat), NEW t \in Seq(Nat), NEW x \in Nat
    PROVE  /\ Ascend(s) /\ (\A i \in 1..Len(s) : s[i] < x) => Ascend(Append(s, x))
           /\ Before(s, t) /\ (\A i \in 1..Len(s) : s[i] < x) => Before(s, Append(t, x))
           /\ Before(s, t) /\ (\A j \in 1..Len(t) : x < t[j]) => Before(Append(s, x), t)
           /\ \A last \in Nat : UpTo(s, last) /\ x <= last => UpTo(Append(s, x), last)
<1> DEFINE k == Len(s)
           n == Len(t)
           u == Append(s, x)
           v == Append(t, x)
<1>1. k \in Nat /\ n \in Nat /\ (\A i \in 1..k : s[i] \in Nat) /\ \A i \in 1..n : t[i] \in Nat
  BY SeqOfNat
<1>2. /\ Len(u) = k + 1 /\ u[k + 1] = x /\ \A i \in 1..k : u[i] = s[i]
  BY AppendProperties
<1>3. /\ Len(v) = n + 1 /\ v[n + 1] = x /\ \A i \in 1..n : v[i] = t[i]
  BY AppendProperties
<1>4. /\ \A i \in 1..(k + 1) : i \in 1..k \/ i = k + 1
      /\ \A i \in 1..(n + 1) : i \in 1..n \/ i = n + 1
  <2> HIDE DEF k, n
  <2> QED BY <1>1
<1> HIDE DEF u, v
<1>5. ASSUME Ascend(s), \A i \in 1..k : s[i] < x PROVE Ascend(u)
  <2>1. ASSUME NEW i \in 1..(k + 1), NEW j \in 1..(k + 1), i < j PROVE u[i] < u[j]
    <3>1. i \in 1..k
      <4> HIDE DEF k
      <4> QED BY <1>1, <2>1
    <3>2. CASE j \in 1..k
      BY <1>2, <1>5, <2>1, <3>1, <3>2 DEF Ascend
    <3>3. CASE j = k + 1
      BY Zenon, <1>2, <1>5, <3>1, <3>3
    <3> QED BY <1>4, <3>2, <3>3
  <2> QED BY <1>2, <2>1 DEF Ascend
<1>6. ASSUME Before(s, t), \A i \in 1..k : s[i] < x PROVE Before(s, v)
  BY Zenon, <1>3, <1>4, <1>6 DEF Before
<1>7. ASSUME Before(s, t), \A j \in 1..n : x < t[j] PROVE Before(u, t)
  BY Zenon, <1>2, <1>4, <1>7 DEF Before
<1>8. ASSUME NEW last \in Nat, UpTo(s, last), x <= last PROVE UpTo(u, last)
  BY Zenon, <1>2, <1>4, <1>8 DEF UpTo
<1> QED BY <1>5, <1>6, <1>7, <1>8 DEF u, v

LEMMA LaterThan ==
    ASSUME NEW s \in Seq(Nat), NEW last \in Nat, UpTo(s, last), NEW x \in Nat, last < x
    PROVE  (\A i \in 1..Len(s) : s[i] < x) /\ UpTo(s, x)
<1> SUFFICES ASSUME NEW i \in 1..Len(s) PROVE s[i] < x /\ s[i] <= x
  BY DEF UpTo
<1>1. s[i] \in Nat /\ s[i] <= last
  BY SeqOfNat DEF UpTo
<1> QED BY <1>1

\* A new scan waits, or is put to those before it; or it sends these on; the first
\* that waits is taken.
LEMMA OrderKept ==
    ASSUME NEW m \in Seq(Nat), NEW b \in Seq(Nat), NEW p \in Seq(Nat), NEW last \in Nat,
           InOrder(m, b, p, last)
    PROVE  /\ \A x \in Nat : last < x =>
                 /\ p = <<>> => InOrder(m, Append(b, x), p, x)
                 /\ InOrder(m, b, Append(p, x), x)
                 /\ InOrder(m, b, p, x)
                 /\ p # <<>> => InOrder(m, Append(b, p[1]), <<>>, x)
           /\ b # <<>> => InOrder(Append(m, b[1]), Tail(b), p, last)
<1> USE DEF InOrder
<1>1. ASSUME NEW x \in Nat, last < x
      PROVE  /\ p = <<>> => InOrder(m, Append(b, x), p, x)
             /\ InOrder(m, b, Append(p, x), x)
             /\ InOrder(m, b, p, x)
             /\ p # <<>> => InOrder(m, Append(b, p[1]), <<>>, x)
  <2>1. /\ \A i \in 1..Len(m) : m[i] < x
        /\ \A i \in 1..Len(b) : b[i] < x
        /\ \A i \in 1..Len(p) : p[i] < x
        /\ UpTo(m, x) /\ UpTo(b, x) /\ UpTo(p, x)
    BY <1>1, LaterThan
  <2>2. x <= x
    OBVIOUS
  <2>3. ASSUME p = <<>> PROVE InOrder(m, Append(b, x), p, x)
    <3>1. Before(Append(b, x), p)
      BY <2>3 DEF Before
    <3>2. Ascend(Append(b, x)) /\ Before(m, Append(b, x)) /\ UpTo(Append(b, x), x)
      BY <2>1, <2>2, OrderAppends
    <3> QED BY <2>1, <3>1, <3>2
  <2>4. InOrder(m, b, Append(p, x), x)
    <3>1. Ascend(Append(p, x)) /\ Before(m, Append(p, x)) /\ Before(b, Append(p, x))
      BY <2>1, OrderAppends
    <3>2. UpTo(Append(p, x), x)
      BY <2>1, <2>2, OrderAppends
    <3> QED BY <2>1, <3>1, <3>2
  <2>5. ASSUME p # <<>> PROVE InOrder(m, Append(b, p[1]), <<>>, x)
    <3>1. 1 \in 1..Len(p) /\ p[1] \in Nat
      BY <2>5
    <3>2. (\A i \in 1..Len(m) : m[i] < p[1]) /\ (\A i \in 1..Len(b) : b[i] < p[1]) /\ p[1] <= x
      BY <2>1, <3>1 DEF Before, UpTo
    <3>3. /\ Ascend(Append(b, p[1])) /\ Before(m, Append(b, p[1])) /\ UpTo(Append(b, p[1]), x)
      BY Zenon, <2>1, <3>1, <3>2, OrderAppends
    <3>4. /\ Ascend(<<>>) /\ UpTo(<<>>, x) /\ Before(m, <<>>) /\ Before(Append(b, p[1]), <<>>)
      BY DEF Ascend, UpTo, Before
    <3> QED BY <2>1, <3>3, <3>4
  <2> QED BY <2>1, <2>3, <2>4, <2>5
<1>2. ASSUME b # <<>> PROVE InOrder(Append(m, b[1]), Tail(b), p, last)
  <2> DEFINE n == Len(b)
             c == Tail(b)
  <2>1. /\ Len(c) = n - 1 /\ c \in Seq(Nat) /\ \A i \in 1..(n - 1) : c[i] = b[i + 1]
    BY <1>2, HeadTailProperties
  <2>2. n \in Nat /\ n # 0 /\ \A i \in 1..n : b[i] \in Nat
    BY <1>2, SeqOfNat
  <2> HIDE DEF c, n
  <2>3. 1 \in 1..n /\ \A i \in 1..(n - 1) : i + 1 \in 1..n /\ 1 < i + 1
    BY <2>2
  <2>4. b[1] \in Nat /\ b[1] <= last
    BY <2>2, <2>3 DEF UpTo, n
  <2>5. \A i \in 1..Len(m) : m[i] < b[1]
    BY <2>3 DEF Before, n
  <2>6. \A j \in 1..Len(c) : b[1] < c[j]
    BY Zenon, <2>1, <2>3 DEF Ascend, n
  <2>7. Ascend(c)
    <3> SUFFICES ASSUME NEW i \in 1..(n - 1), NEW j \in 1..(n - 1), i < j PROVE c[i] < c[j]
      BY <2>1 DEF Ascend
    <3>1. i + 1 < j + 1 /\ i + 1 \in 1..n /\ j + 1 \in 1..n
      BY <2>3
    <3>2. b[i + 1] < b[j + 1]
      BY <3>1 DEF Ascend, n
    <3> QED BY Zenon, <2>1, <3>2
  <2>8. Before(m, c) /\ Before(c, p) /\ UpTo(c, last)
    BY Zenon, <2>1, <2>3 DEF Before, UpTo, n
  <2>9. \A j \in 1..Len(p) : b[1] < p[j]
    BY <2>3 DEF Before, n
  <2>10. /\ Ascend(Append(m, b[1])) /\ Before(Append(m, b[1]), c) /\ Before(Append(m, b[1]), p)
         /\ UpTo(Append(m, b[1]), last)
    BY Zenon, <2>1, <2>4, <2>5, <2>6, <2>8, <2>9, OrderAppends
  <2> QED BY <2>7, <2>8, <2>10 DEF c
<1> QED BY <1>1, <1>2

LEMMA SyncBegins == Sync!Init => SyncInv
<1> SUFFICES ASSUME Sync!Init PROVE SyncInv
  OBVIOUS
<1>1. /\ <<>> \in Seq(Nat) /\ <<>> \in Seq(Scan) /\ Len(<<>>) = 0 /\ 0 \in Nat
  OBVIOUS
<1>2. Sync!Walk \in WalkType
  BY Zenon, <1>1 DEF Sync!Init, Sync!Walk, WalkType
<1>3. Begs(<<>>) = <<>>
  BY DEF Begs
<1>4. InOrder(<<>>, <<>>, <<>>, 0)
  BY DEF InOrder, Ascend, Before, UpTo
<1>5. SamplesOrdered
  BY DEF Sync!Init, SamplesOrdered, Ascend, UpTo
<1>6. SyncTypes
  BY <1>1, <1>2 DEF Sync!Init, SyncTypes
<1>7. ScansOrdered
  BY <1>3, <1>4 DEF Sync!Init, ScansOrdered
<1> QED BY <1>5, <1>6, <1>7 DEF Sync!Init, SyncInv

LEMMA ScanArrives ==
    ASSUME SyncInv, Sync!livox_pcl_cbk
    PROVE  SyncInv'
<1> USE DEF SyncInv
<1>1. PICK stamp \in 1..Sync_MaxTime, points \in BOOLEAN :
          /\ stamp > Sync_last_timestamp_lidar /\ Sync_last_timestamp_lidar' = stamp
          /\ Sync!Buffered(stamp, points)
          /\ UNCHANGED <<imu_deque, last_timestamp_imu, arrived, con_frame, use_imu_as_input,
                         imu_need_init_, is_first_frame, time_predict, time_current, imu_next,
                         imu_last, used, pops_empty, mapped>>
  BY DEF Sync!livox_pcl_cbk, Sync!parameters, Sync!initialising, Sync!walking
<1> DEFINE b == Begs(Sync_lidar_buffer)
           p == Begs(ptr_con)
           x == [beg |-> stamp, points |-> points]
           last == Sync_last_timestamp_lidar
<1>2. /\ stamp \in Nat /\ last < stamp /\ last \in Nat /\ x \in Scan /\ x.beg = stamp
      /\ Combined \in Nat \ {0} /\ Sync_lidar_buffer \in Seq(Scan) /\ ptr_con \in Seq(Scan)
      /\ mapped \in Seq(Nat) /\ con_frame \in BOOLEAN
  BY <1>1, SyncAssumption DEF SyncTypes, Scan
<1>3. /\ b \in Seq(Nat) /\ p \in Seq(Nat) /\ (ptr_con = <<>> => p = <<>>)
      /\ Begs(Append(Sync_lidar_buffer, x)) = Append(b, stamp)
      /\ Begs(Append(ptr_con, x)) = Append(p, stamp)
  <2>1. Begs(<<>>) = <<>>
    BY DEF Begs
  <2> QED BY Zenon, <1>2, <2>1, BegsOf
<1>4. InOrder(mapped, b, p, last)
  BY DEF ScansOrdered
<1>5. /\ p = <<>> => InOrder(mapped, Append(b, stamp), p, stamp)
      /\ InOrder(mapped, b, Append(p, stamp), stamp)
      /\ InOrder(mapped, b, p, stamp)
      /\ p # <<>> => InOrder(mapped, Append(b, p[1]), <<>>, stamp)
  <2> HIDE DEF b, p, last
  <2> QED BY <1>2, <1>3, <1>4, OrderKept
<1>6. /\ Sync_lidar_buffer' \in Seq(Scan) /\ ptr_con' \in Seq(Scan)
      /\ InOrder(mapped, Begs(Sync_lidar_buffer'), Begs(ptr_con'), stamp)
      /\ ~con_frame => ptr_con' = <<>>
  <2>1. CASE ~con_frame
    <3>1. ptr_con = <<>> /\ ptr_con' = ptr_con
      BY <1>1, <2>1 DEF Sync!Buffered, ScansOrdered
    <3>2. Sync_lidar_buffer' = Append(Sync_lidar_buffer, x) \/ Sync_lidar_buffer' = Sync_lidar_buffer
      BY Zenon, <1>1, <2>1 DEF Sync!Buffered
    <3>3. Append(Sync_lidar_buffer, x) \in Seq(Scan)
      BY <1>2, AppendProperties
    <3> HIDE DEF x
    <3> QED BY Zenon, <1>2, <1>3, <1>5, <2>1, <3>1, <3>2, <3>3
  <2>2. CASE con_frame /\ Len(ptr_con) < Combined
    <3>1. ptr_con' = Append(ptr_con, x) /\ Sync_lidar_buffer' = Sync_lidar_buffer
      BY <1>1, <2>2 DEF Sync!Buffered
    <3>2. Append(ptr_con, x) \in Seq(Scan)
      BY <1>2, AppendProperties
    <3> HIDE DEF x
    <3> QED BY Zenon, <1>2, <1>3, <1>5, <2>2, <3>1, <3>2
  <2>3. CASE con_frame /\ ~(Len(ptr_con) < Combined)
    <3> DEFINE y == [beg |-> ptr_con[1].beg, points |-> \E i \in 1..Combined : ptr_con[i].points]
    <3>1. ptr_con' = <<>> /\ Sync_lidar_buffer' = Append(Sync_lidar_buffer, y)
      BY <1>1, <2>3 DEF Sync!Buffered
    <3>2. ptr_con # <<>> /\ 1 \in 1..Len(ptr_con)
      <4>1. Len(ptr_con) # 0 /\ Len(ptr_con) \in Nat
        BY <1>2, <2>3
      <4> QED BY <4>1
    <3>3. /\ p # <<>> /\ p[1] = ptr_con[1].beg /\ y.beg = p[1]
      BY <1>2, <3>2, BegsOf
    <3>4. y \in Scan
      <4>1. ptr_con[1] \in Scan
        BY <1>2, <3>2
      <4> QED BY <4>1 DEF Scan
    <3> HIDE DEF y
    <3>5. Begs(Append(Sync_lidar_buffer, y)) = Append(b, p[1])
      BY <1>2, <3>3, <3>4, BegsOf
    <3>6. Append(Sync_lidar_buffer, y) \in Seq(Scan) /\ <<>> \in Seq(Scan)
      BY <1>2, <3>4, AppendProperties
    <3>7. Begs(<<>>) = <<>>
      BY DEF Begs
    <3> HIDE DEF b, p
    <3> QED BY <1>5, <2>3, <3>1, <3>3, <3>5, <3>6, <3>7
  <2> QED BY <2>1, <2>2, <2>3
<1>7. Sync!Walk' = Sync!Walk
  BY <1>1 DEF Sync!Walk
<1>8. SyncTypes'
  BY <1>1, <1>2, <1>6, <1>7 DEF SyncTypes
<1>9. ScansOrdered'
  <2>1. InOrder(mapped, Begs(Sync_lidar_buffer), Begs(ptr_con), Sync_last_timestamp_lidar)'
    BY Zenon, <1>1, <1>6 DEF InOrder, Ascend, Before, UpTo, Begs
  <2> QED BY <1>1, <1>6, <2>1 DEF ScansOrdered
<1>10. SamplesOrdered'
  BY <1>1 DEF SamplesOrdered, Ascend, UpTo
<1>11. Fed(Sync!Walk) => Fed(Sync!Walk)'
  BY Zenon, <1>1, <1>7 DEF Fed
<1> QED BY <1>1, <1>8, <1>9, <1>10, <1>11

LEMMA SampleArrives ==
    ASSUME SyncInv, Sync!imu_cbk
    PROVE  SyncInv'
<1> USE DEF SyncInv
<1>1. PICK stamp \in 1..Sync_MaxTime :
          /\ stamp > last_timestamp_imu /\ last_timestamp_imu' = stamp
          /\ imu_deque' = Append(imu_deque, stamp) /\ arrived' = Append(arrived, stamp)
          /\ UNCHANGED <<Sync_lidar_buffer, Sync_last_timestamp_lidar, ptr_con, con_frame,
                         use_imu_as_input, imu_need_init_, is_first_frame, time_predict,
                         time_current, imu_next, imu_last, used, pops_empty, mapped>>
  BY DEF Sync!imu_cbk, Sync!parameters, Sync!initialising, Sync!walking
<1> DEFINE n == Len(arrived)
           m == Len(imu_deque)
<1>2. /\ stamp \in Nat /\ last_timestamp_imu \in Nat /\ last_timestamp_imu < stamp
      /\ arrived \in Seq(Nat) /\ imu_deque \in Seq(Nat)
  <2>1. Sync!Walk \in WalkType
    BY DEF SyncTypes
  <2>2. imu_deque \in Seq(Nat)
    BY <2>1 DEF Sync!Walk, WalkType
  <2> QED BY <1>1, <2>2, SyncAssumption DEF SyncTypes
<1>3. /\ n \in Nat /\ m \in Nat /\ m <= n
  BY <1>2 DEF SamplesOrdered
<1>4. /\ arrived' \in Seq(Nat) /\ Len(arrived') = n + 1 /\ arrived'[n + 1] = stamp
      /\ \A i \in 1..n : arrived'[i] = arrived[i]
      /\ imu_deque' \in Seq(Nat) /\ Len(imu_deque') = m + 1 /\ imu_deque'[m + 1] = stamp
      /\ \A i \in 1..m : imu_deque'[i] = imu_deque[i]
  BY <1>1, <1>2, AppendProperties
<1>5. \A i \in 1..m : imu_deque[i] = arrived[n - m + i]
  BY DEF SamplesOrdered
<1>6. Ascend(arrived') /\ UpTo(arrived', stamp)
  <2>1. UpTo(arrived, last_timestamp_imu) /\ Ascend(arrived)
    BY DEF SamplesOrdered
  <2>2. (\A i \in 1..Len(arrived) : arrived[i] < stamp) /\ UpTo(arrived, stamp) /\ stamp <= stamp
    BY <1>2, <2>1, LaterThan
  <2>3. Ascend(Append(arrived, stamp)) /\ UpTo(Append(arrived, stamp), stamp)
    BY <1>2, <2>1, <2>2, OrderAppends
  <2> QED BY <1>1, <2>3
<1> HIDE DEF n, m
<1>7. imu_deque' # <<>>
  <2>1. m + 1 # 0
    BY <1>3
  <2> QED BY <1>4, <2>1
<1>8. \A i \in 1..(m + 1) : imu_deque'[i] = arrived'[(n + 1) - (m + 1) + i]
  <2> TAKE i \in 1..(m + 1)
  <2>1. (n + 1) - (m + 1) + i = n - m + i /\ n - m + (m + 1) = n + 1
    BY <1>3
  <2>2. CASE i \in 1..m
    <3>1. n - m + i \in 1..n
      BY <1>3, <2>2
    <3> QED BY Zenon, <1>4, <1>5, <2>1, <2>2, <3>1
  <2>3. CASE i = m + 1
    BY <1>4, <2>1, <2>3
  <2> QED BY <1>3, <2>2, <2>3
<1>9. SamplesOrdered'
  <2>1. Ascend(arrived)' /\ UpTo(arrived, last_timestamp_imu)'
    BY <1>1, <1>6 DEF Ascend, UpTo
  <2>2. imu_deque'[Len(imu_deque')] = last_timestamp_imu' /\ Len(imu_deque') <= Len(arrived')
    BY <1>1, <1>3, <1>4
  <2>3. \A i \in 1..Len(imu_deque') : imu_deque'[i] = arrived'[Len(arrived') - Len(imu_deque') + i]
    BY <1>4, <1>8
  <2> QED BY <2>1, <2>2, <2>3 DEF SamplesOrdered
<1>10. Sync!Walk' \in WalkType
  <2>1. Sync!Walk \in WalkType
    BY DEF SyncTypes
  <2>2. /\ imu_next \in Nat /\ imu_last \in Nat /\ is_first_frame \in BOOLEAN
        /\ time_current \in Nat /\ time_predict \in Nat /\ used \in Seq(Nat)
        /\ pops_empty \in BOOLEAN
    BY <2>1 DEF Sync!Walk, WalkType
  <2> QED BY <1>1, <1>4, <2>2 DEF Sync!Walk, WalkType
<1>11. SyncTypes'
  BY <1>1, <1>2, <1>4, <1>10 DEF SyncTypes
<1>12. ScansOrdered'
  BY <1>1 DEF ScansOrdered
<1>13. ASSUME Fed(Sync!Walk) PROVE Fed(Sync!Walk)'
  <2> DEFINE w == Sync!Walk
             k == Len(used)
  <2>1. /\ w.deque = imu_deque /\ w.next = imu_next /\ w.last = imu_last /\ w.used = used
        /\ w.first = is_first_frame /\ w.predict = time_predict /\ w.bad = pops_empty
    BY DEF Sync!Walk
  <2>2. /\ w'.deque = imu_deque' /\ w'.next = imu_next /\ w'.last = imu_last /\ w'.used = used
        /\ w'.first = is_first_frame /\ w'.predict = time_predict /\ w'.bad = pops_empty
    BY <1>1 DEF Sync!Walk
  <2> HIDE DEF w
  <2>3. imu_next = imu_deque'[1]
    <3>1. 1 \in 1..m
      <4>1. m # 0
        BY <1>2, <1>13, <2>1 DEF Fed, m, w
      <4> QED BY <1>3, <4>1
    <3> QED BY <1>4, <1>13, <2>1, <3>1 DEF Fed, w
  <2>4. ASSUME ~use_imu_as_input
        PROVE  /\ k <= (n + 1) - (m + 1)
               /\ \A i \in 1..k : used[i] = arrived'[(n + 1) - (m + 1) - k + i]
    <3>1. k <= n - m /\ \A i \in 1..k : used[i] = arrived[n - m - k + i]
      BY <1>13, <2>1, <2>4 DEF Fed, n, m, w
    <3>2. k \in Nat
      <4>1. used \in Seq(Nat)
        BY <1>13, <2>1 DEF Fed, WalkType, w
      <4> QED BY <4>1
    <3> HIDE DEF k
    <3>3. k <= (n + 1) - (m + 1)
      BY <1>3, <3>1, <3>2
    <3>4. ASSUME NEW i \in 1..k PROVE used[i] = arrived'[(n + 1) - (m + 1) - k + i]
      <4>1. (n + 1) - (m + 1) - k + i = n - m - k + i /\ n - m - k + i \in 1..n
        BY <1>3, <3>1, <3>2
      <4> QED BY <1>4, <3>1, <4>1
    <3> QED BY <3>3, <3>4
  <2>5. w' \in WalkType
    BY <1>11 DEF SyncTypes, w
  <2>6. /\ ~pops_empty /\ imu_last <= imu_next
        /\ \A i \in 1..Len(used) : used[i] <= imu_last
        /\ \A i, j \in 1..Len(used) : i < j => used[i] <= used[j]
        /\ used # <<>> => ~is_first_frame
        /\ ~is_first_frame => time_predict <= imu_next
    BY <1>13, <2>1 DEF Fed, w
  <2>7. m + 1 <= n + 1
    BY <1>3
  <2>8. /\ Len(w'.deque) = m + 1 /\ Len(arrived') = n + 1 /\ w'.deque # <<>>
        /\ w'.next = w'.deque[1] /\ Len(w'.deque) <= Len(arrived')
        /\ \A i \in 1..Len(w'.deque) : w'.deque[i] = arrived'[Len(arrived') - Len(w'.deque) + i]
    BY <1>4, <1>7, <1>8, <2>2, <2>3, <2>7
  <2>9. ~use_imu_as_input' =>
           /\ Len(w'.used) <= Len(arrived') - Len(w'.deque)
           /\ \A i \in 1..Len(w'.used) :
                 w'.used[i] = arrived'[Len(arrived') - Len(w'.deque) - Len(w'.used) + i]
    BY <1>1, <2>2, <2>4, <2>8 DEF k
  <2>10. /\ ~w'.bad /\ w'.last <= w'.next
         /\ \A i \in 1..Len(w'.used) : w'.used[i] <= w'.last
         /\ \A i, j \in 1..Len(w'.used) : i < j => w'.used[i] <= w'.used[j]
         /\ w'.used # <<>> => ~w'.first
         /\ ~w'.first => w'.predict <= w'.next
    BY <2>2, <2>6
  <2>11. Fed(w)'
    BY <2>5, <2>8, <2>9, <2>10 DEF Fed
  <2> QED BY <2>11 DEF w
<1> QED BY <1>1, <1>7, <1>9, <1>11, <1>12, <1>13

\* Before its points are gone through, a scan is one that can be.
LEMMA TakenFed ==
    ASSUME SyncInv, Sync!Synced
    PROVE  LET scan == Head(Sync_lidar_buffer)
               w == Sync!TakeSamples(Sync!Walk, scan)
           IN  /\ scan \in Scan /\ scan = Sync_lidar_buffer[1] /\ FedTo(w, Sync!End(scan))
               /\ w.used = used /\ (\A i \in 1..Len(mapped) : mapped[i] < scan.beg)
<1> USE DEF SyncInv
<1> DEFINE scan == Head(Sync_lidar_buffer)
           end == Sync!End(scan)
           w == Sync!Walk
<1>1. /\ Sync_lidar_buffer \in Seq(Scan) /\ Sync_lidar_buffer # <<>> /\ imu_deque # <<>>
      /\ last_timestamp_imu >= end /\ mapped \in Seq(Nat) /\ arrived \in Seq(Nat)
      /\ w \in WalkType /\ imu_need_init_ \in BOOLEAN
  BY DEF SyncTypes, Sync!Synced
<1>2. scan \in Scan /\ scan = Sync_lidar_buffer[1] /\ scan.beg \in Nat /\ 1 \in 1..Len(Sync_lidar_buffer)
  <2>1. Len(Sync_lidar_buffer) \in Nat /\ Len(Sync_lidar_buffer) # 0
    BY <1>1
  <2>2. 1 \in 1..Len(Sync_lidar_buffer)
    BY <2>1
  <2>3. scan = Sync_lidar_buffer[1] /\ scan \in Scan
    BY <1>1, <2>2
  <2> HIDE DEF scan
  <2> QED BY <2>2, <2>3 DEF Scan
<1>3. end \in Nat /\ end = scan.beg + Duration /\ Duration \in Nat
  BY <1>2, SyncAssumption DEF Sync!End
<1>4. /\ w.deque = imu_deque /\ w.next = imu_next /\ w.last = imu_last /\ w.used = used
      /\ w.first = is_first_frame /\ w.predict = time_predict /\ w.bad = pops_empty
  BY DEF Sync!Walk
<1>5. /\ imu_deque \in Seq(Nat) /\ imu_next \in Nat /\ imu_last \in Nat /\ used \in Seq(Nat)
      /\ time_predict \in Nat
  BY <1>1, <1>4 DEF WalkType
<1>6. \A i \in 1..Len(mapped) : mapped[i] < scan.beg
  <2>1. Before(mapped, Begs(Sync_lidar_buffer))
    BY DEF ScansOrdered, InOrder
  <2>2. Begs(Sync_lidar_buffer)[1] = scan.beg /\ 1 \in 1..Len(Begs(Sync_lidar_buffer))
    BY <1>1, <1>2, BegsOf
  <2> HIDE DEF scan
  <2> QED BY <2>1, <2>2 DEF Before
<1> HIDE DEF scan, end, w
<1>7. time_predict <= end
  <2>1. CASE mapped = <<>>
    BY <1>3, <2>1
  <2>2. CASE mapped # <<>>
    <3>1. time_predict <= mapped[Len(mapped)] + Duration
      BY <2>2
    <3>2. Len(mapped) \in 1..Len(mapped) /\ mapped[Len(mapped)] \in Nat
      <4>1. Len(mapped) # 0 /\ Len(mapped) \in Nat
        BY <1>1, <2>2
      <4>2. Len(mapped) \in 1..Len(mapped)
        BY <4>1
      <4> QED BY <1>1, <4>2
    <3>3. mapped[Len(mapped)] < scan.beg
      BY <1>6, <3>2
    <3> QED BY <1>2, <1>3, <1>5, <3>1, <3>2, <3>3
  <2> QED BY <2>1, <2>2
<1>8. end <= imu_deque[Len(imu_deque)]
  <2>1. imu_deque[Len(imu_deque)] = last_timestamp_imu
    BY <1>1 DEF SamplesOrdered
  <2>2. last_timestamp_imu \in Nat
    BY DEF SyncTypes
  <2> QED BY <1>1, <1>3, <2>1, <2>2
<1>9. CASE ~imu_need_init_
  <2>1. mapped # <<>>
    BY <1>9
  <2>2. FedTo(w, end)
    BY <1>4, <1>7, <1>8, <2>1 DEF FedTo, w
  <2>3. Sync!TakeSamples(w, scan) = w
    BY <1>9 DEF Sync!TakeSamples
  <2> QED BY <1>2, <1>4, <1>6, <2>2, <2>3 DEF w, scan, end
<1>10. CASE imu_need_init_
  <2> DEFINE a == [w EXCEPT !.next = Head(w.deque)]
  <2>1. used = <<>>
    BY <1>10
  <2>2. Head(imu_deque) = imu_deque[1] /\ imu_deque[1] \in Nat
    BY <1>1, <1>5
  <2>3. /\ a \in WalkType /\ a.deque = imu_deque /\ a.next = imu_deque[1] /\ a.last = imu_last
        /\ a.first = is_first_frame /\ a.predict = time_predict /\ a.used = <<>>
        /\ a.bad = pops_empty
    BY Zenon, <1>1, <1>4, <2>1, <2>2 DEF WalkType
  <2> HIDE DEF a
  <2>4. imu_last <= imu_deque[1] /\ (~is_first_frame => time_predict <= imu_deque[1])
    <3>1. CASE mapped = <<>>
      BY <2>2, <3>1
    <3>2. CASE mapped # <<>>
      BY <1>4, <3>2 DEF Fed, w
    <3> QED BY <3>1, <3>2
  <2>5. Fed(a)
    <3>1. /\ Len(a.deque) <= Len(arrived)
          /\ \A i \in 1..Len(a.deque) : a.deque[i] = arrived[Len(arrived) - Len(a.deque) + i]
      BY <2>3 DEF SamplesOrdered
    <3>2. Len(a.used) = 0 /\ Len(a.used) <= Len(arrived) - Len(a.deque)
      <4>1. Len(arrived) \in Nat /\ Len(a.deque) \in Nat
        BY <1>1, <1>5, <2>3
      <4> QED BY <2>3, <3>1, <4>1
    <3> QED BY <1>1, <2>3, <2>4, <3>1, <3>2 DEF Fed
  <2>6. FedTo(a, end)
    BY <1>7, <1>8, <2>3, <2>5 DEF FedTo
  <2>7. HowFits(a, "pass") /\ "pass" \in Hows /\ end <= end
    BY <1>3, <2>3 DEF HowFits, Hows
  <2>8. Sync!TakeSamples(w, scan) = Sync!Loop(a, end, "pass")
    BY <1>10 DEF Sync!TakeSamples, a, end
  <2>9. arrived \in Seq(Nat) /\ Ascend(arrived)
    BY <1>1 DEF SamplesOrdered
  <2>10. FedTo(Sync!Loop(a, end, "pass"), end) /\ Sync!Loop(a, end, "pass").used = a.used
    BY <1>3, <2>6, <2>7, <2>9, LoopFed
  <2> QED BY <1>2, <1>6, <2>1, <2>3, <2>8, <2>10 DEF w, scan, end
<1> QED BY <1>1, <1>9, <1>10

LEMMA ScanTaken ==
    ASSUME SyncInv, Sync!MainLoop
    PROVE  SyncInv'
<1> USE DEF SyncInv
<1> DEFINE scan == Head(Sync_lidar_buffer)
           end == Sync!End(scan)
           w == Sync!TakeSamples(Sync!Walk, scan)
           v == IF Sync_init_map /\ ~imu_need_init_ THEN Sync!WalkScan(w, scan) ELSE w
<1>1. /\ scan \in Scan /\ scan = Sync_lidar_buffer[1] /\ FedTo(w, end) /\ w.used = used
      /\ \A i \in 1..Len(mapped) : mapped[i] < scan.beg
  BY TakenFed DEF Sync!MainLoop
<1>2. /\ Sync_lidar_buffer # <<>> /\ Sync_lidar_buffer' = Tail(Sync_lidar_buffer)
      /\ mapped' = Append(mapped, scan.beg)
      /\ imu_deque' = v.deque /\ imu_next' = v.next /\ imu_last' = v.last
      /\ is_first_frame' = v.first /\ time_current' = v.current
      /\ time_predict' = v.predict /\ used' = v.used /\ pops_empty' = v.bad
      /\ UNCHANGED <<Sync_last_timestamp_lidar, last_timestamp_imu, ptr_con, arrived, con_frame,
                     use_imu_as_input>>
  BY DEF Sync!MainLoop, Sync!Synced, Sync!parameters
<1>3. imu_need_init_' \in BOOLEAN /\ (imu_need_init_' => imu_need_init_)
  <2>1. imu_need_init_ \in BOOLEAN
    BY DEF SyncTypes
  <2>2. \/ imu_need_init_' = imu_need_init_
        \/ imu_need_init_ /\ \E taken : imu_need_init_' = (Sync!Counted(taken) <= InitCount)
    BY DEF Sync!MainLoop
  <2>3. CASE imu_need_init_' = imu_need_init_
    BY <2>1, <2>3
  <2>4. ASSUME imu_need_init_, NEW taken, imu_need_init_' = (Sync!Counted(taken) <= InitCount)
        PROVE  imu_need_init_' \in BOOLEAN
    BY <2>4
  <2> QED BY <2>2, <2>3, <2>4
<1>4. /\ Sync_lidar_buffer \in Seq(Scan) /\ ptr_con \in Seq(Scan) /\ mapped \in Seq(Nat)
      /\ arrived \in Seq(Nat) /\ Ascend(arrived) /\ use_imu_as_input \in BOOLEAN
      /\ imu_need_init_ \in BOOLEAN /\ Sync_last_timestamp_lidar \in Nat /\ last_timestamp_imu \in Nat
      /\ con_frame \in BOOLEAN
  BY DEF SyncTypes, SamplesOrdered
<1>5. scan.beg \in Nat /\ end \in Nat /\ end = scan.beg + Duration
  BY <1>1, SyncAssumption DEF Scan, Sync!End
<1> HIDE DEF scan, end, w
<1>6. FedTo(v, end) /\ (imu_need_init_ => v.used = used)
  <2>1. FedTo(Sync!WalkScan(w, scan), end)
    BY <1>1, <1>4, WalkScanFed DEF end
  <2> QED BY <1>1, <2>1
<1> HIDE DEF v
<1>7. /\ v \in WalkType /\ Fed(v) /\ v.predict <= end /\ end <= v.deque[Len(v.deque)] /\ ~v.bad
  BY Zenon, <1>6 DEF FedTo, Fed
<1>8. /\ Sync!Walk'.deque = v.deque /\ Sync!Walk'.next = v.next /\ Sync!Walk'.last = v.last
      /\ Sync!Walk'.first = v.first /\ Sync!Walk'.predict = v.predict /\ Sync!Walk'.used = v.used
      /\ Sync!Walk'.bad = v.bad
  BY <1>2 DEF Sync!Walk
<1>9. Sync!Walk' \in WalkType
  <2>1. /\ v.deque \in Seq(Nat) /\ v.next \in Nat /\ v.last \in Nat /\ v.first \in BOOLEAN
        /\ v.current \in Nat /\ v.predict \in Nat /\ v.used \in Seq(Nat) /\ v.bad \in BOOLEAN
    BY <1>7 DEF WalkType
  <2> QED BY <1>2, <2>1 DEF Sync!Walk, WalkType
<1>10. Fed(Sync!Walk)'
  <2> DEFINE u == Sync!Walk
  <2>1. /\ u'.deque = v.deque /\ u'.next = v.next /\ u'.last = v.last
        /\ u'.first = v.first /\ u'.predict = v.predict /\ u'.used = v.used
        /\ u'.bad = v.bad /\ u' \in WalkType /\ arrived' = arrived
        /\ use_imu_as_input' = use_imu_as_input
    BY <1>2, <1>8, <1>9
  <2> HIDE DEF u
  <2>2. Fed(u)'
    BY Zenon, <1>7, <2>1 DEF Fed
  <2> QED BY <2>2 DEF u
<1>11. /\ Tail(Sync_lidar_buffer) \in Seq(Scan) /\ Append(mapped, scan.beg) \in Seq(Nat)
       /\ Append(mapped, scan.beg) # <<>> /\ mapped' # <<>> /\ mapped'[Len(mapped')] = scan.beg
  <2>1. Tail(Sync_lidar_buffer) \in Seq(Scan)
    BY <1>2, <1>4, HeadTailProperties
  <2>2. /\ Append(mapped, scan.beg) \in Seq(Nat) /\ Len(Append(mapped, scan.beg)) = Len(mapped) + 1
        /\ Append(mapped, scan.beg)[Len(mapped) + 1] = scan.beg
    BY <1>4, <1>5, AppendProperties
  <2>3. Len(mapped) + 1 # 0
    BY <1>4
  <2> QED BY Zenon, <1>2, <2>1, <2>2, <2>3
<1>12. SyncTypes'
  BY <1>2, <1>3, <1>4, <1>9, <1>11 DEF SyncTypes
<1>13. ScansOrdered'
  <2> DEFINE b == Begs(Sync_lidar_buffer)
             p == Begs(ptr_con)
  <2>1. /\ b \in Seq(Nat) /\ p \in Seq(Nat) /\ Begs(Tail(Sync_lidar_buffer)) = Tail(b)
        /\ b # <<>> /\ b[1] = scan.beg
    <3>1. 1 \in 1..Len(Sync_lidar_buffer)
      <4>1. Len(Sync_lidar_buffer) # 0 /\ Len(Sync_lidar_buffer) \in Nat
        BY <1>2, <1>4
      <4> QED BY <4>1
    <3> QED BY <1>1, <1>2, <1>4, <3>1, BegsOf
  <2>2. InOrder(mapped, b, p, Sync_last_timestamp_lidar)
    BY DEF ScansOrdered
  <2>3. InOrder(Append(mapped, scan.beg), Tail(b), p, Sync_last_timestamp_lidar)
    <3> HIDE DEF b, p
    <3>1. InOrder(Append(mapped, b[1]), Tail(b), p, Sync_last_timestamp_lidar)
      BY <1>4, <2>1, <2>2, OrderKept
    <3> QED BY <2>1, <3>1
  <2>4. InOrder(mapped', Begs(Sync_lidar_buffer'), Begs(ptr_con'), Sync_last_timestamp_lidar')
    BY Zenon, <1>2, <2>1, <2>3
  <2>5. InOrder(mapped, Begs(Sync_lidar_buffer), Begs(ptr_con), Sync_last_timestamp_lidar)'
    BY Zenon, <2>4 DEF InOrder, Ascend, Before, UpTo, Begs
  <2> QED BY <1>2, <2>5 DEF ScansOrdered
<1>14. SamplesOrdered'
  <2>1. UpTo(arrived, last_timestamp_imu) /\ Ascend(arrived)
    BY DEF SamplesOrdered
  <2>2. UpTo(arrived, last_timestamp_imu)' /\ Ascend(arrived)'
    BY <1>2, <2>1 DEF UpTo, Ascend
  <2>3. /\ v.deque # <<>> /\ Len(v.deque) <= Len(arrived)
        /\ \A i \in 1..Len(v.deque) : v.deque[i] = arrived[Len(arrived) - Len(v.deque) + i]
    BY Zenon, <1>7 DEF Fed
  <2>4. v.deque[Len(v.deque)] = last_timestamp_imu
    <3>1. imu_deque # <<>> /\ imu_deque[Len(imu_deque)] = last_timestamp_imu
      BY DEF SamplesOrdered, Sync!MainLoop, Sync!Synced
    <3>2. /\ Len(imu_deque) <= Len(arrived)
          /\ \A i \in 1..Len(imu_deque) : imu_deque[i] = arrived[Len(arrived) - Len(imu_deque) + i]
      BY DEF SamplesOrdered
    <3>3. ASSUME NEW d \in Seq(Nat), d # <<>>, Len(d) <= Len(arrived),
                 \A i \in 1..Len(d) : d[i] = arrived[Len(arrived) - Len(d) + i]
          PROVE  d[Len(d)] = arrived[Len(arrived)]
      <4>1. Len(d) \in Nat /\ Len(d) # 0 /\ Len(arrived) \in Nat
        BY <1>4, <3>3
      <4>2. Len(d) \in 1..Len(d) /\ Len(arrived) - Len(d) + Len(d) = Len(arrived)
        BY <4>1
      <4> QED BY Zenon, <3>3, <4>2
    <3>4. imu_deque \in Seq(Nat) /\ v.deque \in Seq(Nat)
      <4>1. Sync!Walk \in WalkType
        BY DEF SyncTypes
      <4>2. imu_deque \in Seq(Nat)
        BY <4>1 DEF Sync!Walk, WalkType
      <4> QED BY <1>7, <4>2 DEF WalkType
    <3> QED BY Zenon, <2>3, <3>1, <3>2, <3>3, <3>4
  <2> QED BY Zenon, <1>2, <2>2, <2>3, <2>4 DEF SamplesOrdered
<1>15. /\ ~pops_empty' /\ (imu_need_init_' => used' = <<>>)
       /\ time_predict' <= mapped'[Len(mapped')] + Duration
  BY <1>2, <1>3, <1>5, <1>6, <1>7, <1>11
<1> QED BY <1>10, <1>11, <1>12, <1>13, <1>14, <1>15

LEMMA SyncKept ==
    /\ Sync!Init => SyncInv
    /\ SyncInv /\ [Sync!Next]_SyncVars => SyncInv'
<1>1. ASSUME SyncInv, UNCHANGED SyncVars PROVE SyncInv'
  <2>1. Sync!Walk' = Sync!Walk /\ arrived' = arrived /\ use_imu_as_input' = use_imu_as_input
    BY <1>1 DEF SyncVars, Sync!Walk
  <2>2. Fed(Sync!Walk)' = Fed(Sync!Walk)
    BY <2>1 DEF Fed
  <2>3. SyncTypes' /\ SamplesOrdered'
    BY <1>1, <2>1 DEF SyncVars, SyncInv, SyncTypes, SamplesOrdered, Ascend, UpTo
  <2>4. ScansOrdered'
    BY Zenon, <1>1 DEF SyncVars, SyncInv, ScansOrdered, InOrder, Ascend, UpTo, Before, Begs
  <2> QED BY <1>1, <2>2, <2>3, <2>4 DEF SyncVars, SyncInv
<1>2. ASSUME SyncInv, Sync!Next PROVE SyncInv'
  BY <1>2, ScanArrives, SampleArrives, ScanTaken DEF Sync!Next
<1> QED BY <1>1, <1>2, SyncBegins

LEMMA SyncIsSound ==
    SyncInv => /\ Sync!SamplesUsedOnce /\ Sync!ScansInOrder
               /\ Sync!NextIsFront /\ Sync!NeverPopsEmpty
<1> SUFFICES ASSUME SyncInv
             PROVE  /\ Sync!SamplesUsedOnce /\ Sync!ScansInOrder
                    /\ Sync!NextIsFront /\ Sync!NeverPopsEmpty
  OBVIOUS
<1> USE DEF SyncInv
<1>1. Sync!NeverPopsEmpty
  BY DEF Sync!NeverPopsEmpty
<1>2. Sync!ScansInOrder
  BY DEF Sync!ScansInOrder, ScansOrdered, InOrder, Ascend
<1>3. /\ Sync!Walk.deque = imu_deque /\ Sync!Walk.next = imu_next /\ Sync!Walk.used = used
      /\ Sync!Walk.last = imu_last
  BY DEF Sync!Walk
<1>4. /\ imu_deque \in Seq(Nat) /\ used \in Seq(Nat) /\ arrived \in Seq(Nat)
  <2>1. Sync!Walk \in WalkType
    BY DEF SyncTypes
  <2> QED BY <2>1 DEF Sync!Walk, WalkType, SyncTypes
<1>5. Sync!NextIsFront
  <2> SUFFICES ASSUME mapped # <<>> PROVE imu_deque # <<>> /\ imu_next = Head(imu_deque)
    BY DEF Sync!NextIsFront
  <2>1. imu_deque # <<>> /\ imu_next = imu_deque[1]
    BY <1>3 DEF Fed
  <2> QED BY <1>4, <2>1
<1>6. used = <<>> \/ Fed(Sync!Walk)
  OBVIOUS
<1>7. \A i, j \in 1..Len(used) : i < j => used[i] <= used[j]
  <2>1. CASE used = <<>>
    BY <2>1
  <2>2. CASE Fed(Sync!Walk)
    BY <1>3, <2>2 DEF Fed
  <2> QED BY <1>6, <2>1, <2>2
<1>8. ASSUME ~use_imu_as_input, used # <<>>
      PROVE  \E i \in 1..Len(arrived) : used = SubSeq(arrived, i, i + Len(used) - 1)
  <2> DEFINE n == Len(arrived)
             m == Len(imu_deque)
             k == Len(used)
             i == n - m - k + 1
  <2>1. /\ n \in Nat /\ m \in Nat /\ k \in Nat /\ k # 0
    BY <1>4, <1>8
  <2>2. /\ m # 0 /\ k <= n - m /\ \A j \in 1..k : used[j] = arrived[n - m - k + j]
    BY <1>3, <1>4, <1>6, <1>8 DEF Fed
  <2> HIDE DEF n, m, k
  <2>3. i \in 1..n /\ i + k - 1 \in 1..n /\ (i + k - 1) - i + 1 = k /\ i <= i + k - 1 + 1
    BY <2>1, <2>2
  <2>4. /\ SubSeq(arrived, i, i + k - 1) \in Seq(Nat)
        /\ Len(SubSeq(arrived, i, i + k - 1)) = k
        /\ \A j \in 1..k : SubSeq(arrived, i, i + k - 1)[j] = arrived[i + j - 1]
    <3> HIDE DEF i
    <3> QED BY <1>4, <2>1, <2>3, SubSeqProperties DEF n
  <2>5. \A j \in 1..k : i + j - 1 = n - m - k + j
    BY <2>1
  <2> HIDE DEF i
  <2>6. \A j \in 1..k : used[j] = SubSeq(arrived, i, i + k - 1)[j]
    BY <2>2, <2>4, <2>5
  <2>7. used = SubSeq(arrived, i, i + k - 1)
    BY Zenon, <1>4, <2>4, <2>6, SeqEqual DEF k
  <2> QED BY <2>3, <2>7 DEF n, k
<1>9. Sync!SamplesUsedOnce
  BY <1>7, <1>8 DEF Sync!SamplesUsedOnce
<1> QED BY <1>1, <1>2, <1>5, <1>9

\* For any stamps and any length of a scan: every sample is used once and in order,
\* scans are taken in order, and the queue of samples is never found empty
\* (sync_packages, imu_cbk and the loops of point_lio's main).
THEOREM SamplesAreUsedOnce == Spec => []SamplesUsedOnce
<1>1. SyncInv => SamplesUsedOnce
  BY SyncIsSound DEF SamplesUsedOnce
<1> QED BY <1>1, SyncKept, SyncSteps, PTL DEF Spec

-----------------------------------------------------------------------------
(* The launch files, for every combination of their arguments.              *)

Managers == {"lifecycle_manager_navigation", "lifecycle_manager_localization"}
Navigators == {"controller_server", "smoother_server", "planner_server", "behavior_server",
               "bt_navigator", "waypoint_follower", "velocity_smoother"}
Composables == {"sensor_scan_generation", "fake_vel_transform", "loam_interface", "odin_interface",
                "map_server", "small_gicp_relocalization"} \cup Navigators
Watched == {"terrain_analysis", "terrain_analysis_ext", "point_lio", "map_saver",
            "pointcloud_to_laserscan", "slam_toolbox"}

\* The names of components, and of processes that respawn.
Composed(a) == IF a.use_composition THEN Composables \cup Managers ELSE {}
Kept(a) ==
    IF ~a.use_respawn THEN {}
    ELSE IF a.use_composition THEN Watched ELSE Watched \cup Composables

\* What a node is shows in its name.
Fits(n, a) ==
    /\ n.component \in BOOLEAN /\ n.respawn \in BOOLEAN
    /\ n.component <=> n.name \in Composed(a)
    /\ n.respawn <=> n.name \in Kept(a)

LEMMA ArgsAre ==
    ASSUME NEW a \in Files!Args
    PROVE  /\ a.slam \in BOOLEAN /\ a.lidar \in {"livox", "odin"} /\ a.use_composition \in BOOLEAN
           /\ a.use_respawn \in BOOLEAN /\ a.use_rviz \in BOOLEAN
  BY DEF Files!Args

LEMMA ProcessFits ==
    ASSUME NEW a \in Files!Args, NEW names, NEW respawn \in BOOLEAN,
           \A x \in names : x \notin Composed(a) /\ (respawn <=> x \in Kept(a)),
           NEW n \in Files!Process(names, respawn)
    PROVE  Fits(n, a)
<1>1. PICK x \in names : n = [name |-> x, component |-> FALSE, respawn |-> respawn]
  BY DEF Files!Process
<1>2. n.name = x /\ n.component = FALSE /\ n.respawn = respawn
  BY <1>1
<1> QED BY Zenon, <1>2 DEF Fits

LEMMA ComponentFits ==
    ASSUME NEW a \in Files!Args, NEW names,
           \A x \in names : x \in Composed(a) /\ x \notin Kept(a), NEW n \in Files!Component(names)
    PROVE  Fits(n, a)
<1>1. PICK x \in names : n = [name |-> x, component |-> TRUE, respawn |-> FALSE]
  BY DEF Files!Component
<1>2. n.name = x /\ n.component = TRUE /\ n.respawn = FALSE
  BY <1>1
<1> QED BY Zenon, <1>2 DEF Fits

LEMMA NodesFit ==
    ASSUME NEW a \in Files!Args, NEW names, names \subseteq Composables, NEW n \in Files!Nodes(a, names)
    PROVE  Fits(n, a)
<1>1. CASE a.use_composition
  <2>1. \A x \in Composables : x \in Composed(a) /\ x \notin Kept(a)
    BY <1>1 DEF Composed, Kept, Composables, Navigators, Watched
  <2>2. n \in Files!Component(names)
    BY <1>1 DEF Files!Nodes
  <2> QED BY <2>1, <2>2, ComponentFits
<1>2. CASE ~a.use_composition
  <2>1. \A x \in Composables : x \notin Composed(a) /\ (a.use_respawn <=> x \in Kept(a))
    BY <1>2, ArgsAre DEF Composed, Kept
  <2>2. n \in Files!Process(names, a.use_respawn)
    BY <1>2 DEF Files!Nodes
  <2> QED BY <2>1, <2>2, ArgsAre, ProcessFits
<1> QED BY <1>1, <1>2

LEMMA ManagerFits ==
    ASSUME NEW a \in Files!Args, NEW name \in Managers, NEW n \in Files!Manager(a, name)
    PROVE  Fits(n, a)
<1>0. name \notin Kept(a)
  BY DEF Managers, Kept, Watched, Composables, Navigators
<1>1. CASE a.use_composition
  <2>1. name \in Composed(a)
    BY <1>1 DEF Composed
  <2>2. n \in Files!Component({name})
    BY <1>1 DEF Files!Manager
  <2> QED BY <1>0, <2>1, <2>2, ComponentFits
<1>2. CASE ~a.use_composition
  <2>1. name \notin Composed(a)
    BY <1>2 DEF Composed
  <2>2. n \in Files!Process({name}, FALSE)
    BY Zenon, <1>2 DEF Files!Manager
  <2> QED BY Zenon, <1>0, <2>1, <2>2, ProcessFits
<1> QED BY <1>1, <1>2

LEMMA WatchedFit ==
    ASSUME NEW a \in Files!Args, NEW names, names \subseteq Watched,
           NEW n \in Files!Process(names, a.use_respawn)
    PROVE  Fits(n, a)
<1>1. \A x \in Watched : x \notin Composed(a) /\ (a.use_respawn <=> x \in Kept(a))
  BY ArgsAre DEF Composed, Kept, Watched, Composables, Navigators, Managers
<1> QED BY <1>1, ArgsAre, ProcessFits

\* Processes nobody starts again.
Others == {"nav2_container", "lifecycle_manager_slam", "static_transform_publisher_map2odom",
           "joy_node", "pb_teleop_twist_joy_node", "rviz2", "host_sdk_sample",
           "gimbal_yaw_to_lidar", "base_footprint_to_gimbal_yaw", "livox_ros_driver2",
           "ign_sim_pointcloud_tool"}

LEMMA OthersFit ==
    ASSUME NEW a \in Files!Args, NEW names, names \subseteq Others, NEW n \in Files!Process(names, FALSE)
    PROVE  Fits(n, a)
<1>1. \A x \in Others : x \notin Composables \cup Managers /\ x \notin Watched \cup Composables
  BY DEF Others, Watched, Composables, Navigators, Managers
<1>2. \A x \in Others : x \notin Composed(a) /\ x \notin Kept(a)
  BY <1>1 DEF Composed, Kept
<1> QED BY Zenon, <1>2, ProcessFits

LEMMA NavigationFits ==
    ASSUME NEW a \in Files!Args, NEW n \in Files!navigation_launch(a)
    PROVE  Fits(n, a)
<1>1. /\ {"terrain_analysis", "terrain_analysis_ext"} \subseteq Watched
      /\ {"sensor_scan_generation", "fake_vel_transform"} \subseteq Composables
      /\ {"loam_interface"} \subseteq Composables /\ {"odin_interface"} \subseteq Composables
      /\ Files!lifecycle_nodes.lifecycle_manager_navigation \subseteq Composables
      /\ "lifecycle_manager_navigation" \in Managers
  BY DEF Watched, Composables, Navigators, Managers, Files!lifecycle_nodes
<1>2. \/ n \in Files!Process({"terrain_analysis", "terrain_analysis_ext"}, a.use_respawn)
      \/ n \in Files!Nodes(a, {"sensor_scan_generation", "fake_vel_transform"})
      \/ n \in Files!Nodes(a, {"loam_interface"})
      \/ n \in Files!Nodes(a, {"odin_interface"})
      \/ n \in Files!Nodes(a, Files!lifecycle_nodes.lifecycle_manager_navigation)
      \/ n \in Files!Manager(a, "lifecycle_manager_navigation")
  BY DEF Files!navigation_launch, Files!For
<1> QED BY <1>1, <1>2, WatchedFit, NodesFit, ManagerFits

LEMMA LocalizationFits ==
    ASSUME NEW a \in Files!Args, NEW n \in Files!localization_launch(a)
    PROVE  Fits(n, a)
<1>1. /\ {"point_lio"} \subseteq Watched
      /\ {"small_gicp_relocalization"} \subseteq Composables
      /\ Files!lifecycle_nodes.lifecycle_manager_localization \subseteq Composables
      /\ "lifecycle_manager_localization" \in Managers
  BY DEF Watched, Composables, Navigators, Managers, Files!lifecycle_nodes
<1>2. \/ n \in Files!Process({"point_lio"}, a.use_respawn)
      \/ n \in Files!Nodes(a, Files!lifecycle_nodes.lifecycle_manager_localization)
      \/ n \in Files!Nodes(a, {"small_gicp_relocalization"})
      \/ n \in Files!Manager(a, "lifecycle_manager_localization")
  BY DEF Files!localization_launch, Files!For
<1> QED BY <1>1, <1>2, WatchedFit, NodesFit, ManagerFits

LEMMA SlamFits ==
    ASSUME NEW a \in Files!Args, NEW n \in Files!slam_launch(a)
    PROVE  Fits(n, a)
<1>1. /\ {"map_saver", "pointcloud_to_laserscan", "slam_toolbox"} \subseteq Watched
      /\ {"point_lio"} \subseteq Watched /\ {"lifecycle_manager_slam"} \subseteq Others
      /\ {"static_transform_publisher_map2odom"} \subseteq Others
  BY DEF Watched, Others
<1>2. Files!Manager([a EXCEPT !.use_composition = FALSE], "lifecycle_manager_slam")
          = Files!Process({"lifecycle_manager_slam"}, FALSE)
  BY DEF Files!Manager, Files!Args
<1>3. \/ n \in Files!Process({"map_saver", "pointcloud_to_laserscan", "slam_toolbox"}, a.use_respawn)
      \/ n \in Files!Process({"lifecycle_manager_slam"}, FALSE)
      \/ n \in Files!Process({"point_lio"}, a.use_respawn)
      \/ n \in Files!Process({"static_transform_publisher_map2odom"}, FALSE)
  BY Zenon, <1>2 DEF Files!slam_launch, Files!For
<1> QED BY Zenon, <1>1, <1>3, WatchedFit, OthersFit

LEMMA BringupFits ==
    ASSUME NEW a \in Files!Args, NEW n \in Files!bringup_launch(a)
    PROVE  Fits(n, a)
<1>1. \/ n \in Files!Process({"nav2_container"}, FALSE) \/ n \in Files!slam_launch(a)
      \/ n \in Files!localization_launch(a) \/ n \in Files!navigation_launch(a)
  BY Zenon DEF Files!bringup_launch
<1>2. {"nav2_container"} \subseteq Others
  BY DEF Others
<1> QED BY Zenon, <1>1, <1>2, OthersFit, SlamFits, LocalizationFits, NavigationFits

LEMMA NamesTell ==
    ASSUME NEW a \in Files!Args, NEW file, NEW n \in Files!Launched(file, a)
    PROVE  Fits(n, a)
<1> DEFINE b == [a EXCEPT !.lidar = "livox"]
<1>1. b \in Files!Args /\ (Fits(n, b) => Fits(n, a))
  BY DEF Files!Args, Fits, Composed, Kept
<1>2. /\ {"livox_ros_driver2"} \subseteq Others /\ {"ign_sim_pointcloud_tool"} \subseteq Others
      /\ {"joy_node", "pb_teleop_twist_joy_node"} \subseteq Others /\ {"rviz2"} \subseteq Others
      /\ {"host_sdk_sample", "gimbal_yaw_to_lidar", "base_footprint_to_gimbal_yaw"} \subseteq Others
  BY DEF Others
<1> HIDE DEF b
<1>3. \/ n \in Files!Process({"livox_ros_driver2"}, FALSE)
      \/ n \in Files!Process({"ign_sim_pointcloud_tool"}, FALSE)
      \/ n \in Files!Process({"joy_node", "pb_teleop_twist_joy_node"}, FALSE)
      \/ n \in Files!Process({"rviz2"}, FALSE)
      \/ n \in Files!Process({"host_sdk_sample", "gimbal_yaw_to_lidar", "base_footprint_to_gimbal_yaw"},
                             FALSE)
      \/ n \in Files!bringup_launch(a) \/ n \in Files!bringup_launch(b)
  BY Zenon DEF b, Files!Launched, Files!rm_navigation_reality_launch, Files!For,
         Files!rm_navigation_simulation_launch, Files!joy_teleop_launch, Files!rviz_launch,
         Files!odin_driver_launch
<1> QED BY Zenon, <1>1, <1>2, <1>3, OthersFit, BringupFits

\* The nodes that are up or wait are of the launch; those that wait, and those that
\* respawn, are processes; no component is up without the container.
LaunchInv ==
    /\ args \in Files!Args
    /\ up \cup waiting \subseteq Files!Names(Files!Started)
    /\ waiting \subseteq Kept(args)
    /\ \A x \in up : x \in Composed(args) => "nav2_container" \in up
    /\ starts /\ ~closing => \A n \in Files!Started : n.respawn => n.name \in up \cup waiting

LEMMA ContainerApart ==
    ASSUME NEW a
    PROVE  /\ "nav2_container" \notin Composed(a) /\ "nav2_container" \notin Kept(a)
           /\ \A x : x \in Kept(a) => x \notin Composed(a)
<1>1. /\ "nav2_container" \notin Composables \cup Managers /\ "nav2_container" \notin Watched
      /\ \A x : x \in Watched => x \notin Composables \cup Managers
  BY DEF Composables, Managers, Navigators, Watched
<1> QED BY <1>1 DEF Composed, Kept

LEMMA LaunchKept == Spec => []LaunchInv
<1>1. Files!Init => LaunchInv
  BY DEF Files!Init, LaunchInv, Files!Names
<1>2. ASSUME LaunchInv, [Files!Next]_FilesVars PROVE LaunchInv'
  <2>1. \A n \in Files!Started : Fits(n, args)
    BY <1>2, NamesTell DEF LaunchInv, Files!Started
  <2>2. ASSUME args' = args, world_file' = world_file
        PROVE  /\ Files!Started' = Files!Started /\ Composed(args)' = Composed(args)
               /\ Kept(args)' = Kept(args) /\ Files!Names(Files!Started)' = Files!Names(Files!Started)
    BY <2>2 DEF Files!Started, Files!Launched, Composed, Kept, Files!Names
  <2> DEFINE all == Files!Names(Files!Started)
  <2>3. \A x : x \in all <=> \E n \in Files!Started : n.name = x
    BY DEF Files!Names
  <2>4. CASE Files!StartProcesses
    <3> DEFINE new == Files!Names({n \in Files!Started : ~n.component})
    <3>1. \A x : x \in new <=> \E n \in Files!Started : n.name = x /\ ~n.component
      BY DEF Files!Names
    <3>2. up' = up \cup new /\ waiting' = waiting /\ args' = args /\ world_file' = world_file
      BY <2>4 DEF Files!StartProcesses
    <3> HIDE DEF new, all
    <3>3. (up \cup waiting)' \subseteq all
      BY <1>2, <2>3, <3>1, <3>2 DEF LaunchInv, all
    <3>4. ASSUME NEW x \in up', x \in Composed(args) PROVE "nav2_container" \in up'
      BY <1>2, <2>1, <3>1, <3>2, <3>4 DEF LaunchInv, Fits
    <3>5. ASSUME NEW n \in Files!Started, n.respawn PROVE n.name \in up'
      BY <2>1, <3>1, <3>2, <3>5, ContainerApart DEF Fits
    <3> QED BY <1>2, <2>2, <3>2, <3>3, <3>4, <3>5 DEF LaunchInv, all
  <2>5. CASE Files!LoadComponents
    <3> DEFINE new == Files!Names({n \in Files!Started : n.component})
    <3>1. new \subseteq all
      BY DEF Files!Names
    <3>2. /\ up' = up \cup new /\ waiting' = waiting /\ args' = args /\ world_file' = world_file
          /\ "nav2_container" \in up /\ starts' = starts /\ closing' = closing
      BY <2>5 DEF Files!LoadComponents
    <3> HIDE DEF new
    <3> QED BY <1>2, <2>2, <3>1, <3>2 DEF LaunchInv
  <2>6. CASE Files!Exit
    <3>1. PICK n \in Files!Started :
              LET gone == IF n.name = "nav2_container"
                          THEN {n.name} \cup Files!Names({c \in Files!Started : c.component})
                          ELSE {n.name}
              IN  /\ up' = IF n.name = "rviz2" \/ closing THEN {} ELSE up \ gone
                  /\ waiting' = IF n.name = "rviz2" \/ closing THEN {}
                                ELSE IF n.respawn THEN waiting \cup {n.name} ELSE waiting
                  /\ closing' = (closing \/ n.name = "rviz2") /\ starts' = starts
                  /\ args' = args /\ world_file' = world_file
      BY Zenon, <2>6 DEF Files!Exit
    <3>2. CASE n.name = "rviz2" \/ closing
      <4>1. up' = {} /\ waiting' = {} /\ closing' = TRUE
        BY Zenon, <3>1, <3>2
      <4> HIDE DEF all
      <4> QED BY <1>2, <2>2, <3>1, <4>1 DEF LaunchInv
    <3>3. CASE ~(n.name = "rviz2" \/ closing)
      <4> DEFINE parts == Files!Names({c \in Files!Started : c.component})
      <4>1. \A x : x \in parts <=> \E c \in Files!Started : c.name = x /\ c.component
        BY DEF Files!Names
      <4>2. /\ up' = up \ (IF n.name = "nav2_container" THEN {n.name} \cup parts ELSE {n.name})
            /\ waiting' = IF n.respawn THEN waiting \cup {n.name} ELSE waiting
            /\ ~closing /\ ~closing'
        BY Zenon, <3>1, <3>3
      <4> HIDE DEF parts, all
      <4>3. n.name \in all /\ (n.respawn => n.name \in Kept(args))
        BY <2>1, <2>3 DEF Fits
      <4>4. (up \cup waiting)' \subseteq all /\ waiting' \subseteq Kept(args)
        BY <1>2, <4>2, <4>3 DEF LaunchInv, all
      <4>5. ASSUME NEW x \in up', x \in Composed(args) PROVE "nav2_container" \in up'
        <5>1. x \in up /\ "nav2_container" \in up
          BY <1>2, <4>2, <4>5 DEF LaunchInv
        <5>2. x \in parts
          <6>1. PICK c \in Files!Started : c.name = x
            BY <1>2, <2>3, <5>1 DEF LaunchInv, all
          <6> QED BY <2>1, <4>1, <4>5, <6>1 DEF Fits
        <5>3. n.name # "nav2_container"
          BY <4>2, <5>2
        <5> QED BY <4>2, <5>1, <5>3
      <4>6. ASSUME NEW m \in Files!Started, m.respawn, starts PROVE m.name \in up' \cup waiting'
        <5>1. m.name \in up \cup waiting
          BY <1>2, <4>2, <4>6 DEF LaunchInv
        <5>2. m.name \in Kept(args) /\ m.name \notin Composed(args)
          BY <2>1, <4>6, ContainerApart DEF Fits
        <5>3. m.name \notin parts /\ m.name # "nav2_container"
          BY <2>1, <4>1, <5>2, ContainerApart DEF Fits
        <5>4. CASE m.name = n.name
          <6>1. n.respawn
            BY <2>1, <5>2, <5>4 DEF Fits
          <6> QED BY <4>2, <5>4, <6>1
        <5>5. CASE m.name # n.name
          BY <4>2, <5>1, <5>3, <5>5
        <5> QED BY <5>4, <5>5
      <4> QED BY <1>2, <2>2, <3>1, <4>4, <4>5, <4>6 DEF LaunchInv, all
    <3> QED BY <3>2, <3>3
  <2>7. CASE Files!Respawn
    <3>1. PICK x \in waiting : /\ waiting' = waiting \ {x} /\ up' = up \cup {x}
                               /\ args' = args /\ world_file' = world_file
                               /\ starts' = starts /\ closing' = closing
      BY <2>7 DEF Files!Respawn
    <3>2. x \notin Composed(args)
      BY <1>2, ContainerApart DEF LaunchInv
    <3> HIDE DEF all
    <3> QED BY <1>2, <2>2, <3>1, <3>2 DEF LaunchInv
  <2>8. CASE UNCHANGED FilesVars
    <3>1. /\ args' = args /\ world_file' = world_file /\ up' = up /\ waiting' = waiting
          /\ starts' = starts /\ closing' = closing
      BY <2>8 DEF FilesVars
    <3> HIDE DEF all
    <3> QED BY <1>2, <2>2, <3>1 DEF LaunchInv
  <2> QED BY <1>2, <2>4, <2>5, <2>6, <2>7, <2>8 DEF Files!Next
<1> QED BY <1>1, <1>2, FilesSteps, PTL DEF Spec

\* The names of what is launched, group by group.
LEMMA NamesOf ==
    /\ \A s, t : Files!Names(s \cup t) = Files!Names(s) \cup Files!Names(t)
    /\ \A s, respawn : Files!Names(Files!Process(s, respawn)) = s
    /\ \A s : Files!Names(Files!Component(s)) = s
    /\ \A a, s : Files!Names(Files!Nodes(a, s)) = s
    /\ \A a, x : Files!Names(Files!Manager(a, x)) = {x}
    /\ Files!Names({}) = {}
<1>1. \A s, t : Files!Names(s \cup t) = Files!Names(s) \cup Files!Names(t)
  BY DEF Files!Names
<1>2. ASSUME NEW s, NEW respawn PROVE Files!Names(Files!Process(s, respawn)) = s
  <2>1. ASSUME NEW x \in s PROVE x \in Files!Names(Files!Process(s, respawn))
    <3>1. [name |-> x, component |-> FALSE, respawn |-> respawn] \in Files!Process(s, respawn)
      BY Zenon DEF Files!Process
    <3>2. [name |-> x, component |-> FALSE, respawn |-> respawn].name = x
      OBVIOUS
    <3> QED BY <3>1, <3>2 DEF Files!Names
  <2>2. ASSUME NEW x \in Files!Names(Files!Process(s, respawn)) PROVE x \in s
    BY <2>2 DEF Files!Names, Files!Process
  <2> QED BY <2>1, <2>2
<1>3. ASSUME NEW s PROVE Files!Names(Files!Component(s)) = s
  <2>1. ASSUME NEW x \in s PROVE x \in Files!Names(Files!Component(s))
    <3>1. [name |-> x, component |-> TRUE, respawn |-> FALSE] \in Files!Component(s)
      BY Zenon DEF Files!Component
    <3>2. [name |-> x, component |-> TRUE, respawn |-> FALSE].name = x
      OBVIOUS
    <3> QED BY <3>1, <3>2 DEF Files!Names
  <2>2. ASSUME NEW x \in Files!Names(Files!Component(s)) PROVE x \in s
    BY <2>2 DEF Files!Names, Files!Component
  <2> QED BY <2>1, <2>2
<1>4. Files!Names({}) = {}
  BY DEF Files!Names
<1> QED BY Zenon, <1>1, <1>2, <1>3, <1>4 DEF Files!Nodes, Files!Manager

\* What is named in the properties, among what is launched.
Livox(a, s) == IF a.lidar = "livox" THEN s ELSE {}
Odin(a, s) == IF a.lidar = "odin" THEN s ELSE {}

BringupNames(a) ==
    (IF a.use_composition THEN {"nav2_container"} ELSE {})
    \cup (IF a.lidar = "odin" \/ a.slam
          THEN {"map_saver", "pointcloud_to_laserscan", "slam_toolbox", "lifecycle_manager_slam"}
               \cup Livox(a, {"point_lio", "static_transform_publisher_map2odom"})
          ELSE {})
    \cup (IF ~a.slam /\ a.lidar = "livox"
          THEN {"point_lio", "map_server", "small_gicp_relocalization", "lifecycle_manager_localization"}
          ELSE {})
    \cup {"terrain_analysis", "terrain_analysis_ext", "sensor_scan_generation", "fake_vel_transform",
          "lifecycle_manager_navigation"}
    \cup Livox(a, {"loam_interface"}) \cup Odin(a, {"odin_interface"}) \cup Navigators

LEMMA BringupJoins ==
    ASSUME NEW a \in Files!Args
    PROVE  Files!Names(Files!bringup_launch(a))
               = (IF a.use_composition THEN {"nav2_container"} ELSE {})
                 \cup (IF a.lidar = "odin" \/ a.slam THEN Files!Names(Files!slam_launch(a)) ELSE {})
                 \cup (IF ~a.slam /\ a.lidar = "livox" THEN Files!Names(Files!localization_launch(a)) ELSE {})
                 \cup Files!Names(Files!navigation_launch(a))
<1> DEFINE p == IF a.use_composition THEN Files!Process({"nav2_container"}, FALSE) ELSE {}
           q == IF a.lidar = "odin" \/ a.slam THEN Files!slam_launch(a) ELSE {}
           r == IF ~a.slam /\ a.lidar = "livox" THEN Files!localization_launch(a) ELSE {}
           s == Files!navigation_launch(a)
<1>1. Files!bringup_launch(a) = p \cup q \cup r \cup s
  BY DEF Files!bringup_launch
<1>2. /\ Files!Names(p) = (IF a.use_composition THEN {"nav2_container"} ELSE {})
      /\ Files!Names(q) = (IF a.lidar = "odin" \/ a.slam THEN Files!Names(Files!slam_launch(a)) ELSE {})
      /\ Files!Names(r) = (IF ~a.slam /\ a.lidar = "livox" THEN Files!Names(Files!localization_launch(a)) ELSE {})
  BY Zenon, NamesOf
<1> HIDE DEF p, q, r, s
<1>3. Files!Names(p \cup q \cup r \cup s)
          = Files!Names(p) \cup Files!Names(q) \cup Files!Names(r) \cup Files!Names(s)
  BY DEF Files!Names
<1> QED BY Zenon, <1>1, <1>2, <1>3 DEF s

LEMMA BringsUp ==
    ASSUME NEW a \in Files!Args
    PROVE  Files!Names(Files!bringup_launch(a)) = BringupNames(a)
<1>1. Files!Names(Files!navigation_launch(a))
          = {"terrain_analysis", "terrain_analysis_ext"}
            \cup {"sensor_scan_generation", "fake_vel_transform"}
            \cup Livox(a, {"loam_interface"}) \cup Odin(a, {"odin_interface"})
            \cup Navigators \cup {"lifecycle_manager_navigation"}
  <2>1. Files!lifecycle_nodes.lifecycle_manager_navigation = Navigators
    BY DEF Files!lifecycle_nodes, Navigators
  <2>2. /\ Files!Names(Files!For(a, "livox", Files!Nodes(a, {"loam_interface"}))) = Livox(a, {"loam_interface"})
        /\ Files!Names(Files!For(a, "odin", Files!Nodes(a, {"odin_interface"}))) = Odin(a, {"odin_interface"})
    BY Zenon, NamesOf DEF Files!For, Livox, Odin
  <2> DEFINE p == Files!Process({"terrain_analysis", "terrain_analysis_ext"}, a.use_respawn)
             q == Files!Nodes(a, {"sensor_scan_generation", "fake_vel_transform"})
             r == Files!For(a, "livox", Files!Nodes(a, {"loam_interface"}))
             s == Files!For(a, "odin", Files!Nodes(a, {"odin_interface"}))
             t == Files!Nodes(a, Files!lifecycle_nodes.lifecycle_manager_navigation)
             u == Files!Manager(a, "lifecycle_manager_navigation")
  <2>3. Files!navigation_launch(a) = p \cup q \cup r \cup s \cup t \cup u
    BY DEF Files!navigation_launch
  <2>4. /\ Files!Names(p) = {"terrain_analysis", "terrain_analysis_ext"}
        /\ Files!Names(q) = {"sensor_scan_generation", "fake_vel_transform"}
        /\ Files!Names(r) = Livox(a, {"loam_interface"}) /\ Files!Names(s) = Odin(a, {"odin_interface"})
        /\ Files!Names(t) = Navigators /\ Files!Names(u) = {"lifecycle_manager_navigation"}
    BY <2>1, <2>2, NamesOf
  <2> HIDE DEF p, q, r, s, t, u
  <2>5. Files!Names(p \cup q \cup r \cup s \cup t \cup u)
            = Files!Names(p) \cup Files!Names(q) \cup Files!Names(r) \cup Files!Names(s)
              \cup Files!Names(t) \cup Files!Names(u)
    BY DEF Files!Names
  <2> QED BY Zenon, <2>3, <2>4, <2>5
<1>2. CASE ~a.slam /\ a.lidar = "livox"
  <2>1. Files!Names(Files!localization_launch(a))
            = {"point_lio"} \cup {"map_server"} \cup {"small_gicp_relocalization"}
              \cup {"lifecycle_manager_localization"}
    <3>1. Files!lifecycle_nodes.lifecycle_manager_localization = {"map_server"}
      BY DEF Files!lifecycle_nodes
    <3>2. /\ Files!For(a, "livox", Files!Process({"point_lio"}, a.use_respawn))
                 = Files!Process({"point_lio"}, a.use_respawn)
          /\ Files!For(a, "livox", Files!Nodes(a, {"small_gicp_relocalization"}))
                 = Files!Nodes(a, {"small_gicp_relocalization"})
      BY <1>2 DEF Files!For
    <3> DEFINE p == Files!Process({"point_lio"}, a.use_respawn)
               q == Files!Nodes(a, Files!lifecycle_nodes.lifecycle_manager_localization)
               r == Files!Nodes(a, {"small_gicp_relocalization"})
               s == Files!Manager(a, "lifecycle_manager_localization")
    <3>3. Files!localization_launch(a) = p \cup q \cup r \cup s
      BY <3>2 DEF Files!localization_launch
    <3>4. /\ Files!Names(p) = {"point_lio"} /\ Files!Names(q) = {"map_server"}
          /\ Files!Names(r) = {"small_gicp_relocalization"}
          /\ Files!Names(s) = {"lifecycle_manager_localization"}
      BY <3>1, NamesOf
    <3> HIDE DEF p, q, r, s
    <3>5. Files!Names(p \cup q \cup r \cup s)
              = Files!Names(p) \cup Files!Names(q) \cup Files!Names(r) \cup Files!Names(s)
      BY DEF Files!Names
    <3> QED BY <3>3, <3>4, <3>5
  <2>2. Files!Names(Files!bringup_launch(a))
            = (IF a.use_composition THEN {"nav2_container"} ELSE {}) \cup {}
              \cup Files!Names(Files!localization_launch(a)) \cup Files!Names(Files!navigation_launch(a))
    BY <1>2, BringupJoins
  <2> QED BY <1>1, <1>2, <2>1, <2>2 DEF BringupNames
<1>3. CASE ~(~a.slam /\ a.lidar = "livox")
  <2>0. a.lidar = "odin" \/ a.slam
    BY <1>3, ArgsAre
  <2>1. Files!Names(Files!slam_launch(a))
            = {"map_saver", "pointcloud_to_laserscan", "slam_toolbox"} \cup {"lifecycle_manager_slam"}
              \cup Livox(a, {"point_lio", "static_transform_publisher_map2odom"})
    <3> DEFINE x == Files!Process({"point_lio"}, a.use_respawn)
               y == Files!Process({"static_transform_publisher_map2odom"}, FALSE)
               p == Files!Process({"map_saver", "pointcloud_to_laserscan", "slam_toolbox"}, a.use_respawn)
               q == Files!Manager([a EXCEPT !.use_composition = FALSE], "lifecycle_manager_slam")
               r == Files!For(a, "livox", x \cup y)
    <3>1. /\ Files!Names(x) = {"point_lio"} /\ Files!Names(y) = {"static_transform_publisher_map2odom"}
          /\ Files!Names(p) = {"map_saver", "pointcloud_to_laserscan", "slam_toolbox"}
          /\ Files!Names(q) = {"lifecycle_manager_slam"}
      BY Zenon, NamesOf
    <3>2. Files!slam_launch(a) = p \cup q \cup r
      BY DEF Files!slam_launch
    <3> HIDE DEF x, y, p, q
    <3>3. Files!Names(x \cup y) = {"point_lio", "static_transform_publisher_map2odom"}
      <4>1. Files!Names(x \cup y) = Files!Names(x) \cup Files!Names(y)
        BY DEF Files!Names
      <4> QED BY Zenon, <3>1, <4>1
    <3>4. Files!Names(r) = Livox(a, {"point_lio", "static_transform_publisher_map2odom"})
      <4>1. CASE a.lidar = "livox"
        BY <3>3, <4>1 DEF Files!For, Livox
      <4>2. CASE a.lidar # "livox"
        BY <4>2, NamesOf DEF Files!For, Livox
      <4> QED BY <4>1, <4>2
    <3> HIDE DEF r
    <3>5. Files!Names(p \cup q \cup r) = Files!Names(p) \cup Files!Names(q) \cup Files!Names(r)
      BY DEF Files!Names
    <3> QED BY Zenon, <3>1, <3>2, <3>4, <3>5
  <2>2. Files!Names(Files!bringup_launch(a))
            = (IF a.use_composition THEN {"nav2_container"} ELSE {})
              \cup Files!Names(Files!slam_launch(a)) \cup {} \cup Files!Names(Files!navigation_launch(a))
    BY <1>3, <2>0, BringupJoins
  <2> QED BY <1>1, <1>3, <2>0, <2>1, <2>2 DEF BringupNames
<1> QED BY <1>2, <1>3

LaunchedNames(file, a) ==
    IF file = "reality"
    THEN Livox(a, {"livox_ros_driver2"})
         \cup Odin(a, {"host_sdk_sample", "gimbal_yaw_to_lidar", "base_footprint_to_gimbal_yaw"})
         \cup BringupNames(a) \cup {"joy_node", "pb_teleop_twist_joy_node"}
         \cup (IF a.use_rviz THEN {"rviz2"} ELSE {})
    ELSE {"ign_sim_pointcloud_tool"} \cup BringupNames([a EXCEPT !.lidar = "livox"])
         \cup {"joy_node", "pb_teleop_twist_joy_node"} \cup (IF a.use_rviz THEN {"rviz2"} ELSE {})

LEMMA LaunchesNames ==
    ASSUME NEW a \in Files!Args, NEW file
    PROVE  Files!Names(Files!Launched(file, a)) = LaunchedNames(file, a)
<1> DEFINE b == [a EXCEPT !.lidar = "livox"]
<1>1. b \in Files!Args
  BY DEF Files!Args
<1>2. /\ Files!Names(Files!joy_teleop_launch) = {"joy_node", "pb_teleop_twist_joy_node"}
      /\ Files!Names(Files!rviz_launch(a)) = (IF a.use_rviz THEN {"rviz2"} ELSE {})
      /\ Files!Names(Files!bringup_launch(a)) = BringupNames(a)
      /\ Files!Names(Files!bringup_launch(b)) = BringupNames(b)
  BY Zenon, <1>1, NamesOf, BringsUp DEF Files!joy_teleop_launch, Files!rviz_launch
<1>3. /\ Files!Names(Files!For(a, "livox", Files!Process({"livox_ros_driver2"}, FALSE)))
             = Livox(a, {"livox_ros_driver2"})
      /\ Files!Names(Files!For(a, "odin", Files!odin_driver_launch))
             = Odin(a, {"host_sdk_sample", "gimbal_yaw_to_lidar", "base_footprint_to_gimbal_yaw"})
  BY Zenon, NamesOf DEF Files!For, Files!odin_driver_launch, Livox, Odin
<1>4. CASE file = "reality"
  <2> DEFINE p == Files!For(a, "livox", Files!Process({"livox_ros_driver2"}, FALSE))
             q == Files!For(a, "odin", Files!odin_driver_launch)
             r == Files!bringup_launch(a)
             s == Files!joy_teleop_launch
             t == Files!rviz_launch(a)
  <2>1. Files!Launched(file, a) = p \cup q \cup r \cup s \cup t
    BY <1>4 DEF Files!Launched, Files!rm_navigation_reality_launch
  <2> HIDE DEF p, q, r, s, t
  <2>2. Files!Names(p \cup q \cup r \cup s \cup t)
            = Files!Names(p) \cup Files!Names(q) \cup Files!Names(r) \cup Files!Names(s) \cup Files!Names(t)
    BY DEF Files!Names
  <2> QED BY Zenon, <1>2, <1>3, <1>4, <2>1, <2>2 DEF LaunchedNames, p, q, r, s, t
<1>5. CASE file # "reality"
  <2> DEFINE p == Files!Process({"ign_sim_pointcloud_tool"}, FALSE)
             q == Files!bringup_launch(b)
             r == Files!joy_teleop_launch
             s == Files!rviz_launch(a)
  <2>1. Files!Launched(file, a) = p \cup q \cup r \cup s
    BY <1>5 DEF Files!Launched, Files!rm_navigation_simulation_launch
  <2>2. Files!Names(p) = {"ign_sim_pointcloud_tool"}
    BY Zenon, NamesOf
  <2> HIDE DEF p, q, r, s
  <2>3. Files!Names(p \cup q \cup r \cup s)
            = Files!Names(p) \cup Files!Names(q) \cup Files!Names(r) \cup Files!Names(s)
    BY DEF Files!Names
  <2> QED BY Zenon, <1>2, <1>5, <2>1, <2>2, <2>3 DEF LaunchedNames, q, r, s
<1> QED BY <1>4, <1>5

LEMMA NavigatorsAre == Navigators = Files!lifecycle_nodes["lifecycle_manager_navigation"]
  BY DEF Navigators, Files!lifecycle_nodes

\* What bringup_launch gives of the nodes that send transforms, and of the managers.
LEMMA BringupSends ==
    ASSUME NEW a \in Files!Args
    PROVE  LET names == BringupNames(a)
           IN  /\ names \cap {"small_gicp_relocalization", "odin_interface",
                              "static_transform_publisher_map2odom"}
                      = (IF a.lidar = "odin" THEN {"odin_interface"}
                         ELSE IF a.slam THEN {"static_transform_publisher_map2odom"}
                         ELSE {"small_gicp_relocalization"})
               /\ "sensor_scan_generation" \in names /\ "fake_vel_transform" \in names
               /\ "host_sdk_sample" \notin names
               /\ "point_lio" \in names <=> a.lidar = "livox"
               /\ Navigators \subseteq names
               /\ "lifecycle_manager_localization" \in names => "map_server" \in names
               /\ "lifecycle_manager_slam" \in names => "map_saver" \in names
<1>1. a.lidar = "livox" \/ a.lidar = "odin"
  BY ArgsAre
<1>2. CASE a.lidar = "odin"
  BY <1>2 DEF BringupNames, Livox, Odin, Navigators
<1>3. CASE a.lidar = "livox" /\ a.slam
  BY <1>3 DEF BringupNames, Livox, Odin, Navigators
<1>4. CASE a.lidar = "livox" /\ ~a.slam
  BY <1>4 DEF BringupNames, Livox, Odin, Navigators
<1> QED BY <1>1, <1>2, <1>3, <1>4

LEMMA LaunchedOnce ==
    ASSUME NEW a \in Files!Args, NEW file
    PROVE  LET names == LaunchedNames(file, a)
           IN  /\ \A frame \in {"odom", "base_footprint", "gimbal_yaw_fake"} :
                      \E x : Files!Broadcasters(frame, names) = {x}
               /\ \E x : names \cap {"point_lio", "host_sdk_sample"} = {x}
               /\ Navigators \subseteq names
               /\ "lifecycle_manager_localization" \in names => "map_server" \in names
               /\ "lifecycle_manager_slam" \in names => "map_saver" \in names
<1> DEFINE b == IF file = "reality" THEN a ELSE [a EXCEPT !.lidar = "livox"]
           names == LaunchedNames(file, a)
           B == BringupNames(b)
           Odom == {"small_gicp_relocalization", "odin_interface", "static_transform_publisher_map2odom"}
<1>1. b \in Files!Args /\ (b.lidar = "livox" \/ b.lidar = "odin")
  BY DEF Files!Args
<1>2. \E rest : /\ names = B \cup rest
                /\ "host_sdk_sample" \in rest <=> b.lidar = "odin"
                /\ \A x \in rest : x \notin Odom /\ x \notin {"sensor_scan_generation",
                       "fake_vel_transform", "point_lio", "lifecycle_manager_localization",
                       "lifecycle_manager_slam"}
  <2>1. CASE file = "reality"
    <3> DEFINE rest == Livox(a, {"livox_ros_driver2"})
               \cup Odin(a, {"host_sdk_sample", "gimbal_yaw_to_lidar", "base_footprint_to_gimbal_yaw"})
               \cup {"joy_node", "pb_teleop_twist_joy_node"} \cup (IF a.use_rviz THEN {"rviz2"} ELSE {})
    <3>1. names = B \cup rest
      BY <2>1 DEF LaunchedNames
    <3>2. "host_sdk_sample" \in rest <=> b.lidar = "odin"
      BY <2>1 DEF Livox, Odin
    <3>3. \A x \in rest : x \notin Odom /\ x \notin {"sensor_scan_generation",
              "fake_vel_transform", "point_lio", "lifecycle_manager_localization",
              "lifecycle_manager_slam"}
      BY DEF Livox, Odin
    <3> HIDE DEF rest, names, B, Odom, b
    <3> QED BY <3>1, <3>2, <3>3
  <2>2. CASE file # "reality"
    <3> DEFINE rest == {"ign_sim_pointcloud_tool"}
               \cup {"joy_node", "pb_teleop_twist_joy_node"} \cup (IF a.use_rviz THEN {"rviz2"} ELSE {})
    <3>1. names = B \cup rest
      BY <2>2 DEF LaunchedNames
    <3>2. "host_sdk_sample" \notin rest /\ b.lidar # "odin"
      BY <2>2 DEF Files!Args
    <3>3. \A x \in rest : x \notin Odom /\ x \notin {"sensor_scan_generation",
              "fake_vel_transform", "point_lio", "lifecycle_manager_localization",
              "lifecycle_manager_slam"}
      OBVIOUS
    <3> HIDE DEF rest, names, B, Odom, b
    <3> QED BY <3>1, <3>2, <3>3
  <2> QED BY <2>1, <2>2
<1> HIDE DEF b, names
<1>3. PICK rest : /\ names = B \cup rest
                  /\ "host_sdk_sample" \in rest <=> b.lidar = "odin"
                  /\ \A x \in rest : x \notin Odom /\ x \notin {"sensor_scan_generation",
                         "fake_vel_transform", "point_lio", "lifecycle_manager_localization",
                         "lifecycle_manager_slam"}
  BY <1>2
<1>4. /\ B \cap Odom = (IF b.lidar = "odin" THEN {"odin_interface"}
                        ELSE IF b.slam THEN {"static_transform_publisher_map2odom"}
                        ELSE {"small_gicp_relocalization"})
      /\ "sensor_scan_generation" \in B /\ "fake_vel_transform" \in B /\ "host_sdk_sample" \notin B
      /\ "point_lio" \in B <=> b.lidar = "livox"
      /\ Navigators \subseteq B
      /\ "lifecycle_manager_localization" \in B => "map_server" \in B
      /\ "lifecycle_manager_slam" \in B => "map_saver" \in B
  BY <1>1, BringupSends
<1> HIDE DEF B
<1>5. names \cap Odom = B \cap Odom
  BY <1>3
<1> HIDE DEF Odom
<1>6. \E x : names \cap Odom = {x}
  BY Zenon, <1>4, <1>5
<1>7. /\ Files!Broadcasters("odom", names) = names \cap Odom
      /\ Files!Broadcasters("base_footprint", names) = {"sensor_scan_generation"}
      /\ Files!Broadcasters("gimbal_yaw_fake", names) = {"fake_vel_transform"}
  BY <1>3, <1>4 DEF Files!Broadcasters, Odom
<1>8. \E x : names \cap {"point_lio", "host_sdk_sample"} = {x}
  <2>1. CASE b.lidar = "odin"
    <3>1. names \cap {"point_lio", "host_sdk_sample"} = {"host_sdk_sample"}
      BY <1>3, <1>4, <2>1
    <3> QED BY Zenon, <3>1
  <2>2. CASE b.lidar = "livox"
    <3>1. names \cap {"point_lio", "host_sdk_sample"} = {"point_lio"}
      BY <1>3, <1>4, <2>2
    <3> QED BY Zenon, <3>1
  <2> QED BY <1>1, <2>1, <2>2
<1> QED BY Zenon, <1>3, <1>4, <1>6, <1>7, <1>8 DEF names

LEMMA OneOfEachHolds == ASSUME args \in Files!Args PROVE Files!OneOfEach
<1> DEFINE names == Files!Names(Files!Started)
<1>1. names = LaunchedNames(world_file, args)
  BY LaunchesNames DEF Files!Started
<1>0. LET n == LaunchedNames(world_file, args)
      IN  /\ \A frame \in {"odom", "base_footprint", "gimbal_yaw_fake"} :
                 \E x : Files!Broadcasters(frame, n) = {x}
          /\ \E x : n \cap {"point_lio", "host_sdk_sample"} = {x}
          /\ Navigators \subseteq n
          /\ "lifecycle_manager_localization" \in n => "map_server" \in n
          /\ "lifecycle_manager_slam" \in n => "map_saver" \in n
  BY Zenon, LaunchedOnce
<1> HIDE DEF names
<1>2. /\ \A frame \in {"odom", "base_footprint", "gimbal_yaw_fake"} :
             \E x : Files!Broadcasters(frame, names) = {x}
      /\ \E x : names \cap {"point_lio", "host_sdk_sample"} = {x}
      /\ Navigators \subseteq names
      /\ "lifecycle_manager_localization" \in names => "map_server" \in names
      /\ "lifecycle_manager_slam" \in names => "map_saver" \in names
  BY Zenon, <1>0, <1>1
<1>3. \A x : Files!Cardinality({x}) = 1
  <2>1. \A x : Cardinality({x}) = 1
    BY Zenon, FS_Singleton
  <2>2. \A s : Files!Cardinality(s) = Cardinality(s)
    BY DEF Files!Cardinality, Cardinality
  <2> QED BY <2>1, <2>2
<1>4. ASSUME NEW manager \in DOMAIN Files!lifecycle_nodes, manager \in names
      PROVE  Files!lifecycle_nodes[manager] \subseteq names
  <2>1. manager \in {"lifecycle_manager_navigation", "lifecycle_manager_localization",
                     "lifecycle_manager_slam"}
    BY <1>4 DEF Files!lifecycle_nodes
  <2>2. /\ Files!lifecycle_nodes["lifecycle_manager_localization"] = {"map_server"}
        /\ Files!lifecycle_nodes["lifecycle_manager_slam"] = {"map_saver"}
    BY DEF Files!lifecycle_nodes
  <2> QED BY <1>2, <1>4, <2>1, <2>2, NavigatorsAre
<1>5. \A frame \in {"odom", "base_footprint", "gimbal_yaw_fake"} :
          Files!Cardinality(Files!Broadcasters(frame, names)) = 1
  BY Zenon, <1>2, <1>3
<1>6. Files!Cardinality(names \cap {"point_lio", "host_sdk_sample"}) = 1
  BY <1>2, <1>3
<1>7. \A manager \in DOMAIN Files!lifecycle_nodes :
          manager \in names => Files!lifecycle_nodes[manager] \subseteq names
  BY <1>4
<1> QED BY <1>5, <1>6, <1>7, Zenon DEF Files!OneOfEach, names

\* What a chain of nodes reaches, step by step.
ReachOf(f, edges, origin) ==
    f = [k \in 0 .. 6 |-> IF k = 0 THEN {origin}
                          ELSE LET before == f[k - 1]
                               IN  before \cup {e[2] : e \in {d \in edges : d[1] \in before}}]

Beyond(s, edges) == s \cup {e[2] : e \in {d \in edges : d[1] \in s}}

LEMMA ReachesSteps ==
    ASSUME NEW edges, NEW origin
    PROVE  \E f : /\ Files!Reaches(edges, origin) = f[6] /\ f[0] = {origin}
                  /\ \A k \in 1 .. 6 : f[k] = Beyond(f[k - 1], edges)
<1> DEFINE a == {origin} b == Beyond(a, edges) c == Beyond(b, edges) d == Beyond(c, edges)
           e == Beyond(d, edges) g == Beyond(e, edges) h == Beyond(g, edges)
           all == [k \in 0 .. 6 |-> CASE k = 0 -> a [] k = 1 -> b [] k = 2 -> c [] k = 3 -> d
                                      [] k = 4 -> e [] k = 5 -> g [] k = 6 -> h]
           f == CHOOSE x : ReachOf(x, edges, origin)
<1>1. Files!Reaches(edges, origin) = f[6]
  BY DEF Files!Reaches, ReachOf
<1>2. ReachOf(all, edges, origin)
  <2>1. \A k \in 0 .. 6 : k = 0 \/ k = 1 \/ k = 2 \/ k = 3 \/ k = 4 \/ k = 5 \/ k = 6
    OBVIOUS
  <2>2. /\ all[0] = a /\ all[1] = b /\ all[2] = c /\ all[3] = d /\ all[4] = e /\ all[5] = g /\ all[6] = h
    <3> HIDE DEF a, b, c, d, e, g, h
    <3> QED OBVIOUS
  <2>3. /\ b = Beyond(a, edges) /\ c = Beyond(b, edges) /\ d = Beyond(c, edges)
        /\ e = Beyond(d, edges) /\ g = Beyond(e, edges) /\ h = Beyond(g, edges)
    OBVIOUS
  <2> DEFINE next == [k \in 0 .. 6 |-> IF k = 0 THEN {origin} ELSE Beyond(all[k - 1], edges)]
  <2>4. all = [k \in 0 .. 6 |-> all[k]]
    <3> HIDE DEF a, b, c, d, e, g, h
    <3> QED OBVIOUS
  <2>5. \A k \in 0 .. 6 : all[k] = IF k = 0 THEN {origin} ELSE Beyond(all[k - 1], edges)
    <3>0. a = {origin}
      OBVIOUS
    <3> HIDE DEF a, b, c, d, e, g, h, all
    <3> QED BY <2>1, <2>2, <2>3, <3>0
  <2>6. all = next
    <3> HIDE DEF a, b, c, d, e, g, h, all
    <3> QED BY <2>4, <2>5
  <2> HIDE DEF all
  <2> QED BY <2>6 DEF ReachOf, Beyond
<1> HIDE DEF all
<1>3. ReachOf(f, edges, origin)
  BY <1>2
<1> HIDE DEF f
<1>4. f[0] = {origin} /\ \A k \in 1 .. 6 : f[k] = Beyond(f[k - 1], edges)
  BY <1>3 DEF ReachOf, Beyond
<1> QED BY <1>1, <1>4

\* What is closed under the edges is not left.
LEMMA ReachesWithin ==
    ASSUME NEW edges, NEW origin, NEW closed, origin \in closed,
           \A e \in edges : e[1] \in closed => e[2] \in closed
    PROVE  Files!Reaches(edges, origin) \subseteq closed
<1>1. PICK f : /\ Files!Reaches(edges, origin) = f[6] /\ f[0] = {origin}
               /\ \A k \in 1 .. 6 : f[k] = Beyond(f[k - 1], edges)
  BY ReachesSteps
<1>2. f[0] \subseteq closed
  BY <1>1
<1>3. \A k \in 1 .. 6 : f[k - 1] \subseteq closed => f[k] \subseteq closed
  BY <1>1 DEF Beyond
<1>4. f[1] \subseteq closed
  BY <1>2, <1>3
<1>5. f[2] \subseteq closed
  BY <1>4, <1>3
<1>6. f[3] \subseteq closed
  BY <1>5, <1>3
<1>7. f[4] \subseteq closed
  BY <1>6, <1>3
<1>8. f[5] \subseteq closed
  BY <1>7, <1>3
<1>9. f[6] \subseteq closed
  BY <1>8, <1>3
<1> QED BY <1>1, <1>9

\* Chains of one, three and five edges are followed to their end.
LEMMA ReachesAlong ==
    ASSUME NEW edges, NEW p
    PROVE  /\ \A q : <<p, q>> \in edges => q \in Files!Reaches(edges, p)
           /\ \A q, r, s : <<p, q>> \in edges /\ <<q, r>> \in edges /\ <<r, s>> \in edges
                             => s \in Files!Reaches(edges, p)
           /\ \A q, r, s, t, u : /\ <<p, q>> \in edges /\ <<q, r>> \in edges
                                  /\ <<r, s>> \in edges /\ <<s, t>> \in edges /\ <<t, u>> \in edges
                                  => u \in Files!Reaches(edges, p)
<1>1. PICK f : /\ Files!Reaches(edges, p) = f[6] /\ f[0] = {p}
               /\ \A k \in 1 .. 6 : f[k] = Beyond(f[k - 1], edges)
  BY ReachesSteps
<1>2. \A x, y, s : <<x, y>> \in edges /\ x \in s => y \in Beyond(s, edges)
  <2>1. ASSUME NEW x, NEW y, NEW s, <<x, y>> \in edges, x \in s PROVE y \in Beyond(s, edges)
    <3>1. <<x, y>>[1] = x /\ <<x, y>>[2] = y
      OBVIOUS
    <3> QED BY <2>1, <3>1 DEF Beyond
  <2> QED BY <2>1
<1>3. /\ f[1] = Beyond(f[0], edges) /\ f[2] = Beyond(f[1], edges) /\ f[3] = Beyond(f[2], edges)
      /\ f[4] = Beyond(f[3], edges) /\ f[5] = Beyond(f[4], edges) /\ f[6] = Beyond(f[5], edges)
  BY <1>1
<1>4. f[1] \subseteq f[6] /\ f[3] \subseteq f[6] /\ f[5] \subseteq f[6]
  <2>1. \A s : s \subseteq Beyond(s, edges)
    BY DEF Beyond
  <2>2. f[5] \subseteq f[6] /\ f[4] \subseteq f[5] /\ f[3] \subseteq f[4] /\ f[2] \subseteq f[3] /\ f[1] \subseteq f[2]
    BY <1>3, <2>1
  <2> QED BY <2>2
<1>5. p \in f[0]
  BY <1>1
<1>6. ASSUME NEW q, <<p, q>> \in edges PROVE q \in f[1]
  BY <1>2, <1>3, <1>5, <1>6
<1>7. ASSUME NEW q, NEW r, NEW s, q \in f[1], <<q, r>> \in edges, <<r, s>> \in edges PROVE s \in f[3]
  <2>1. r \in f[2]
    BY <1>2, <1>3, <1>7
  <2> QED BY <1>2, <1>3, <1>7, <2>1
<1>8. ASSUME NEW s, NEW t, NEW u, s \in f[3], <<s, t>> \in edges, <<t, u>> \in edges PROVE u \in f[5]
  <2>1. t \in f[4]
    BY <1>2, <1>3, <1>8
  <2> QED BY <1>2, <1>3, <1>8, <2>1
<1> QED BY <1>1, <1>4, <1>6, <1>7, <1>8

LEMMA VelocitiesAreTransformed == ASSUME args \in Files!Args PROVE Files!VelocitiesTransformed
<1> DEFINE edges == Files!VelocityEdges(args)
           Without(gone) == {e \in edges : gone \notin {e[1], e[2]}}
           behaves == <<"behavior_server",
                        IF args.use_composition THEN "cmd_vel_nav2_result" ELSE "cmd_vel">>
<1>1. \A e : e \in edges <=> \/ e = <<"controller_server", "cmd_vel_controller">>
                             \/ e = <<"cmd_vel_controller", "velocity_smoother">>
                             \/ e = <<"velocity_smoother", "cmd_vel_nav2_result">>
                             \/ e = <<"cmd_vel_nav2_result", "fake_vel_transform">>
                             \/ e = <<"fake_vel_transform", "cmd_vel">>
                             \/ e = behaves
  BY DEF Files!VelocityEdges
<1> HIDE DEF edges
<1>2. "cmd_vel" \in Files!Reaches(edges, "controller_server")
  BY Zenon, <1>1, ReachesAlong
<1>3. "cmd_vel" \in Files!Reaches(edges, "behavior_server")
  <2>1. CASE args.use_composition
    <3>1. behaves = <<"behavior_server", "cmd_vel_nav2_result">>
      BY <2>1
    <3> HIDE DEF behaves
    <3>2. /\ <<"behavior_server", "cmd_vel_nav2_result">> \in edges
          /\ <<"cmd_vel_nav2_result", "fake_vel_transform">> \in edges
          /\ <<"fake_vel_transform", "cmd_vel">> \in edges
      BY <1>1, <3>1
    <3> QED BY <3>2, ReachesAlong
  <2>2. CASE ~args.use_composition
    <3>1. behaves = <<"behavior_server", "cmd_vel">>
      BY <2>2
    <3> HIDE DEF behaves
    <3>2. <<"behavior_server", "cmd_vel">> \in edges
      BY <1>1, <3>1
    <3> QED BY <3>2, ReachesAlong
  <2> QED BY <2>1, <2>2
<1>4. "cmd_vel" \notin Files!Reaches(Without("velocity_smoother"), "controller_server")
  <2> DEFINE closed == {"controller_server", "cmd_vel_controller"}
  <2>1. \A e \in Without("velocity_smoother") : e[1] \in closed => e[2] \in closed
    BY <1>1
  <2>2. "controller_server" \in closed /\ "cmd_vel" \notin closed
    OBVIOUS
  <2> HIDE DEF closed, Without
  <2>3. Files!Reaches(Without("velocity_smoother"), "controller_server") \subseteq closed
    BY <2>1, <2>2, ReachesWithin
  <2> QED BY <2>2, <2>3
<1>5. "cmd_vel" \notin Files!Reaches(Without("fake_vel_transform"), "controller_server")
  <2> DEFINE closed == {"controller_server", "cmd_vel_controller", "velocity_smoother", "cmd_vel_nav2_result"}
  <2>1. \A e \in Without("fake_vel_transform") : e[1] \in closed => e[2] \in closed
    BY <1>1
  <2>2. "controller_server" \in closed /\ "cmd_vel" \notin closed
    OBVIOUS
  <2> HIDE DEF closed, Without
  <2>3. Files!Reaches(Without("fake_vel_transform"), "controller_server") \subseteq closed
    BY <2>1, <2>2, ReachesWithin
  <2> QED BY <2>2, <2>3
<1>6. ASSUME args.use_composition
      PROVE  "cmd_vel" \notin Files!Reaches(Without("fake_vel_transform"), "behavior_server")
  <2> DEFINE closed == {"behavior_server", "cmd_vel_nav2_result"}
  <2>0. behaves = <<"behavior_server", "cmd_vel_nav2_result">>
    BY <1>6
  <2>1. \A e \in Without("fake_vel_transform") : e[1] \in closed => e[2] \in closed
    BY <1>1, <2>0
  <2>2. "behavior_server" \in closed /\ "cmd_vel" \notin closed
    OBVIOUS
  <2> HIDE DEF closed, Without
  <2>3. Files!Reaches(Without("fake_vel_transform"), "behavior_server") \subseteq closed
    BY <2>1, <2>2, ReachesWithin
  <2> QED BY <2>2, <2>3
<1>7. \A gone \in {"velocity_smoother", "fake_vel_transform"} :
          "cmd_vel" \notin Files!Reaches(Without(gone), "controller_server")
  BY Zenon, <1>4, <1>5
<1> QED BY <1>2, <1>3, <1>6, <1>7 DEF Files!VelocitiesTransformed, edges

LEMMA LaunchFilesHold == LaunchInv => Files!OneOfEach /\ Files!VelocitiesTransformed /\ Files!ProcessesKept
<1> SUFFICES ASSUME LaunchInv PROVE Files!OneOfEach /\ Files!VelocitiesTransformed /\ Files!ProcessesKept
  OBVIOUS
<1>1. args \in Files!Args
  BY DEF LaunchInv
<1>2. \A n \in Files!Started : Fits(n, args)
  BY <1>1, NamesTell DEF Files!Started
<1>3. Files!ProcessesKept
  BY <1>2 DEF Files!ProcessesKept, LaunchInv, Fits
<1> QED BY <1>1, <1>3, OneOfEachHolds, VelocitiesAreTransformed

-----------------------------------------------------------------------------
(* The odin driver's main, for any configuration files.                     *)

Sections == {"custom_parameters_", "register_keys_str_val_", "register_keys_float_val_",
             "register_keys_"}

\* g holds what is read after 0, 1, ..., n entries.
ReadsOf(g, n, f) ==
    g = [i \in 0..n |-> IF i = 0 THEN Startup!Nothing ELSE Startup!ReadKey(g[i - 1], f[i])]

LEMMA ReadsExist ==
    ASSUME NEW f, NEW m \in Nat
    PROVE  \E g : ReadsOf(g, m, f)
<1> DEFINE S == {n \in 0..m : \E g : ReadsOf(g, n, f)}
<1>1. 0 \in S
  <2> DEFINE g == [i \in 0..0 |-> Startup!Nothing]
  <2>1. ReadsOf(g, 0, f)
    BY DEF ReadsOf
  <2> HIDE DEF g
  <2> QED BY <2>1
<1>2. ASSUME NEW n \in 1..m, n - 1 \in S PROVE n \in S
  <2>1. PICK g : ReadsOf(g, n - 1, f)
    BY <1>2
  <2> DEFINE h == [i \in 0..n |-> IF i = n THEN Startup!ReadKey(g[n - 1], f[n]) ELSE g[i]]
  <2>2. ASSUME NEW i \in 0..n
        PROVE  h[i] = IF i = 0 THEN Startup!Nothing ELSE Startup!ReadKey(h[i - 1], f[i])
    <3>1. CASE i = n
      <4>1. i - 1 \in 0..n /\ i - 1 # n /\ i # 0
        BY <3>1
      <4>2. h[i] = Startup!ReadKey(g[n - 1], f[n]) /\ h[n - 1] = g[n - 1]
        BY <3>1, <4>1
      <4> HIDE DEF h
      <4> QED BY <3>1, <4>1, <4>2
    <3>2. CASE i # n
      <4>1. i \in 0..(n - 1)
        BY <3>2
      <4>2. g[i] = IF i = 0 THEN Startup!Nothing ELSE Startup!ReadKey(g[i - 1], f[i])
        BY <2>1, <4>1 DEF ReadsOf
      <4>3. h[i] = g[i] /\ (i # 0 => h[i - 1] = g[i - 1])
        BY <3>2, <4>1
      <4> HIDE DEF h
      <4> QED BY <4>2, <4>3
    <3> QED BY <3>1, <3>2
  <2>3. h = [i \in 0..n |-> h[i]]
    OBVIOUS
  <2> HIDE DEF h
  <2>4. ReadsOf(h, n, f)
    BY Zenon, <2>2, <2>3 DEF ReadsOf
  <2> QED BY <2>4
<1>3. m \in S
  <2> HIDE DEF S
  <2>1. \A i \in 0..m : i \in S
    BY <1>1, <1>2, CountsUp
  <2> QED BY <2>1
<1> QED BY <1>3

\* The entries of f up to i that give key a value.
Given(f, i, key) == {j \in 1..i : f[j][1] = key /\ Startup!Accepts(Startup!Section(key), f[j][2].kind)}

\* maps has the last of them for every key.
Holds(maps, f, i) ==
    /\ maps = [s \in Sections |-> maps[s]]
    /\ \A key : Startup!Section(key) \in Sections =>
           /\ key \in DOMAIN maps[Startup!Section(key)] <=> Given(f, i, key) # {}
           /\ \A j \in Given(f, i, key) :
                  (\A k \in Given(f, i, key) : k <= j) =>
                      maps[Startup!Section(key)][key] = Startup!Stored(Startup!Section(key), f[j][2])

LEMMA SectionsAre ==
    /\ \A key : Startup!Section(key) \in Sections \cup {"unknown"}
    /\ \A kind : ~Startup!Accepts("unknown", kind)
    /\ "unknown" \notin Sections
<1>1. \A key : Startup!Section(key) \in Sections \cup {"unknown"}
  BY DEF Startup!Section, Sections
<1>2. \A kind : ~Startup!Accepts("unknown", kind)
  BY DEF Startup!Accepts
<1> QED BY <1>1, <1>2 DEF Sections

LEMMA EntryRead ==
    ASSUME NEW f, NEW n \in Nat, NEW i \in 1..n, NEW maps, Holds(maps, f, i - 1)
    PROVE  Holds(Startup!ReadKey(maps, f[i]), f, i)
<1> DEFINE key == f[i][1]
           value == f[i][2]
           section == Startup!Section(key)
           new == Startup!ReadKey(maps, f[i])
<1>1. i - 1 \in Nat /\ \A j : j \in 1..i <=> j \in 1..(i - 1) \/ j = i
  OBVIOUS
<1>2. \A other : other # key => Given(f, i, other) = Given(f, i - 1, other)
  BY <1>1 DEF Given
<1>3. CASE Startup!Accepts(section, value.kind)
  <2>1. section \in Sections
    BY <1>3, SectionsAre
  <2> DEFINE entry == Startup!Stored(section, value)
             m == Startup!With(maps[section], key, entry)
  <2>2. new = [maps EXCEPT ![section] = m]
    BY <1>3 DEF Startup!ReadKey
  <2>3. /\ new = [s \in Sections |-> new[s]] /\ new[section] = m
        /\ \A s \in Sections : s # section => new[s] = maps[s]
    <3>1. maps = [s \in Sections |-> maps[s]]
      BY DEF Holds
    <3> HIDE DEF m, new, section
    <3> QED BY <2>1, <2>2, <3>1
  <2>4. /\ DOMAIN m = {key} \cup DOMAIN maps[section] /\ m[key] = entry
        /\ \A k \in DOMAIN maps[section] : k # key => m[k] = maps[section][k]
    BY DEF Startup!With
  <2>5. i \in Given(f, i, key) /\ \A j \in Given(f, i, key) : j \in 1..i
    BY <1>1, <1>3 DEF Given
  <2> HIDE DEF m, new, entry
  <2>6. ASSUME NEW other, Startup!Section(other) \in Sections
        PROVE  /\ other \in DOMAIN new[Startup!Section(other)] <=> Given(f, i, other) # {}
               /\ \A j \in Given(f, i, other) :
                      (\A k \in Given(f, i, other) : k <= j) =>
                          new[Startup!Section(other)][other] = Startup!Stored(Startup!Section(other), f[j][2])
    <3>1. /\ other \in DOMAIN maps[Startup!Section(other)] <=> Given(f, i - 1, other) # {}
          /\ \A j \in Given(f, i - 1, other) :
                 (\A k \in Given(f, i - 1, other) : k <= j) =>
                     maps[Startup!Section(other)][other] = Startup!Stored(Startup!Section(other), f[j][2])
      BY <2>6 DEF Holds
    <3>2. CASE other = key
      <4>1. \A j \in Given(f, i, key) : (\A k \in Given(f, i, key) : k <= j) => j = i
        BY <2>5
      <4> HIDE DEF value, section
      <4>2. new[section][key] = Startup!Stored(section, value)
        BY <2>3, <2>4 DEF entry
      <4> QED BY <2>3, <2>4, <2>5, <3>2, <4>1, <4>2 DEF value, section
    <3>3. CASE other # key
      <4>1. Given(f, i, other) = Given(f, i - 1, other)
        BY <1>2, <3>3
      <4> HIDE DEF key, value
      <4>2. CASE Startup!Section(other) = section
        <5>1. other \in DOMAIN m <=> other \in DOMAIN maps[section]
          BY <2>4, <3>3
        <5>2. other \in DOMAIN m => m[other] = maps[section][other]
          BY <2>4, <3>3
        <5> HIDE DEF section
        <5>3. Given(f, i, other) # {} => other \in DOMAIN m
          BY <3>1, <4>1, <4>2, <5>1
        <5> QED BY <2>3, <3>1, <4>1, <4>2, <5>1, <5>2, <5>3
      <4>3. CASE Startup!Section(other) # section
        <5>1. new[Startup!Section(other)] = maps[Startup!Section(other)]
          BY <2>3, <2>6, <4>3
        <5> HIDE DEF section
        <5> QED BY <3>1, <4>1, <5>1
      <4> QED BY <4>2, <4>3
    <3> QED BY <3>2, <3>3
  <2>7. Holds(new, f, i)
    BY <2>3, <2>6 DEF Holds
  <2> QED BY <2>7 DEF new
<1>4. CASE ~Startup!Accepts(section, value.kind)
  <2>1. new = maps
    BY <1>4 DEF Startup!ReadKey
  <2>2. \A other : Given(f, i, other) = Given(f, i - 1, other)
    <3>1. i \notin Given(f, i, key)
      BY <1>4 DEF Given
    <3>2. Given(f, i, key) = Given(f, i - 1, key)
      BY <1>1, <3>1 DEF Given
    <3> HIDE DEF key
    <3> QED BY <1>2, <3>2
  <2> QED BY <2>1, <2>2 DEF Holds
<1> QED BY <1>3, <1>4

LEMMA FileRead ==
    ASSUME NEW f, Len(f) \in Nat
    PROVE  Holds(Startup!loadConfig(f), f, Len(f))
<1> DEFINE n == Len(f)
           g == CHOOSE h : ReadsOf(h, n, f)
<1>1. Startup!loadConfig(f) = g[n]
  BY DEF Startup!loadConfig, ReadsOf
<1>2. ReadsOf(g, n, f)
  BY Zenon, ReadsExist
<1> HIDE DEF g
<1> DEFINE S == {i \in 0..n : Holds(g[i], f, i)}
<1>3. 0 \in S
  <2>1. g[0] = Startup!Nothing
    BY <1>2 DEF ReadsOf
  <2>2. \A key : Given(f, 0, key) = {}
    BY DEF Given
  <2>3. /\ Startup!Nothing = [s \in Sections |-> Startup!Nothing[s]]
        /\ \A s \in Sections : DOMAIN Startup!Nothing[s] = {}
    BY DEF Startup!Nothing, Sections
  <2>4. Holds(g[0], f, 0)
    BY <2>1, <2>2, <2>3 DEF Holds
  <2> QED BY <2>4
<1>4. ASSUME NEW i \in 1..n, i - 1 \in S PROVE i \in S
  <2>1. g[i] = Startup!ReadKey(g[i - 1], f[i])
    BY <1>2 DEF ReadsOf
  <2> QED BY <1>4, <2>1, EntryRead
<1>5. n \in S
  <2> HIDE DEF S
  <2>1. \A i \in 0..n : i \in S
    BY Zenon, <1>3, <1>4, CountsUp
  <2> QED BY <2>1
<1> QED BY <1>1, <1>5

\* What was read stays what the file says, main reads its settings once, and what
\* it left in the camera file is not touched after it returned.
StartupInv ==
    /\ Startup_file \in ConfigFiles \cup {<<>>}
    /\ main = "load" => settings = <<>>
    /\ main = "settings" => /\ settings = <<>> /\ Startup_file \in ConfigFiles
                            /\ parsed = Startup!loadConfig(Startup_file)
    /\ settings # <<>> => /\ Startup_file \in ConfigFiles
                          /\ parsed = Startup!loadConfig(Startup_file)
                          /\ \A key \in Startup!allowed_key_w_int_val :
                                 settings[key] = Startup!get_key_value(key)
                          /\ settings.map_mode = Startup!getCustomMapMode(parsed)
    /\ Startup!MapHasPlace
    /\ camera_file \in {"none", "placeholder", "whole", "no_tcl"}
    /\ calib_file_ \in {"", "whole", "no_tcl", "unreadable"}
    /\ Startup_odinDevice => calib_file_ # ""
    /\ ret = 0 => main = "returned"
    /\ Startup!CameraFileWhole

LEMMA StartupStarts == Startup!Init => StartupInv
<1> SUFFICES ASSUME Startup!Init PROVE StartupInv
  OBVIOUS
<1>1. settings = <<>> /\ Startup_file \in ConfigFiles \cup {<<>>}
  BY Zenon DEF Startup!Init, Startup!Missing
<1>4. main = "load" /\ camera_file = "none" /\ calib_file_ = ""
  BY Zenon DEF Startup!Init
<1>5. ret = 2
  BY Zenon DEF Startup!Init
<1>2. ~Startup_odinDevice
  BY Zenon DEF Startup!Init
<1>3. Startup!MapHasPlace /\ Startup!CameraFileWhole
  <2>1. Startup!MapHasPlace
    BY Zenon, <1>4 DEF Startup!MapHasPlace
  <2>2. camera_file # "empty"
    BY Zenon, <1>4
  <2>3. ~(ret = 0)
    BY <1>5
  <2> QED BY <2>1, <2>2, <2>3 DEF Startup!CameraFileWhole
<1>6. main # "settings"
  BY Zenon, <1>4
<1>7. ~(ret = 0)
  BY <1>5
<1> QED BY Zenon, <1>1, <1>2, <1>3, <1>4, <1>6, <1>7 DEF StartupInv

\* The steps that leave the settings and where they came from alone.
SettingsStay ==
    /\ UNCHANGED <<Startup_file, parsed, settings>>
    /\ main \notin {"load", "settings"} => main' \notin {"load", "settings"}
    /\ main \in {"load", "settings"} => main' \in {main, "returned"}

SettingsHold ==
    /\ main = "load" => settings = <<>>
    /\ main = "settings" => /\ settings = <<>> /\ Startup_file \in ConfigFiles
                            /\ parsed = Startup!loadConfig(Startup_file)
    /\ settings # <<>> => /\ Startup_file \in ConfigFiles
                          /\ parsed = Startup!loadConfig(Startup_file)
                          /\ \A key \in Startup!allowed_key_w_int_val :
                                 settings[key] = Startup!get_key_value(key)
                          /\ settings.map_mode = Startup!getCustomMapMode(parsed)

LEMMA SettingsStayHeld == ASSUME SettingsHold, SettingsStay PROVE SettingsHold'
BY DEF SettingsHold, SettingsStay, Startup!get_key_value

LEMMA StartupLoads == ASSUME StartupInv, Startup!LoadConfig PROVE StartupInv'
<1>1. SettingsHold'
  BY Zenon DEF StartupInv, SettingsHold, Startup!LoadConfig, Startup!Missing, Startup!Returns,
     Startup!Goes, Startup!reading
<1>2. /\ UNCHANGED <<Startup_file, camera_file, calib_file_, Startup_odinDevice>>
      /\ main' \in {"settings", "returned"} /\ ret # 0 /\ ret' # 0
  <2>1. /\ UNCHANGED <<Startup_file, camera_file, calib_file_, Startup_odinDevice>>
        /\ main = "load" /\ main' \in {"settings", "returned"} /\ (UNCHANGED ret \/ ret' = -1)
    BY DEF Startup!LoadConfig, Startup!Returns, Startup!Goes, Startup!device
  <2>2. ret # 0
    BY Zenon, <2>1 DEF StartupInv
  <2> QED BY <2>1, <2>2
<1>3. Startup!MapHasPlace' /\ Startup!CameraFileWhole'
  BY Zenon, <1>2 DEF StartupInv, Startup!MapHasPlace, Startup!CameraFileWhole
<1> QED BY Zenon, <1>1, <1>2, <1>3 DEF StartupInv, SettingsHold

LEMMA StartupReads ==
    ASSUME StartupInv, NEW base, NEW found, NEW writable, Startup!ReadSettings(base, found, writable)
    PROVE  StartupInv'
<1>1. main = "settings" /\ UNCHANGED <<Startup_file, parsed, calib_file_, Startup_odinDevice>>
  BY DEF Startup!ReadSettings, Startup!device
<1>2. main' # "load" /\ main' # "settings" /\ ret' # 0
  <2>1. main' \in {"init", "returned"} /\ (UNCHANGED ret \/ ret' = -1)
    BY DEF Startup!ReadSettings, Startup!Returns, Startup!Goes
  <2>2. ret # 0
    BY Zenon, <1>1 DEF StartupInv
  <2> QED BY <2>1, <2>2
<1>3. /\ \A key \in Startup!allowed_key_w_int_val : settings'[key] = Startup!get_key_value(key)
      /\ settings'.map_mode = Startup!getCustomMapMode(parsed)
  <2> DEFINE keys == Startup!allowed_key_w_int_val \cup {"dest", "map_mode"}
             dest == Startup!get_key_str_value("mapping_result_dest_dir")
             mode == Startup!getCustomMapMode(parsed)
  <2>1. settings' = [k \in keys |-> CASE k = "dest" -> dest [] k = "map_mode" -> mode
                                     [] OTHER -> Startup!get_key_value(k)]
    BY DEF Startup!ReadSettings
  <2>2. \A key \in Startup!allowed_key_w_int_val : key # "dest" /\ key # "map_mode"
    BY DEF Startup!allowed_key_w_int_val
  <2>3. "map_mode" \in keys /\ \A key \in Startup!allowed_key_w_int_val : key \in keys
    OBVIOUS
  <2> HIDE DEF keys, dest, mode
  <2>4. settings'["map_mode"] = mode
    BY <2>1, <2>3
  <2>5. ASSUME NEW key \in Startup!allowed_key_w_int_val PROVE settings'[key] = Startup!get_key_value(key)
    BY <2>1, <2>2, <2>3
  <2> QED BY <2>4, <2>5 DEF mode
<1>4. SettingsHold'
  <2>1. \A key : Startup!get_key_value(key)' = Startup!get_key_value(key)
    BY <1>1 DEF Startup!get_key_value
  <2> QED BY Zenon, <1>1, <1>2, <1>3, <2>1 DEF StartupInv, SettingsHold
<1>5. /\ main' = "returned" \/ (main' = "init" /\ map_root_dir_' = Startup!MapRoot(base, settings'))
      /\ camera_file' \in {"none", "placeholder", "whole", "no_tcl"}
  BY Zenon DEF StartupInv, Startup!ReadSettings, Startup!Returns, Startup!Goes,
     Startup!InitializeLogger
<1>6. Startup!MapHasPlace'
  <2>1. Startup!MapRoot(base, settings') # <<>> \/ settings'.map_mode # 1 \/ settings'.dest # ""
    BY Zenon DEF Startup!MapRoot
  <2> QED BY Zenon, <1>5, <2>1 DEF Startup!MapHasPlace
<1>7. Startup!CameraFileWhole'
  BY <1>2, <1>5 DEF Startup!CameraFileWhole
<1> QED BY Zenon, <1>1, <1>2, <1>4, <1>5, <1>6, <1>7 DEF StartupInv, SettingsHold

LEMMA StartupGoesOn ==
    ASSUME StartupInv, [Startup!Next]_StartupVars, ~Startup!LoadConfig,
           ~\E base \in {"workspace", "share"}, found \in BOOLEAN, writable \in BOOLEAN :
                Startup!ReadSettings(base, found, writable)
    PROVE  StartupInv'
<1>1. SettingsStay
  BY DEF StartupVars, Startup!Next, Startup!SystemInit, Startup!CheckUsbVersion,
     Startup!WaitForDevice, Startup!Loop, Startup!Leave, Startup!Attach, Startup!AttachRefused,
     Startup!Detach, Startup!Plug, Startup!Shutdown, Startup!WriteCommand, Startup!Returns,
     Startup!Goes, Startup!Others, Startup!reading, SettingsStay
<1>2. SettingsHold'
  BY Zenon, <1>1, SettingsStayHeld DEF StartupInv, SettingsHold
<1>3. UNCHANGED map_root_dir_ /\ (main' \in {"init", "wait", "version", "loop"} => main \in {"init", "wait", "version", "loop"})
  BY DEF StartupVars, Startup!Next, Startup!SystemInit, Startup!CheckUsbVersion,
     Startup!WaitForDevice, Startup!Loop, Startup!Leave, Startup!Attach, Startup!AttachRefused,
     Startup!Detach, Startup!Plug, Startup!Shutdown, Startup!WriteCommand, Startup!Returns,
     Startup!Goes, Startup!Others, Startup!places
<1>4. Startup!MapHasPlace'
  BY Zenon, <1>1, <1>3 DEF StartupInv, Startup!MapHasPlace, SettingsStay
<1>5. CASE Startup!Leave
  BY Zenon, <1>1, <1>2, <1>4, <1>5 DEF StartupInv, SettingsHold, Startup!CameraFileWhole,
     Startup!Leave, Startup!Returns, Startup!device, Startup!convert_calib_to_cam_in_ex,
     SettingsStay
<1>6. CASE ~Startup!Leave
  <2>1. UNCHANGED <<Startup_file, camera_file>>
    BY <1>6 DEF StartupVars, Startup!Next, Startup!SystemInit, Startup!CheckUsbVersion,
       Startup!WaitForDevice, Startup!Loop, Startup!Attach, Startup!AttachRefused, Startup!Detach,
       Startup!Plug, Startup!Shutdown, Startup!WriteCommand, Startup!Others, Startup!reading
  <2>2. \/ UNCHANGED <<ret, main>>
        \/ main # "returned" /\ main' # "returned" /\ UNCHANGED ret
        \/ main' = "returned" /\ ret' \in {-1, 1}
    BY <1>6 DEF StartupVars, Startup!Next, Startup!SystemInit, Startup!CheckUsbVersion,
       Startup!WaitForDevice, Startup!Loop, Startup!Attach, Startup!AttachRefused, Startup!Detach,
       Startup!Plug, Startup!Shutdown, Startup!WriteCommand, Startup!Returns, Startup!Goes,
       Startup!Others
  <2>3. \/ UNCHANGED <<calib_file_, Startup_odinDevice>>
        \/ /\ calib_file_' \in {"whole", "no_tcl", "unreadable"} /\ main # "returned"
           /\ UNCHANGED <<ret, main>>
    BY <1>6 DEF StartupVars, Startup!Next, Startup!SystemInit, Startup!CheckUsbVersion,
       Startup!WaitForDevice, Startup!Loop, Startup!Attach, Startup!AttachRefused, Startup!Detach,
       Startup!Plug, Startup!Shutdown, Startup!WriteCommand, Startup!Others, Startup!device
  <2>4. /\ camera_file' \in {"none", "placeholder", "whole", "no_tcl"}
        /\ calib_file_' \in {"", "whole", "no_tcl", "unreadable"}
    BY Zenon, <2>1, <2>3 DEF StartupInv
  <2>5. Startup_odinDevice' => calib_file_' # ""
    BY Zenon, <2>3 DEF StartupInv
  <2>6. /\ ret' = 0 => main' = "returned"
        /\ ret' = 0 => UNCHANGED <<calib_file_, Startup_odinDevice, ret>>
    <3>1. ret = 0 => main = "returned"
      BY Zenon DEF StartupInv
    <3>2. -1 # 0 /\ 1 # 0
      OBVIOUS
    <3>3. ret' = 0 => main = "returned" /\ UNCHANGED <<ret, main>>
      BY <2>2, <3>1, <3>2
    <3> QED BY <2>3, <3>1, <3>3
  <2>7. Startup!CameraFileWhole'
    <3>1. camera_file' # "empty"
      BY Zenon, <2>4
    <3>2. Startup!CameraFileWhole
      BY Zenon DEF StartupInv
    <3>3. ret' = 0 => Startup_odinDevice' = Startup_odinDevice /\ calib_file_' = calib_file_ /\ ret = 0 /\ camera_file' = camera_file
      BY <2>1, <2>6
    <3> QED BY <3>1, <3>2, <3>3 DEF Startup!CameraFileWhole
  <2> QED BY Zenon, <1>2, <1>4, <2>1, <2>4, <2>5, <2>6, <2>7 DEF StartupInv, SettingsHold
<1> QED BY <1>5, <1>6

LEMMA StartupKept == Spec => []StartupInv
<1>1. Init => StartupInv
  BY StartupSteps, StartupStarts
<1>2. StartupInv /\ [Next]_vars => StartupInv'
  <2> SUFFICES ASSUME StartupInv, [Startup!Next]_StartupVars PROVE StartupInv'
    BY StartupSteps
  <2> QED BY StartupLoads, StartupReads, StartupGoesOn
<1> QED BY <1>1, <1>2, PTL DEF Spec

\* What a key has after the file is read is what its last usable entry gives.
LEMMA LatestDecides ==
    ASSUME NEW f, Len(f) \in Nat, NEW key, NEW section, section = Startup!Section(key), section \in Sections,
           NEW maps, maps = Startup!loadConfig(f), NEW last,
           last = CHOOSE i \in Given(f, Len(f), key) : \A j \in Given(f, Len(f), key) : j <= i
    PROVE  /\ key \in DOMAIN maps[section] <=> Given(f, Len(f), key) # {}
           /\ Given(f, Len(f), key) # {} =>
                  /\ last \in Given(f, Len(f), key)
                  /\ maps[section][key] = Startup!Stored(section, f[last][2])
<1> DEFINE n == Len(f)
           G == Given(f, n, key)
<1>1. Holds(maps, f, n)
  BY FileRead
<1>2. /\ key \in DOMAIN maps[section] <=> G # {}
      /\ \A j \in G : (\A k \in G : k <= j) => maps[section][key] = Startup!Stored(section, f[j][2])
  BY <1>1 DEF Holds
<1>3. G # {} => \E i \in G : \A j \in G : j <= i
  <2> SUFFICES ASSUME G # {} PROVE \E i \in G : \A j \in G : j <= i
    OBVIOUS
  <2>1. G \subseteq 1..n /\ n \in Nat
    BY DEF Given
  <2> HIDE DEF G, n
  <2> DEFINE T == {n - i : i \in G}
  <2>2. T \subseteq Nat /\ T # {}
    <3>1. \A i \in G : n - i \in Nat
      BY <2>1
    <3> QED BY Zenon, <2>1, <3>1
  <2>3. PICK x \in T : \A y \in T : x <= y
    BY Zenon, <2>2, NatLeast
  <2>4. PICK i \in G : x = n - i
    BY <2>3
  <2>5. ASSUME NEW j \in G PROVE j <= i
    <3>1. n - j \in T
      OBVIOUS
    <3> HIDE DEF T
    <3>2. n - i <= n - j
      BY Zenon, <2>3, <2>4, <3>1
    <3> QED BY <2>1, <3>2
  <2> QED BY <2>5
<1>4. G # {} => last \in G /\ \A j \in G : j <= last
  <2> HIDE DEF G
  <2>1. last = CHOOSE i \in G : \A j \in G : j <= i
    BY DEF G
  <2> QED BY Zenon, <1>3, <2>1
<1> QED BY <1>2, <1>4

LEMMA SettingsFollow == StartupInv => Startup!SettingsFollowFile
<1> SUFFICES ASSUME StartupInv, settings # <<>> PROVE Startup!SettingsFollowFile
  BY Zenon DEF Startup!SettingsFollowFile
<1> DEFINE f == Startup_file
           n == Len(f)
           Latest(key) == CHOOSE i \in Given(f, n, key) : \A j \in Given(f, n, key) : j <= i
<1>1. /\ f \in ConfigFiles /\ parsed = Startup!loadConfig(f)
      /\ \A key \in Startup!allowed_key_w_int_val : settings[key] = Startup!get_key_value(key)
      /\ settings.map_mode = Startup!getCustomMapMode(parsed)
  BY Zenon DEF StartupInv
<1>2. /\ n \in Nat /\ DOMAIN f = 1..n
      /\ \A i \in 1..n : f[i][2] = [kind |-> f[i][2].kind, v |-> f[i][2].v]
  BY <1>1, StartupAssumption
<1>3. \A key : Given(f, n, key) = {i \in DOMAIN f : f[i][1] = key /\ Startup!Accepts(Startup!Section(key), f[i][2].kind)}
  BY <1>2 DEF Given
<1>4. ASSUME NEW key \in Startup!allowed_key_w_int_val
      PROVE  settings[key] = IF Given(f, n, key) = {} THEN Startup!Default[key] ELSE f[Latest(key)][2].v
  <2> DEFINE last == Latest(key)
             section == "register_keys_"
  <2>1. Startup!Section(key) = section /\ section \in Sections
    BY DEF Startup!Section, Startup!allowed_key_w_int_val, Startup!Custom,
       Startup!allowed_key_w_str_val, Startup!allowed_key_w_float_val, Sections
  <2>2. /\ key \in DOMAIN parsed[section] <=> Given(f, n, key) # {}
        /\ Given(f, n, key) # {} => parsed[section][key] = Startup!Stored(section, f[last][2])
    <3> HIDE DEF section
    <3> QED BY <1>1, <1>2, <2>1, LatestDecides
  <2>3. Startup!Stored(section, f[last][2]) = f[last][2]
    BY DEF Startup!Stored
  <2> HIDE DEF last
  <2> QED BY <1>1, <2>2, <2>3 DEF Startup!get_key_value, last
<1>5. settings.map_mode = IF Given(f, n, "custom_map_mode") = {} \/ f[Latest("custom_map_mode")][2].kind # "int" THEN 2
                          ELSE f[Latest("custom_map_mode")][2].v
  <2> DEFINE key == "custom_map_mode"
             last == Latest(key)
             section == "custom_parameters_"
             value == f[last][2]
             custom == parsed[section]
  <2>1. Startup!Section(key) = section /\ section \in Sections
    <3>1. key \in Startup!Custom
      BY DEF Startup!Custom
    <3>2. Startup!Section(key) = section
      BY <3>1, Zenon DEF Startup!Section, Startup!allowed_key_w_int_val, Startup!Custom,
         Startup!allowed_key_w_str_val, Startup!allowed_key_w_float_val
    <3> QED BY <3>2 DEF Sections
  <2>2. /\ key \in DOMAIN custom <=> Given(f, n, key) # {}
        /\ Given(f, n, key) # {} => last \in Given(f, n, key) /\ custom[key] = Startup!Stored(section, value)
    <3> HIDE DEF section, key
    <3> QED BY <1>1, <1>2, <2>1, LatestDecides
  <2>3. ASSUME Given(f, n, key) # {}
        PROVE  custom[key].kind = (IF value.kind = "int" THEN "int" ELSE "floats") /\ (value.kind = "int" => custom[key].v = value.v)
    <3>1. last \in 1..n
      BY <2>2, <2>3 DEF Given
    <3>2. value = [kind |-> value.kind, v |-> value.v]
      BY Zenon, <1>2, <3>1
    <3>3. custom[key] = IF value.kind # "int" THEN [value EXCEPT !.kind = "floats"] ELSE value
      BY <2>2, <2>3 DEF Startup!Stored
    <3> HIDE DEF value, custom
    <3> QED BY <3>2, <3>3
  <2>4. settings.map_mode = IF key \in DOMAIN custom /\ custom[key].kind = "int" THEN custom[key].v ELSE 2
    BY <1>1 DEF Startup!getCustomMapMode
  <2> HIDE DEF value, custom, last
  <2>5. settings.map_mode = IF Given(f, n, key) = {} \/ value.kind # "int" THEN 2 ELSE value.v
    BY <2>2, <2>3, <2>4
  <2> QED BY <2>5 DEF value, last
<1> DEFINE Usable(key) == {i \in DOMAIN f : f[i][1] = key /\ Startup!Accepts(Startup!Section(key), f[i][2].kind)}
           Last(key) == f[CHOOSE i \in Usable(key) : \A j \in Usable(key) : j <= i][2]
<1>6. ASSUME NEW key PROVE Usable(key) = Given(f, n, key) /\ Last(key) = f[Latest(key)][2]
  <2>1. Usable(key) = Given(f, n, key)
    BY <1>3
  <2> HIDE DEF Usable, n, f
  <2> QED BY <2>1
<1>7. /\ \A key \in Startup!allowed_key_w_int_val :
             settings[key] = IF Usable(key) = {} THEN Startup!Default[key] ELSE Last(key).v
      /\ settings.map_mode = IF Usable("custom_map_mode") = {} \/ Last("custom_map_mode").kind # "int" THEN 2
                             ELSE Last("custom_map_mode").v
  <2> HIDE DEF Usable, Latest, Last
  <2> QED BY <1>4, <1>5, <1>6
<1> QED BY <1>7, Zenon DEF Startup!SettingsFollowFile

\* Whatever combination of arguments the launch files are given, each transform
\* has one sender, every managed node is launched, velocities pass the transform
\* and nodes go with their container; and whatever configuration file the odin
\* driver reads, its settings, its map directory and its camera file are right.
THEOREM LaunchDoesHold == Spec => []LaunchSound
<1>1. LaunchInv /\ StartupInv => LaunchSound
  BY Zenon, LaunchFilesHold, SettingsFollow DEF LaunchSound, Startup!StartupSound, StartupInv
<1> QED BY <1>1, LaunchKept, StartupKept, PTL

-----------------------------------------------------------------------------
(* The geometry of the pursuit controller, for all whole numbers.           *)

\* (a - b) . T = turn * (|a|^2 - |b|^2), with T the numerator of the centre.
LEMMA CentreOfTwo ==
    ASSUME NEW a1 \in Int, NEW a2 \in Int, NEW b1 \in Int, NEW b2 \in Int, NEW c1 \in Int, NEW c2 \in Int,
           NEW na \in Int, NEW nb \in Int, NEW nc \in Int, NEW t1 \in Int, NEW t2 \in Int, NEW turn \in Int,
           t1 = na * (b2 - c2) + nb * (c2 - a2) + nc * (a2 - b2),
           t2 = na * (c1 - b1) + nb * (a1 - c1) + nc * (b1 - a1),
           turn = a1 * (b2 - c2) + b1 * (c2 - a2) + c1 * (a2 - b2)
    PROVE  (a1 - b1) * t1 + (a2 - b2) * t2 = turn * (na - nb)
OBVIOUS

LEMMA SquaresDiffer ==
    ASSUME NEW p1 \in Int, NEW p2 \in Int, NEW q1 \in Int, NEW q2 \in Int, NEW by \in Int, NEW t1 \in Int, NEW t2 \in Int,
           by * ((p1 * p1 + p2 * p2) - (q1 * q1 + q2 * q2)) = 2 * ((p1 - q1) * t1 + (p2 - q2) * t2)
    PROVE  (p1 * by - t1) * (p1 * by - t1) + (p2 * by - t2) * (p2 * by - t2)
               = (q1 * by - t1) * (q1 * by - t1) + (q2 * by - t2) * (q2 * by - t2)
<1> DEFINE u == (p1 * p1 + p2 * p2) - (q1 * q1 + q2 * q2)
           w == (p1 - q1) * t1 + (p2 - q2) * t2
<1>1. by * (by * u) = by * (2 * w)
  OBVIOUS
<1>2. (p1 * by - t1) * (p1 * by - t1) + (p2 * by - t2) * (p2 * by - t2)
        - ((q1 * by - t1) * (q1 * by - t1) + (q2 * by - t2) * (q2 * by - t2))
      = by * (by * u) - by * (2 * w)
  OBVIOUS
<1> QED BY <1>1, <1>2

\* The point of a line through p and q at the place of s on it.
LEMMA OnTheLine ==
    ASSUME NEW p1 \in Int, NEW p2 \in Int, NEW q1 \in Int, NEW q2 \in Int, NEW s \in Int,
           NEW dx \in Int, dx = q1 - p1, NEW dy \in Int, dy = q2 - p2, NEW d \in Int, d = p1 * q2 - q1 * p2,
           NEW n \in Int, n = dx * dx + dy * dy,
           NEW x \in Int, x = d * dy + dx * s, NEW y \in Int, y = -d * dx + dy * s,
           NEW m \in Int, m = p1 * dx + p2 * dy
    PROVE  /\ x * x + y * y = (d * d + s * s) * n
           /\ (x - n * p1) * dy = (y - n * p2) * dx
           /\ (x - n * p1) * dx + (y - n * p2) * dy = n * (s - m)
<1>1. x * x + y * y = (d * d + s * s) * n
  OBVIOUS
<1>2. d = p1 * dy - p2 * dx
  OBVIOUS
<1>3. (x - n * p1) * dy = (y - n * p2) * dx
  <2>1. x * dy - y * dx = d * n
    OBVIOUS
  <2>2. (n * p1) * dy - (n * p2) * dx = n * d
    BY <1>2
  <2>3. (x - n * p1) * dy - (y - n * p2) * dx = (x * dy - y * dx) - ((n * p1) * dy - (n * p2) * dx)
    OBVIOUS
  <2> QED BY <2>1, <2>2, <2>3
<1>4. (x - n * p1) * dx + (y - n * p2) * dy = n * (s - m)
  <2>1. x * dx + y * dy = s * n
    OBVIOUS
  <2>2. (n * p1) * dx + (n * p2) * dy = n * m
    OBVIOUS
  <2>3. (x - n * p1) * dx + (y - n * p2) * dy = (x * dx + y * dy) - ((n * p1) * dx + (n * p2) * dy)
    OBVIOUS
  <2> QED BY <2>1, <2>2, <2>3
<1> QED BY <1>1, <1>3, <1>4

LEMMA SquaresOrder ==
    ASSUME NEW x \in Int, NEW s \in Int, s >= 0
    PROVE  /\ x * x <= s * s => x <= s
           /\ s * s <= x * x /\ x >= 0 => s <= x
<1>1. ASSUME x > s PROVE x * x > s * s
  <2>1. x * x >= x * s /\ x * s >= s * s /\ x * x > x * s
    BY <1>1
  <2> QED BY <2>1
<1>2. ASSUME x >= 0, x < s PROVE x * x < s * s
  <2>1. x * x <= x * s /\ x * s < s * s
    BY <1>2
  <2> QED BY <2>1
<1> QED BY <1>1, <1>2

LEMMA CentreHolds ==
    ASSUME NEW a \in Int \X Int, NEW b \in Int \X Int, NEW c \in Int \X Int
    PROVE  Pursuit!CentreIsEquidistant(a, b, c)
<1> DEFINE a1 == a[1] a2 == a[2] b1 == b[1] b2 == b[2] c1 == c[1] c2 == c[2]
           na == a1 * a1 + a2 * a2
           nb == b1 * b1 + b2 * b2
           nc == c1 * c1 + c2 * c2
           t1 == na * (b2 - c2) + nb * (c2 - a2) + nc * (a2 - b2)
           t2 == na * (c1 - b1) + nb * (a1 - c1) + nc * (b1 - a1)
           by == 2 * (a1 * (b2 - c2) + b1 * (c2 - a2) + c1 * (a2 - b2))
           turn == (b1 - a1) * (c2 - a2) - (b2 - a2) * (c1 - a1)
           m == Pursuit!Centre(a, b, c)
           from(p) == Pursuit!Norm2(<<p[1] * m.by - m.times[1], p[2] * m.by - m.times[2]>>)
<1>1. a1 \in Int /\ a2 \in Int /\ b1 \in Int /\ b2 \in Int /\ c1 \in Int /\ c2 \in Int
  OBVIOUS
<1>2. m.by = by /\ m.times[1] = t1 /\ m.times[2] = t2
  BY DEF Pursuit!Centre, Pursuit!Norm2
<1>3. \A p : from(p) = (p[1] * by - t1) * (p[1] * by - t1) + (p[2] * by - t2) * (p[2] * by - t2)
  <2> HIDE DEF m, by, t1, t2
  <2> QED BY <1>2 DEF Pursuit!Norm2
<1> HIDE DEF m
<1>4. na \in Int /\ nb \in Int /\ nc \in Int
  <2> HIDE DEF a1, a2, b1, b2, c1, c2
  <2> QED BY <1>1
<1> HIDE DEF a1, a2, b1, b2, c1, c2
<1>5. by = 2 * turn /\ turn = a1 * (b2 - c2) + b1 * (c2 - a2) + c1 * (a2 - b2)
  BY <1>1
<1>6. t1 \in Int /\ t2 \in Int /\ turn \in Int /\ by \in Int
  <2> HIDE DEF na, nb, nc
  <2> QED BY <1>1, <1>4
<1>7. /\ (a1 - b1) * t1 + (a2 - b2) * t2 = turn * (na - nb)
      /\ (b1 - c1) * t1 + (b2 - c2) * t2 = turn * (nb - nc)
  <2> DEFINE u1 == nb * (c2 - a2) + nc * (a2 - b2) + na * (b2 - c2)
             u2 == nb * (a1 - c1) + nc * (b1 - a1) + na * (c1 - b1)
             v == b1 * (c2 - a2) + c1 * (a2 - b2) + a1 * (b2 - c2)
  <2> HIDE DEF na, nb, nc
  <2>1. (a1 - b1) * t1 + (a2 - b2) * t2 = turn * (na - nb)
    <3> HIDE DEF t1, t2, turn
    <3> QED BY <1>1, <1>4, <1>5, <1>6, CentreOfTwo DEF t1, t2
  <2>2. u1 = t1 /\ u2 = t2 /\ v = turn
    BY <1>1, <1>4, <1>5
  <2>3. (b1 - c1) * u1 + (b2 - c2) * u2 = v * (nb - nc)
    BY <1>1, <1>4
  <2> HIDE DEF t1, t2, turn, u1, u2, v
  <2> QED BY <2>1, <2>2, <2>3
<1>8. /\ by * (na - nb) = 2 * ((a1 - b1) * t1 + (a2 - b2) * t2)
      /\ by * (nb - nc) = 2 * ((b1 - c1) * t1 + (b2 - c2) * t2)
  <2>1. by * (na - nb) = 2 * (turn * (na - nb)) /\ by * (nb - nc) = 2 * (turn * (nb - nc))
    <3> HIDE DEF by, turn, na, nb, nc
    <3> QED BY <1>4, <1>5, <1>6
  <2> HIDE DEF by, turn, na, nb, nc, t1, t2
  <2> QED BY <1>7, <2>1
<1>9. from(a) = from(b) /\ from(b) = from(c)
  <2>1. /\ (a1 * by - t1) * (a1 * by - t1) + (a2 * by - t2) * (a2 * by - t2)
             = (b1 * by - t1) * (b1 * by - t1) + (b2 * by - t2) * (b2 * by - t2)
        /\ (b1 * by - t1) * (b1 * by - t1) + (b2 * by - t2) * (b2 * by - t2)
             = (c1 * by - t1) * (c1 * by - t1) + (c2 * by - t2) * (c2 * by - t2)
    <3> HIDE DEF by, t1, t2
    <3> QED BY <1>1, <1>6, <1>8, SquaresDiffer DEF na, nb, nc
  <2> HIDE DEF by, t1, t2, from
  <2> QED BY <1>3, <2>1 DEF a1, a2, b1, b2, c1, c2
<1>10. m.by = 0 <=> turn = 0
  <2> HIDE DEF by, turn
  <2> QED BY <1>2, <1>5, <1>6
<1> HIDE DEF from
<1> QED BY <1>9, <1>10 DEF Pursuit!CentreIsEquidistant, m, from, a1, a2, b1, b2, c1, c2

\* The segment from p to q leaves the circle, s the root of what is left of it.
Leaves(p1, p2, q1, q2, r, s, dx, dy, d, n) ==
    /\ p1 \in Int /\ p2 \in Int /\ q1 \in Int /\ q2 \in Int /\ r \in Nat /\ s \in Nat
    /\ p1 * p1 + p2 * p2 < r * r /\ q1 * q1 + q2 * q2 >= r * r
    /\ dx \in Int /\ dx = q1 - p1 /\ dy \in Int /\ dy = q2 - p2 /\ d \in Int /\ d = p1 * q2 - q1 * p2
    /\ n \in Int /\ n = dx * dx + dy * dy /\ s * s = r * r * n - d * d

LEMMA SegmentMet ==
    ASSUME NEW p1, NEW p2, NEW q1, NEW q2, NEW r, NEW s, NEW dx, NEW dy, NEW d, NEW n,
           Leaves(p1, p2, q1, q2, r, s, dx, dy, d, n)
    PROVE  n >= 0 /\ 0 <= s - (p1 * dx + p2 * dy) /\ s - (p1 * dx + p2 * dy) <= n
<1>0. /\ p1 \in Int /\ p2 \in Int /\ q1 \in Int /\ q2 \in Int /\ r \in Nat /\ s \in Nat
      /\ p1 * p1 + p2 * p2 < r * r /\ q1 * q1 + q2 * q2 >= r * r
      /\ dx \in Int /\ dx = q1 - p1 /\ dy \in Int /\ dy = q2 - p2 /\ d \in Int /\ d = p1 * q2 - q1 * p2
      /\ n \in Int /\ n = dx * dx + dy * dy /\ s * s = r * r * n - d * d
  BY DEF Leaves
<1> USE <1>0
<1> DEFINE m == p1 * dx + p2 * dy
           np == p1 * p1 + p2 * p2
           nq == q1 * q1 + q2 * q2
<1>1. n >= 0
  <2>1. dx * dx >= 0 /\ dy * dy >= 0
    OBVIOUS
  <2> QED BY <2>1
<1>2. m \in Int /\ np \in Int /\ nq \in Int
  OBVIOUS
<1>3. m * m + d * d = np * n
  OBVIOUS
<1>4. (m + n) * (m + n) + d * d = nq * n
  OBVIOUS
<1>5. (m + n) + m = nq - np
  OBVIOUS
<1>6. np < r * r /\ nq >= r * r /\ r * r \in Int
  OBVIOUS
<1>7. np * n <= (r * r) * n /\ (r * r) * n <= nq * n
  <2> HIDE DEF np, nq, m
  <2> DEFINE rr == r * r
  <2>1. rr \in Int /\ np < rr /\ rr <= nq
    BY <1>6
  <2> HIDE DEF rr
  <2>2. np * n <= rr * n /\ rr * n <= nq * n
    BY <1>1, <1>2, <2>1
  <2> QED BY <2>2 DEF rr
<1>8. m * m <= s * s /\ s * s <= (m + n) * (m + n)
  <2> HIDE DEF np, nq, m
  <2>1. s * s + d * d = (r * r) * n
    OBVIOUS
  <2>2. m * m + d * d <= s * s + d * d /\ s * s + d * d <= (m + n) * (m + n) + d * d
    BY <1>3, <1>4, <1>7, <2>1
  <2>3. m * m \in Int /\ d * d \in Int /\ s * s \in Int /\ (m + n) * (m + n) \in Int
    BY <1>2
  <2> QED BY <2>2, <2>3
<1>9. m + n >= 0
  <2>1. np < nq
    BY <1>2, <1>6
  <2> HIDE DEF np, nq, m
  <2> QED BY <1>1, <1>2, <1>5, <2>1
<1>10. m <= s /\ s <= m + n
  <2> HIDE DEF m
  <2>1. m <= s
    BY <1>2, <1>8, SquaresOrder
  <2>2. s <= m + n
    BY <1>2, <1>8, <1>9, SquaresOrder
  <2> QED BY <2>1, <2>2
<1> HIDE DEF m
<1>11. m \in Int /\ n >= 0 /\ 0 <= s - m /\ s - m <= n
  BY <1>1, <1>2, <1>10
<1> QED BY <1>11 DEF m

LEMMA SegmentHolds ==
    ASSUME NEW p \in Int \X Int, NEW q \in Int \X Int, NEW r \in Nat
    PROVE  Pursuit!MeetsOnSegment(p, q, r)
<1> DEFINE p1 == p[1] p2 == p[2] q1 == q[1] q2 == q[2]
           dx == q1 - p1
           dy == q2 - p2
           d == p1 * q2 - q1 * p2
           n == dx * dx + dy * dy
           disc == r * r * n - d * d
           s == Pursuit!Root(disc)
           x == d * dy + dx * s
           y == -d * dx + dy * s
           m == p1 * dx + p2 * dy
           point == Pursuit!circleSegmentIntersection(p, q, r)
           along(z) == (z[1] - point.by * p1) * dx + (z[2] - point.by * p2) * dy
<1>1. p1 \in Int /\ p2 \in Int /\ q1 \in Int /\ q2 \in Int
  OBVIOUS
<1>2. Pursuit!Discriminant(p, q, r) = disc /\ Pursuit!Norm2(p) = p1 * p1 + p2 * p2 /\ Pursuit!Norm2(q) = q1 * q1 + q2 * q2
  BY DEF Pursuit!Discriminant, Pursuit!Norm2
<1> SUFFICES ASSUME Pursuit!Norm2(p) < r * r, Pursuit!Norm2(q) >= r * r, Pursuit!HasRoot(disc)
             PROVE  /\ Pursuit!Norm2(point.times) = r * r * point.by * point.by
                    /\ 0 <= along(point.times) /\ along(point.times) <= point.by * point.by
                    /\ (point.times[1] - point.by * p1) * dy = (point.times[2] - point.by * p2) * dx
  <2> HIDE DEF disc, point
  <2> QED BY <1>2, Zenon DEF Pursuit!MeetsOnSegment, point
<1> HIDE DEF p1, p2, q1, q2
<1>3. dx \in Int /\ dy \in Int /\ d \in Int
  BY <1>1
<1> HIDE DEF dx, dy, d
<1>4. n \in Int
  BY <1>3
<1> HIDE DEF n
<1>5. disc \in Int
  BY <1>3, <1>4
<1>6. s \in Nat /\ s * s = disc
  <2> HIDE DEF disc
  <2>1. \E k \in 0..disc : k * k = disc
    BY DEF Pursuit!HasRoot
  <2>2. s = CHOOSE k \in 0..disc : k * k = disc
    BY DEF Pursuit!Root
  <2>3. s \in 0..disc /\ s * s = disc
    <3> HIDE DEF s
    <3> QED BY <2>1, <2>2
  <2> HIDE DEF s
  <2> QED BY <1>5, <2>3
<1> HIDE DEF s
<1>7. point.times[1] = x /\ point.times[2] = y /\ point.times = <<x, y>> /\ point.by = n
  <2>1. Pursuit!Sign(Pursuit!Norm2(q) - Pursuit!Norm2(p)) = 1
    BY <1>1, <1>2 DEF Pursuit!Sign
  <2>2. Pursuit!Sign(Pursuit!Norm2(q) - Pursuit!Norm2(p)) * Pursuit!Root(Pursuit!Discriminant(p, q, r)) = s
    <3> HIDE DEF disc
    <3> QED BY <1>2, <1>6, <2>1 DEF s
  <2> DEFINE t == Pursuit!Sign(Pursuit!Norm2(q) - Pursuit!Norm2(p)) * Pursuit!Root(Pursuit!Discriminant(p, q, r))
  <2>3. point = [times |-> <<d * dy + dx * t, -d * dx + dy * t>>, by |-> n]
    BY Zenon DEF Pursuit!circleSegmentIntersection, d, dx, dy, n, p1, p2, q1, q2
  <2> HIDE DEF t, point
  <2> QED BY <2>2, <2>3 DEF t
<1> HIDE DEF point
<1>8. x \in Int /\ y \in Int /\ m \in Int
  BY <1>1, <1>3, <1>6
<1>9. /\ x * x + y * y = (d * d + s * s) * n
      /\ (x - n * p1) * dy = (y - n * p2) * dx
      /\ (x - n * p1) * dx + (y - n * p2) * dy = n * (s - m)
  <2> HIDE DEF x, y, m
  <2> QED BY <1>1, <1>3, <1>4, <1>6, <1>8, OnTheLine DEF dx, dy, d, n, x, y, m
<1>10. n >= 0 /\ 0 <= s - m /\ s - m <= n
  <2>1. p1 * p1 + p2 * p2 < r * r /\ q1 * q1 + q2 * q2 >= r * r
    BY <1>2
  <2>2. dx = q1 - p1 /\ dy = q2 - p2 /\ d = p1 * q2 - q1 * p2
    BY DEF dx, dy, d
  <2>3. n = dx * dx + dy * dy
    BY DEF n
  <2>4. s * s = r * r * n - d * d
    BY <1>6
  <2> HIDE DEF disc, m
  <2>5. Leaves(p1, p2, q1, q2, r, s, dx, dy, d, n)
    BY <1>1, <1>3, <1>4, <1>6, <2>1, <2>2, <2>3, <2>4 DEF Leaves
  <2>6. n >= 0 /\ 0 <= s - (p1 * dx + p2 * dy) /\ s - (p1 * dx + p2 * dy) <= n
    BY <2>5, SegmentMet
  <2> QED BY <2>6 DEF m
<1>11. 0 <= n * (s - m) /\ n * (s - m) <= n * n
  <2> HIDE DEF m
  <2> DEFINE e == s - m
  <2>1. e \in Int /\ 0 <= e /\ e <= n
    BY <1>6, <1>8, <1>10
  <2> HIDE DEF e
  <2>2. 0 <= n * e /\ n * e <= n * n
    BY <1>4, <1>10, <2>1
  <2> QED BY <2>2 DEF e
<1>12. (d * d + s * s) * n = r * r * n * n
  <2>1. d * d + s * s = r * r * n
    <3> DEFINE dd == d * d rn == r * r * n ss == s * s
    <3>1. dd \in Int /\ rn \in Int /\ ss = rn - dd
      BY <1>3, <1>4, <1>6
    <3> HIDE DEF dd, rn, ss
    <3>2. dd + ss = rn
      BY <3>1
    <3> QED BY <3>2 DEF dd, rn, ss
  <2> QED BY <2>1
<1>13. Pursuit!Norm2(point.times) = x * x + y * y
  <2> HIDE DEF x, y
  <2> QED BY <1>7 DEF Pursuit!Norm2
<1> HIDE DEF x, y, m
<1> QED BY <1>7, <1>9, <1>11, <1>12, <1>13

\* The distances along a path up to each of its first n points.
SumsOf(g, n, path) ==
    g = [i \in 1..n |-> IF i = 1 THEN 0 ELSE g[i - 1] + Pursuit!Abs(path[i] - path[i - 1])]

LEMMA AbsIs == \A x \in Int : Pursuit!Abs(x) \in Nat /\ (Pursuit!Abs(x) = x \/ Pursuit!Abs(x) = -x)
BY DEF Pursuit!Abs

LEMMA SumsExist ==
    ASSUME NEW n \in Nat, NEW path \in [1..n -> Int]
    PROVE  \E g : SumsOf(g, n, path)
<1> DEFINE S == {m \in 0..n : \E g : SumsOf(g, m, path)}
<1>1. 0 \in S
  <2> DEFINE g == [i \in 1..0 |-> 0]
  <2>1. SumsOf(g, 0, path)
    <3>1. \A h : [i \in 1..0 |-> h[i]] = g
      OBVIOUS
    <3>2. \A i : i \notin 1..0
      OBVIOUS
    <3> QED BY <3>2 DEF SumsOf
  <2> HIDE DEF g
  <2> QED BY <2>1
<1>2. ASSUME NEW m \in 1..n, m - 1 \in S PROVE m \in S
  <2>1. PICK g : SumsOf(g, m - 1, path)
    BY <1>2
  <2> DEFINE next == IF m = 1 THEN 0 ELSE g[m - 1] + Pursuit!Abs(path[m] - path[m - 1])
             h == [i \in 1..m |-> IF i = m THEN next ELSE g[i]]
  <2>2. ASSUME NEW i \in 1..m
        PROVE  h[i] = IF i = 1 THEN 0 ELSE h[i - 1] + Pursuit!Abs(path[i] - path[i - 1])
    <3>1. CASE i = m
      <4>1. h[i] = next /\ (i # 1 => h[i - 1] = g[i - 1])
        <5>1. i # 1 => i - 1 \in 1..m /\ i - 1 # m
          BY <3>1
        <5> HIDE DEF next
        <5> QED BY <3>1, <5>1
      <4> HIDE DEF h
      <4> QED BY <3>1, <4>1
    <3>2. CASE i # m
      <4>1. i \in 1..(m - 1)
        BY <3>2
      <4>2. g[i] = IF i = 1 THEN 0 ELSE g[i - 1] + Pursuit!Abs(path[i] - path[i - 1])
        BY Zenon, <2>1, <4>1 DEF SumsOf
      <4>3. h[i] = g[i] /\ (i # 1 => h[i - 1] = g[i - 1])
        <5>1. i # 1 => i - 1 \in 1..m /\ i - 1 # m
          BY <3>2
        <5> HIDE DEF next
        <5> QED BY <3>2, <5>1
      <4> HIDE DEF h, next
      <4> QED BY <4>2, <4>3
    <3> QED BY <3>1, <3>2
  <2>3. h = [i \in 1..m |-> h[i]]
    OBVIOUS
  <2> HIDE DEF h
  <2>4. SumsOf(h, m, path)
    BY Zenon, <2>2, <2>3 DEF SumsOf
  <2> QED BY <2>4
<1>3. n \in S
  <2> HIDE DEF S
  <2>1. \A i \in 0..n : i \in S
    BY Zenon, <1>1, <1>2, CountsUp
  <2> QED BY <2>1
<1> QED BY <1>3

LEMMA DistancesAre ==
    ASSUME NEW n \in Nat \ {0}, NEW path \in [1..n -> Int], NEW d, d = Pursuit!calculateCumulativeDistances(path)
    PROVE  /\ d \in [1..n -> Nat] /\ d[1] = 0
           /\ \A i \in 2..n : d[i] = d[i - 1] + Pursuit!Abs(path[i] - path[i - 1])
<1> DEFINE g == CHOOSE h : SumsOf(h, n, path)
<1>1. d = g
  <2>1. DOMAIN path = 1..n
    OBVIOUS
  <2>2. d = CHOOSE h : h = [i \in DOMAIN path |-> IF i = 1 THEN 0 ELSE h[i - 1] + Pursuit!Abs(path[i] - path[i - 1])]
    BY DEF Pursuit!calculateCumulativeDistances
  <2> QED BY <2>1, <2>2 DEF SumsOf
<1>2. SumsOf(g, n, path)
  BY SumsExist
<1> HIDE DEF g
<1>3. /\ d = [i \in 1..n |-> d[i]] /\ d[1] = 0
      /\ \A i \in 2..n : d[i] = d[i - 1] + Pursuit!Abs(path[i] - path[i - 1])
  <2>1. SumsOf(d, n, path)
    BY <1>1, <1>2
  <2>2. \A i \in 1..n : d[i] = IF i = 1 THEN 0 ELSE d[i - 1] + Pursuit!Abs(path[i] - path[i - 1])
    BY Zenon, <2>1 DEF SumsOf
  <2>3. d = [i \in 1..n |-> d[i]]
    BY <2>1 DEF SumsOf
  <2>4. 1 \in 1..n /\ \A i \in 2..n : i \in 1..n /\ i # 1
    OBVIOUS
  <2> QED BY Zenon, <2>2, <2>3, <2>4
<1> DEFINE S == {m \in 0..n : m = 0 \/ d[m] \in Nat}
<1>4. 0 \in S
  OBVIOUS
<1>5. ASSUME NEW m \in 1..n, m - 1 \in S PROVE m \in S
  <2>1. CASE m = 1
    BY <1>3, <2>1
  <2>2. CASE m # 1
    <3>1. m \in 2..n /\ m - 1 \in 1..n /\ m - 1 # 0
      BY <2>2
    <3>2. d[m - 1] \in Nat /\ Pursuit!Abs(path[m] - path[m - 1]) \in Nat
      <4>1. path[m] - path[m - 1] \in Int
        BY <3>1
      <4> QED BY <1>5, <3>1, <4>1, AbsIs
    <3>3. d[m] = d[m - 1] + Pursuit!Abs(path[m] - path[m - 1])
      BY Zenon, <1>3, <3>1
    <3>4. d[m] \in Nat
      BY <3>2, <3>3
    <3> QED BY <3>4
  <2> QED BY <2>1, <2>2
<1>6. \A i \in 1..n : d[i] \in Nat
  <2> HIDE DEF S
  <2>1. \A i \in 0..n : i \in S
    BY Zenon, <1>4, <1>5, CountsUp
  <2> QED BY <2>1 DEF S
<1> QED BY Zenon, <1>3, <1>6

\* The point p + (target - dp) * (q - p) / span, times span.
Between(p, q, dp, dq, span, target, times) ==
    /\ p \in Int /\ q \in Int /\ dp \in Int /\ dq \in Int /\ target \in Int
    /\ dq = dp + Pursuit!Abs(q - p) /\ span = dq - dp /\ dp < target /\ target <= dq
    /\ times = p * span + (target - dp) * (q - p)

LEMMA Interpolated ==
    ASSUME NEW p, NEW q, NEW dp, NEW dq, NEW span, NEW target, NEW times,
           Between(p, q, dp, dq, span, target, times)
    PROVE  /\ span > 0 /\ span \in Int /\ times \in Int
           /\ Pursuit!Abs(times - p * span) = (target - dp) * span
           /\ Pursuit!Abs(q * span - times) = (dq - target) * span
<1>0. /\ p \in Int /\ q \in Int /\ dp \in Int /\ dq \in Int /\ target \in Int
      /\ dq = dp + Pursuit!Abs(q - p) /\ span = dq - dp /\ dp < target /\ target <= dq
      /\ times = p * span + (target - dp) * (q - p) /\ span \in Int
  BY DEF Between
<1>8. times \in Int
  BY <1>0
<1> USE <1>0, <1>8
<1>1. span = Pursuit!Abs(q - p) /\ span > 0
  BY AbsIs
<1>2. q - p = span \/ q - p = -span
  BY <1>1, AbsIs
<1> DEFINE e == target - dp
           f == dq - target
<1>3. e \in Nat /\ f \in Nat /\ span = e + f
  OBVIOUS
<1>4. times - p * span = e * (q - p) /\ q * span - times = f * (q - p)
  OBVIOUS
<1> HIDE DEF e, f
<1>5. e * span \in Nat /\ f * span \in Nat
  BY <1>1, <1>3
<1>6. CASE q - p = span
  <2>1. times - p * span = e * span /\ q * span - times = f * span
    BY <1>4, <1>6
  <2>2. Pursuit!Abs(e * span) = e * span /\ Pursuit!Abs(f * span) = f * span
    BY <1>5 DEF Pursuit!Abs
  <2> QED BY <1>1, <2>1, <2>2 DEF e, f
<1>7. CASE q - p = -span
  <2>0. e * (q - p) = -(e * span) /\ f * (q - p) = -(f * span)
    <3>1. e * (q - p) = e * (-span) /\ f * (q - p) = f * (-span)
      BY <1>7
    <3>2. e * (-span) = -(e * span) /\ f * (-span) = -(f * span)
      BY <1>3
    <3> QED BY <3>1, <3>2
  <2>1. times - p * span = -(e * span) /\ q * span - times = -(f * span)
    BY <1>4, <2>0
  <2>2. Pursuit!Abs(-(e * span)) = e * span /\ Pursuit!Abs(-(f * span)) = f * span
    BY <1>5 DEF Pursuit!Abs
  <2> QED BY <1>1, <2>1, <2>2 DEF e, f
<1> QED BY <1>2, <1>6, <1>7

LEMMA PoseHolds ==
    ASSUME NEW n \in Nat \ {0}, NEW path \in [1..n -> Int], NEW target \in Int
    PROVE  Pursuit!PoseIsOnPath(path, target)
<1> DEFINE d == Pursuit!calculateCumulativeDistances(path)
           last == Len(path)
           i == Pursuit!LowerBound(d, target)
           pose == Pursuit!findPoseAtDistance(path, target)
           span == d[i] - d[i - 1]
           times == path[i - 1] * span + (target - d[i - 1]) * (path[i] - path[i - 1])
<1>1. last = n /\ n \in 1..n
  <2>1. path \in Seq(Int) /\ DOMAIN path = 1..n
    BY SeqDef
  <2> QED BY <2>1, LenProperties
<1>2. /\ d \in [1..n -> Nat] /\ d[1] = 0
      /\ \A k \in 2..n : d[k] = d[k - 1] + Pursuit!Abs(path[k] - path[k - 1])
  BY Zenon, DistancesAre
<1> HIDE DEF d
<1>3. pose = IF target <= 0 THEN [times |-> path[1], by |-> 1]
             ELSE IF target >= d[last] THEN [times |-> path[last], by |-> 1]
             ELSE [times |-> times, by |-> span]
  BY Zenon DEF Pursuit!findPoseAtDistance, d
<1> HIDE DEF pose, last
<1>4. CASE target <= 0 \/ target >= d[last]
  <2>1. pose.by = 1
    <3> HIDE DEF times, span
    <3> QED BY <1>3, <1>4
  <2>2. ~(0 < target /\ target < d[last])
    BY <1>1, <1>2, <1>4
  <2>3. pose.by > 0
    BY <2>1
  <2> HIDE DEF times, span
  <2> QED BY <2>2, <2>3, Zenon DEF Pursuit!PoseIsOnPath, pose, d, last
<1>5. CASE ~(target <= 0) /\ ~(target >= d[last])
  <2>1. target > 0 /\ target < d[n]
    BY <1>1, <1>2, <1>5
  <2>2. /\ i \in 1..n /\ d[i] >= target
        /\ \A j \in 1..i - 1 : d[j] < target
    <3> DEFINE T == {k \in 1..n : d[k] >= target}
    <3>1. T \subseteq Nat /\ n \in T
      BY <1>1, <1>2, <2>1
    <3> HIDE DEF T
    <3>2. PICK k \in T : \A j \in T : k <= j
      BY Zenon, <3>1, NatLeast
    <3>3. k \in 1..n /\ d[k] >= target
      BY <3>2 DEF T
    <3>4. \A j \in 1..k - 1 : d[j] < target
      <4> SUFFICES ASSUME NEW j \in 1..k - 1, ~(d[j] < target) PROVE FALSE
        OBVIOUS
      <4>1. j \in 1..n /\ d[j] \in Nat
        BY <1>2, <3>3
      <4>2. j \in T
        BY <4>1 DEF T
      <4> QED BY <3>2, <3>3, <4>2
    <3>5. i = CHOOSE x \in DOMAIN d : d[x] >= target /\ \A j \in 1..x - 1 : d[j] < target
      BY DEF Pursuit!LowerBound
    <3>6. DOMAIN d = 1..n
      BY <1>2
    <3> HIDE DEF i
    <3> QED BY Zenon, <3>3, <3>4, <3>5, <3>6
  <2> HIDE DEF i
  <2>3. i \in 2..n /\ i - 1 \in 1..n /\ i - 1 \in 1..i - 1
    <3>1. i # 1
      BY <1>2, <2>1, <2>2
    <3> QED BY <2>2, <3>1
  <2>4. d[i - 1] < target /\ d[i - 1] \in Nat /\ d[i] \in Nat /\ path[i - 1] \in Int /\ path[i] \in Int
    BY <1>2, <2>2, <2>3
  <2>5. d[i] = d[i - 1] + Pursuit!Abs(path[i] - path[i - 1])
    BY <1>2, <2>3
  <2>7. /\ span > 0
        /\ Pursuit!Abs(times - path[i - 1] * span) = (target - d[i - 1]) * span
        /\ Pursuit!Abs(path[i] * span - times) = (d[i] - target) * span
    <3> DEFINE p == path[i - 1] q == path[i] dp == d[i - 1] dq == d[i]
    <3>1. p \in Int /\ q \in Int /\ dp \in Int /\ dq \in Int /\ dp < target /\ target <= dq
      BY <2>2, <2>4
    <3>2. dq = dp + Pursuit!Abs(q - p) /\ span = dq - dp /\ times = p * span + (target - dp) * (q - p)
      BY <2>5
    <3> HIDE DEF p, q, dp, dq, span, times
    <3>3. Between(p, q, dp, dq, span, target, times)
      BY <3>1, <3>2 DEF Between
    <3>4. /\ span > 0 /\ Pursuit!Abs(times - p * span) = (target - dp) * span
          /\ Pursuit!Abs(q * span - times) = (dq - target) * span
      BY <3>3, Interpolated
    <3> QED BY <3>4 DEF p, q, dp, dq
  <2> HIDE DEF span, times
  <2>8. pose.by = span /\ pose.times = times
    BY <1>3, <1>5
  <2>9. i - 1 \in 1..last - 1 /\ (i - 1) + 1 = i
    BY <1>1, <2>3
  <2>10. \E k \in 1..last - 1 :
             /\ Pursuit!Abs(pose.times - path[k] * pose.by) = (target - d[k]) * pose.by
             /\ Pursuit!Abs(path[k + 1] * pose.by - pose.times) = (d[k + 1] - target) * pose.by
    <3>1. /\ Pursuit!Abs(pose.times - path[i - 1] * pose.by) = (target - d[i - 1]) * pose.by
          /\ Pursuit!Abs(path[(i - 1) + 1] * pose.by - pose.times) = (d[(i - 1) + 1] - target) * pose.by
      BY <2>7, <2>8, <2>9, Zenon
    <3> QED BY Zenon, <2>9, <3>1
  <2>11. pose.by > 0
    BY <2>7, <2>8
  <2> QED BY <2>10, <2>11, Zenon DEF Pursuit!PoseIsOnPath, pose, d, last
<1> QED BY <1>4, <1>5

LEMMA GeometryIsRight == GeometryHolds
<1>1. /\ \A path \in [1 .. 3 -> 0 .. 3], target \in 0 .. 7 : Pursuit!PoseIsOnPath(path, target)
  <2> SUFFICES ASSUME NEW path \in [1 .. 3 -> 0 .. 3], NEW target \in 0 .. 7
               PROVE  Pursuit!PoseIsOnPath(path, target)
    OBVIOUS
  <2>1. path \in [1 .. 3 -> Int] /\ target \in Int /\ 3 \in Nat \ {0}
    OBVIOUS
  <2> QED BY Zenon, <2>1, PoseHolds
<1>2. \A p, q \in (-2 .. 2) \X (-2 .. 2), r \in 1 .. 2 : Pursuit!MeetsOnSegment(p, q, r)
  <2>1. \A p \in (-2 .. 2) \X (-2 .. 2) : p \in Int \X Int
    OBVIOUS
  <2> QED BY <2>1, SegmentHolds
<1>3. \A a, b, c \in (-1 .. 1) \X (-1 .. 1) : Pursuit!CentreIsEquidistant(a, b, c)
  <2>1. \A p \in (-1 .. 1) \X (-1 .. 1) : p \in Int \X Int
    OBVIOUS
  <2> QED BY <2>1, CentreHolds
<1> QED BY <1>1, <1>2, <1>3 DEF GeometryHolds

-----------------------------------------------------------------------------
(* The pursuit controller: plans of any positions.                          *)

LEMMA PartOfPlan ==
    ASSUME NEW p \in Seq(Line), NEW m \in Nat, NEW n \in Nat, m >= 1, n <= Len(p)
    PROVE  /\ SubSeq(p, m, n) \in Seq(Line)
           /\ Len(SubSeq(p, m, n)) = IF m <= n THEN n - m + 1 ELSE 0
           /\ \A i \in 1..(n - m + 1) : SubSeq(p, m, n)[i] = p[m + i - 1]
           /\ SubSeq(p, m, n) = [i \in 1..(n - m + 1) |-> p[m + i - 1]]
<1>1. Len(p) \in Nat /\ p \in [1..Len(p) -> Line]
  BY LenProperties
<1>2. \A i \in 1..(n - m + 1) : m + i - 1 \in 1..Len(p)
  BY <1>1
<1>3. SubSeq(p, m, n) = [i \in 1..(n - m + 1) |-> p[m + i - 1]]
  OBVIOUS
<1>4. [i \in 1..(n - m + 1) |-> p[m + i - 1]] \in [1..(n - m + 1) -> Line]
  BY <1>1, <1>2
<1>5. CASE m <= n
  <2>1. n - m + 1 \in Nat
    BY <1>5
  <2> DEFINE q == [i \in 1..(n - m + 1) |-> p[m + i - 1]]
  <2>2. q \in Seq(Line) /\ Len(q) = n - m + 1
    BY <1>4, <2>1, SeqDef, LenProperties
  <2> QED BY <1>3, <1>5, <2>2
<1>6. CASE ~(m <= n)
  <2>1. 1..(n - m + 1) = 1..0
    BY <1>6
  <2>2. [i \in 1..(n - m + 1) |-> p[m + i - 1]] = <<>>
    BY <2>1
  <2>3. <<>> \in Seq(Line) /\ Len(<<>>) = 0
    OBVIOUS
  <2> QED BY Zenon, <1>3, <1>6, <2>1, <2>2, <2>3
<1> QED BY <1>5, <1>6

\* The end of the end of a plan is an end of the plan.
LEMMA EndOfEnd ==
    ASSUME NEW p \in Seq(Line), NEW k \in 1..Len(p), NEW b \in 1..Len(SubSeq(p, k, Len(p)))
    PROVE  /\ k + b - 1 \in 1..Len(p)
           /\ SubSeq(SubSeq(p, k, Len(p)), b, Len(SubSeq(p, k, Len(p)))) = SubSeq(p, k + b - 1, Len(p))
<1> DEFINE n == Len(p)
           q == SubSeq(p, k, n)
           c == k + b - 1
<1>1. n \in Nat /\ k \in Nat /\ b \in Nat /\ k >= 1 /\ b >= 1 /\ k <= n
  BY LenProperties
<1>2. q \in Seq(Line) /\ Len(q) = n - k + 1 /\ \A i \in 1..(n - k + 1) : q[i] = p[k + i - 1]
  BY <1>1, PartOfPlan
<1>3. c \in 1..n /\ c \in Nat /\ Len(q) - b + 1 = n - c + 1
  BY <1>1, <1>2
<1> HIDE DEF q, n
<1>4. SubSeq(q, b, Len(q)) = [i \in 1..(Len(q) - b + 1) |-> q[b + i - 1]]
  BY <1>1, <1>2, <1>3, PartOfPlan DEF n
<1>5. SubSeq(p, c, n) = [i \in 1..(n - c + 1) |-> p[c + i - 1]]
  BY <1>1, <1>3, PartOfPlan DEF n
<1>6. ASSUME NEW i \in 1..(n - c + 1) PROVE q[b + i - 1] = p[c + i - 1]
  <2>1. b + i - 1 \in 1..(n - k + 1) /\ k + (b + i - 1) - 1 = c + i - 1
    BY <1>1, <1>3
  <2> HIDE DEF c
  <2> QED BY Zenon, <1>2, <2>1
<1>7. SubSeq(q, b, Len(q)) = SubSeq(p, c, n)
  <2> HIDE DEF c
  <2> QED BY Zenon, <1>3, <1>4, <1>5, <1>6
<1> QED BY <1>3, <1>7 DEF q, n

LEMMA LeastIs ==
    ASSUME NEW T, T \subseteq Nat, T # {}
    PROVE  Pursuit!Min(T) \in T /\ \A y \in T : Pursuit!Min(T) <= y
BY Zenon, NatLeast DEF Pursuit!Min

\* There is a closest pose among those searched.
LEMMA BeginIs ==
    ASSUME NEW p \in Seq(Line), p # <<>>, NEW robot \in Line
    PROVE  /\ Pursuit!Begin(p, robot) \in 1..Len(p)
           /\ Pursuit!Begin(p, robot) \in Pursuit!Searched(p)
<1> DEFINE n == Len(p)
           S == Pursuit!Searched(p)
           dist(i) == Pursuit!Dist(robot, p[i])
           T == {i \in S : \A j \in S : dist(i) <= dist(j)}
<1>1. n \in Nat \ {0} /\ DOMAIN p = 1..n /\ \A i \in 1..n : p[i] \in Line
  BY LenProperties, EmptySeq
<1>2. S \subseteq 1..n /\ 1 \in S
  BY <1>1 DEF Pursuit!Searched
<1>3. \A i \in S : dist(i) \in Nat
  <2>1. \A x, y \in Int : Pursuit!Dist(x, y) \in Nat
    BY DEF Pursuit!Dist
  <2>2. Line \subseteq Int
    BY PursuitAssumption
  <2> HIDE DEF S
  <2> QED BY Zenon, <1>1, <1>2, <2>1, <2>2
<1> HIDE DEF S, dist
<1>4. T # {}
  <2> DEFINE D == {dist(i) : i \in S}
  <2>1. D \subseteq Nat /\ D # {}
    BY <1>2, <1>3
  <2>2. PICK x \in D : \A y \in D : x <= y
    <3> HIDE DEF D
    <3> QED BY Zenon, <2>1, NatLeast
  <2>3. PICK i \in S : x = dist(i)
    BY <2>2
  <2>4. \A j \in S : dist(i) <= dist(j)
    BY <2>2, <2>3
  <2> QED BY <2>3, <2>4
<1>5. T \subseteq Nat /\ T \subseteq 1..n
  <2>1. T \subseteq S
    OBVIOUS
  <2>2. 1..n \subseteq Nat
    BY <1>1
  <2> HIDE DEF T, n
  <2> QED BY <1>2, <2>1, <2>2
<1>6. Pursuit!Begin(p, robot) = Pursuit!Min(T)
  BY DEF Pursuit!Begin, S, dist
<1>7. T \subseteq S
  OBVIOUS
<1> HIDE DEF T
<1>8. Pursuit!Begin(p, robot) \in T
  BY Zenon, <1>4, <1>5, <1>6, LeastIs
<1> QED BY <1>5, <1>7, <1>8 DEF n, S

\* What is looked at is inside the costmap.
LEMMA TransformedIs ==
    ASSUME NEW p \in Seq(Line), p # <<>>, NEW robot \in Line
    PROVE  /\ Pursuit!Transformed(p, robot) \in Seq(Line)
           /\ \A i \in 1..Len(Pursuit!Transformed(p, robot)) : Pursuit!InCostmap(Pursuit!Transformed(p, robot)[i], robot)
<1> DEFINE b == Pursuit!Begin(p, robot)
           tail == SubSeq(p, b, Len(p))
           far == {i \in DOMAIN tail : Pursuit!Dist(tail[i], robot) > Extent}
           end == IF far = {} THEN Len(tail) ELSE Pursuit!Min(far) - 1
           path == SubSeq(tail, 1, end)
<1>1. b \in 1..Len(p) /\ Len(p) \in Nat
  BY BeginIs, LenProperties
<1>2. tail \in Seq(Line)
  <2> HIDE DEF b
  <2> QED BY <1>1, PartOfPlan
<1> HIDE DEF tail
<1>3. Len(tail) \in Nat /\ DOMAIN tail = 1..Len(tail) /\ \A i \in 1..Len(tail) : tail[i] \in Line
  BY <1>2, LenProperties
<1>4. /\ end \in 0..Len(tail)
      /\ \A i \in 1..end : i \in 1..Len(tail) /\ i \notin far
  <2>1. far \subseteq 1..Len(tail)
    BY <1>3
  <2>2. CASE far = {}
    BY <1>3, <2>2
  <2>3. CASE far # {}
    <3> HIDE DEF far
    <3>1. far \subseteq Nat
      BY <2>1
    <3>2. Pursuit!Min(far) \in far /\ \A y \in far : Pursuit!Min(far) <= y
      BY Zenon, <2>3, <3>1, LeastIs
    <3>3. end = Pursuit!Min(far) - 1
      BY <2>3
    <3> HIDE DEF end
    <3> DEFINE m == Pursuit!Min(far)
    <3>4. m \in 1..Len(tail) /\ end = m - 1 /\ \A y \in far : m <= y
      BY Zenon, <2>1, <3>2, <3>3
    <3> HIDE DEF m
    <3>5. end \in 0..Len(tail) /\ \A i \in 1..end : i \in 1..Len(tail) /\ ~(m <= i)
      BY <1>3, <3>4
    <3> QED BY <3>4, <3>5
  <2> QED BY <2>2, <2>3
<1> HIDE DEF end, far
<1>5. /\ path \in Seq(Line) /\ Len(path) = end
      /\ \A i \in 1..end : path[i] = tail[i]
  <2>1. end \in Nat /\ end <= Len(tail) /\ 1 \in Nat /\ end - 1 + 1 = end
    BY <1>3, <1>4
  <2>2. /\ SubSeq(tail, 1, end) \in Seq(Line)
        /\ Len(SubSeq(tail, 1, end)) = IF 1 <= end THEN end - 1 + 1 ELSE 0
        /\ \A i \in 1..(end - 1 + 1) : SubSeq(tail, 1, end)[i] = tail[1 + i - 1]
    BY <1>2, <2>1, PartOfPlan
  <2>3. \A i \in 1..end : 1 + i - 1 = i
    BY <2>1
  <2> QED BY <2>1, <2>2, <2>3
<1>6. Pursuit!Transformed(p, robot) = path
  BY Zenon DEF Pursuit!Transformed, path, end, far, tail, b
<1> HIDE DEF path
<1>7. ASSUME NEW i \in 1..end PROVE Pursuit!InCostmap(path[i], robot)
  <2>1. ~(Pursuit!Dist(tail[i], robot) > Extent)
    BY <1>3, <1>4 DEF far
  <2>2. Pursuit!Dist(tail[i], robot) \in Int /\ Extent \in Int
    <3>1. tail[i] \in Int /\ robot \in Int
      BY Zenon, <1>3, <1>4, PursuitAssumption
    <3> QED BY <3>1, PursuitAssumption DEF Pursuit!Dist
  <2>3. Pursuit!Dist(tail[i], robot) <= Extent
    BY <2>1, <2>2
  <2> QED BY <1>5, <2>3 DEF Pursuit!InCostmap
<1> QED BY <1>5, <1>6, <1>7

\* When there are no more poses than samples, every pose is one.
LEMMA EveryPoseSampled ==
    ASSUME NEW n \in Nat \ {0}, n <= sample_points, NEW j \in 0..n - 1
    PROVE  \E i \in DOMAIN Pursuit!Samples(n) : Pursuit!Samples(n)[i] = 1 + j
<1> DEFINE N == sample_points
           i == (j * N + n - 1) \div n
           a == j * N + n - 1
<1>1. N \in Nat \ {0} /\ j \in Nat /\ j * N \in Nat /\ a \in Nat
  BY PursuitAssumption
<1>2. \A x \in Nat, y \in Nat \ {0} : x \div y \in Nat /\ y * (x \div y) <= x /\ x < y * (x \div y) + y
  OBVIOUS
<1>3. i \in Nat /\ n * i <= a /\ a < n * i + n
  <2> HIDE DEF a
  <2>1. i = a \div n
    BY DEF a
  <2> HIDE DEF i
  <2> QED BY <1>1, <1>2, <2>1
<1> HIDE DEF i
<1>4. j * N <= n * i /\ n * i < j * N + N
  <2> DEFINE x == j * N
             y == n * i
  <2>1. x \in Nat /\ y \in Nat /\ y <= x + n - 1 /\ x + n - 1 < y + n
    BY <1>1, <1>3
  <2> HIDE DEF x, y
  <2>2. x <= y /\ y < x + N
    BY <1>1, <2>1
  <2> QED BY <2>2 DEF x, y
<1>5. (i * n) \div N = j
  <2> DEFINE y == i * n
             k == y \div N
  <2>1. y \in Nat /\ N * j <= y /\ y < N * j + N
    <3>1. y = n * i /\ N * j = j * N
      BY <1>1, <1>3
    <3> QED BY <1>1, <1>3, <1>4, <3>1
  <2> HIDE DEF y
  <2>2. k \in Nat /\ N * k <= y /\ y < N * k + N
    BY <1>1, <1>2, <2>1
  <2> HIDE DEF k
  <2>3. k = j
    <3>1. CASE k < j
      <4>1. N * (k + 1) <= N * j
        BY <1>1, <2>2, <3>1
      <4>2. N * (k + 1) = N * k + N
        BY <1>1, <2>2
      <4> QED BY <1>1, <2>1, <2>2, <4>1, <4>2
    <3>2. CASE j < k
      <4>1. N * (j + 1) <= N * k
        BY <1>1, <2>2, <3>2
      <4>2. N * (j + 1) = N * j + N
        BY <1>1
      <4> QED BY <1>1, <2>1, <2>2, <4>1, <4>2
    <3> QED BY <1>1, <2>2, <3>1, <3>2
  <2> QED BY <2>3 DEF k, y
<1>6. i \in 0..N - 1
  <2> SUFFICES ASSUME i >= N PROVE FALSE
    BY <1>1, <1>3
  <2>1. n * N <= n * i
    BY <1>1, <1>3
  <2>2. j * N <= (n - 1) * N
    BY <1>1
  <2>3. (n - 1) * N = n * N - N /\ n * N \in Nat
    BY <1>1
  <2>4. n * i < j * N + N
    BY <1>4
  <2> DEFINE x == n * N y == n * i z == j * N w == (n - 1) * N
  <2>5. x \in Int /\ y \in Int /\ z \in Int /\ w \in Int
    BY <1>1, <1>3
  <2>6. x <= y /\ z <= w /\ w = x - N /\ y < z + N
    BY <2>1, <2>2, <2>3, <2>4
  <2> HIDE DEF x, y, z, w
  <2> QED BY <1>1, <2>5, <2>6
<1>7. Pursuit!Least((i * n) \div N, n - 1) = j
  BY <1>5 DEF Pursuit!Least
<1> HIDE DEF N
<1>8. Pursuit!Samples(n) = [k \in 0..N - 1 |-> 1 + Pursuit!Least((k * n) \div N, n - 1)]
  BY DEF Pursuit!Samples, N
<1> QED BY <1>6, <1>7, <1>8

\* The plan kept is the end of the plan set; what a command was given for was
\* looked at with the obstacles there are.
PursuitInv ==
    /\ plan_set \in Seq(Line) /\ global_plan_ \in Seq(Line)
    /\ plan_set = <<>> => global_plan_ = <<>>
    /\ plan_set # <<>> => \E k \in 1..Len(plan_set) : global_plan_ = SubSeq(plan_set, k, Len(plan_set))
    /\ looked \in Seq(Line)
    /\ Pursuit!StopsForObstacles

LEMMA PursuitStarts == Pursuit!Init => PursuitInv
<1> SUFFICES ASSUME Pursuit!Init PROVE PursuitInv
  OBVIOUS
<1>1. plan_set = <<>> /\ global_plan_ = <<>> /\ looked = <<>>
  BY DEF Pursuit!Init
<1>2. cmd_vel = {}
  BY DEF Pursuit!Init
<1>3. <<>> \in Seq(Line)
  OBVIOUS
<1>4. Pursuit!StopsForObstacles
  BY <1>2 DEF Pursuit!StopsForObstacles
<1> QED BY <1>1, <1>3, <1>4 DEF PursuitInv

LEMMA WholePlan ==
    ASSUME NEW p \in Seq(Line), p # <<>>
    PROVE  \E k \in 1..Len(p) : p = SubSeq(p, k, Len(p))
<1>1. Len(p) \in Nat /\ Len(p) # 0 /\ 1 \in 1..Len(p)
  BY LenProperties, EmptySeq
<1>2. p = [i \in 1..Len(p) |-> p[i]]
  BY LenProperties
<1>3. SubSeq(p, 1, Len(p)) = [i \in 1..(Len(p) - 1 + 1) |-> p[1 + i - 1]]
  BY <1>1, PartOfPlan
<1>4. Len(p) - 1 + 1 = Len(p) /\ \A i \in 1..Len(p) : 1 + i - 1 = i
  BY <1>1
<1>5. p = SubSeq(p, 1, Len(p))
  BY <1>2, <1>3, <1>4
<1> QED BY <1>1, <1>5

LEMMA PursuitSets == ASSUME PursuitInv, Pursuit!setPlan PROVE PursuitInv'
<1>1. PICK fresh \in Plans : global_plan_' = fresh /\ plan_set' = fresh
  BY DEF Pursuit!setPlan
<1>2. fresh \in Seq(Line)
  BY PursuitAssumption
<1>3. UNCHANGED <<lethal, looked, blind, cmd_vel>>
  BY DEF Pursuit!setPlan
<1>4. Pursuit!StopsForObstacles'
  BY <1>3 DEF PursuitInv, Pursuit!StopsForObstacles
<1>5. looked' \in Seq(Line)
  BY <1>3 DEF PursuitInv
<1> QED BY <1>1, <1>2, <1>4, <1>5, WholePlan DEF PursuitInv

LEMMA PursuitComputes == ASSUME PursuitInv, Pursuit!computeVelocityCommands PROVE PursuitInv'
<1> DEFINE looks(robot) ==
               LET path == Pursuit!Transformed(global_plan_, robot)
               IN  /\ global_plan_' = SubSeq(global_plan_, Pursuit!Begin(global_plan_, robot), Len(global_plan_))
                   /\ looked' = path
                   /\ IF path = <<>> THEN Pursuit!NoCommand
                      ELSE \E based \in 1..Len(path) + 1 : Pursuit!Follow(path, based, robot)
<1>1. \/ looked' = <<>> /\ cmd_vel' = {} /\ UNCHANGED global_plan_
      \/ global_plan_ # <<>> /\ \E robot \in Line : looks(robot)
  BY Zenon DEF Pursuit!computeVelocityCommands, Pursuit!NoCommand
<1>2. UNCHANGED <<plan_set, lethal>>
  BY Zenon DEF Pursuit!computeVelocityCommands
<1>3. CASE looked' = <<>> /\ cmd_vel' = {} /\ UNCHANGED global_plan_
  <2>1. cmd_vel' = {} /\ looked' = <<>> /\ UNCHANGED global_plan_
    BY <1>3
  <2>2. Pursuit!StopsForObstacles'
    BY <2>1 DEF Pursuit!StopsForObstacles
  <2>3. <<>> \in Seq(Line)
    OBVIOUS
  <2> QED BY <1>2, <2>1, <2>2, <2>3 DEF PursuitInv
<1>4. ASSUME global_plan_ # <<>>, NEW robot \in Line, looks(robot) PROVE PursuitInv'
  <2> DEFINE b == Pursuit!Begin(global_plan_, robot)
             path == Pursuit!Transformed(global_plan_, robot)
  <2>1. /\ global_plan_' = SubSeq(global_plan_, b, Len(global_plan_)) /\ looked' = path
        /\ \/ cmd_vel' = {}
           \/ blind'
           \/ ~Pursuit!isCollisionDetected(Pursuit!Checked(path, 1, 0), robot)
    <3>1. ASSUME NEW based \in 1..Len(path) + 1, Pursuit!Follow(path, based, robot)
          PROVE  cmd_vel' = {} \/ blind' \/ ~Pursuit!isCollisionDetected(Pursuit!Checked(path, 1, 0), robot)
      <4> HIDE DEF path
      <4>1. \E found : /\ blind' = (Pursuit!Local(path, based, robot) # path \/ found # Pursuit!Checked(path, 1, 0))
                       /\ cmd_vel' = {} \/ ~Pursuit!isCollisionDetected(found, robot)
        BY Zenon, <3>1 DEF Pursuit!Follow
      <4> QED BY Zenon, <4>1
    <3>2. Pursuit!NoCommand => cmd_vel' = {}
      BY Zenon DEF Pursuit!NoCommand
    <3> QED BY Zenon, <1>4, <3>1, <3>2
  <2> HIDE DEF looks
  <2>2. global_plan_ \in Seq(Line) /\ global_plan_ # <<>> /\ plan_set \in Seq(Line)
    BY <1>4 DEF PursuitInv
  <2>3. b \in 1..Len(global_plan_)
    BY <2>2, BeginIs
  <2>4. path \in Seq(Line) /\ \A i \in 1..Len(path) : Pursuit!InCostmap(path[i], robot)
    BY <2>2, TransformedIs
  <2> HIDE DEF b, path
  <2>5. global_plan_' \in Seq(Line)
    <3>1. Len(global_plan_) \in Nat /\ b \in Nat /\ b >= 1
      BY <2>2, <2>3, LenProperties
    <3> QED BY <2>1, <2>2, <3>1, PartOfPlan
  <2>6. plan_set # <<>> /\ \E k \in 1..Len(plan_set) : global_plan_' = SubSeq(plan_set, k, Len(plan_set))
    <3>1. plan_set # <<>>
      BY <2>2 DEF PursuitInv
    <3>2. PICK k \in 1..Len(plan_set) : global_plan_ = SubSeq(plan_set, k, Len(plan_set))
      BY <3>1 DEF PursuitInv
    <3>3. /\ k + b - 1 \in 1..Len(plan_set)
          /\ SubSeq(SubSeq(plan_set, k, Len(plan_set)), b, Len(SubSeq(plan_set, k, Len(plan_set))))
             = SubSeq(plan_set, k + b - 1, Len(plan_set))
      BY <2>2, <2>3, <3>2, EndOfEnd
    <3> QED BY Zenon, <2>1, <3>1, <3>2, <3>3
  <2>7. Pursuit!StopsForObstacles'
    <3> SUFFICES ASSUME cmd_vel' # {}, ~blind', Len(path) <= sample_points, NEW i \in DOMAIN path
                 PROVE  path[i] \notin lethal
      BY <1>2, <2>1 DEF Pursuit!StopsForObstacles
    <3> DEFINE n == Len(path)
               picks == Pursuit!Samples(n)
               found == Pursuit!Checked(path, 1, 0)
    <3>1. n \in Nat \ {0} /\ i \in 1..n /\ i - 1 \in 0..n - 1 /\ 1 + (i - 1) = i
      BY <2>4, LenProperties
    <3>2. PICK at \in DOMAIN picks : picks[at] = i
      BY <3>1, EveryPoseSampled
    <3>3. DOMAIN picks = 0..sample_points - 1 /\ \A k \in DOMAIN picks : picks[k] \in 1..n
      <4>1. \A x \in 0..sample_points - 1 : (x * n) \div sample_points \in Nat
        <5>1. \A x \in Nat, y \in Nat \ {0} : x \div y \in Nat
          OBVIOUS
        <5>2. ASSUME NEW x \in 0..sample_points - 1 PROVE x * n \in Nat
          BY <3>1, PursuitAssumption
        <5> HIDE DEF n
        <5> QED BY <5>1, <5>2, PursuitAssumption
      <4>2. \A q \in Nat : 1 + Pursuit!Least(q, n - 1) \in 1..n
        BY <3>1 DEF Pursuit!Least
      <4> HIDE DEF n
      <4>3. picks = [k \in 0..sample_points - 1 |-> 1 + Pursuit!Least((k * n) \div sample_points, n - 1)]
        BY DEF Pursuit!Samples
      <4> HIDE DEF picks
      <4> QED BY <4>1, <4>2, <4>3
    <3>4. DOMAIN found = DOMAIN picks /\ \A k \in DOMAIN picks : found[k] = path[picks[k]]
      <4>1. found = [k \in DOMAIN picks |-> IF picks[k] < 1 \/ k < 0 THEN Origin ELSE path[picks[k]]]
        BY Zenon DEF Pursuit!Checked
      <4> HIDE DEF picks, found
      <4>2. \A k \in DOMAIN picks : ~(picks[k] < 1 \/ k < 0)
        BY <3>1, <3>3, PursuitAssumption
      <4> QED BY Zenon, <4>1, <4>2
    <3> HIDE DEF picks, n
    <3>5. \A k \in DOMAIN found : Pursuit!InCostmap(found[k], robot)
      BY Zenon, <2>4, <3>3, <3>4 DEF n
    <3>6. ~Pursuit!isCollisionDetected(found, robot)
      BY <2>1
    <3> HIDE DEF found
    <3>7. found[at] \notin lethal
      BY Zenon, <3>2, <3>4, <3>5, <3>6 DEF Pursuit!isCollisionDetected
    <3> QED BY <3>2, <3>4, <3>7
  <2>8. looked' \in Seq(Line)
    BY <2>1, <2>4
  <2> QED BY <1>2, <2>2, <2>5, <2>6, <2>7, <2>8 DEF PursuitInv
<1> HIDE DEF looks
<1> QED BY <1>1, <1>3, <1>4

LEMMA PursuitKept == Spec => []PursuitInv
<1>1. Init => PursuitInv
  BY PursuitSteps, PursuitStarts
<1>2. PursuitInv /\ [Next]_vars => PursuitInv'
  <2> SUFFICES ASSUME PursuitInv, [Pursuit!Next]_PursuitVars PROVE PursuitInv'
    BY PursuitSteps
  <2>1. CASE Pursuit!setPlan
    BY <2>1, PursuitSets
  <2>2. CASE Pursuit!computeVelocityCommands
    BY <2>2, PursuitComputes
  <2>3. CASE ~Pursuit!setPlan /\ ~Pursuit!computeVelocityCommands
    <3>1. UNCHANGED <<plan_set, global_plan_, looked>> /\ (cmd_vel' = {} \/ UNCHANGED <<cmd_vel, blind, lethal>>)
      BY <2>3 DEF PursuitVars, Pursuit!Next, Pursuit!activate, Pursuit!deactivate,
         Pursuit!dynamicParametersCallback, Pursuit!Obstacles
    <3>2. Pursuit!StopsForObstacles'
      BY <3>1 DEF PursuitInv, Pursuit!StopsForObstacles
    <3> QED BY <3>1, <3>2 DEF PursuitInv
  <2> QED BY <2>1, <2>2, <2>3
<1> QED BY <1>1, <1>2, PTL DEF Spec

\* Whatever plans, obstacles and limits the controller is given: the plan it prunes
\* keeps its goal, and no command moves the robot along a plan with an occupied
\* pose when every pose of it is a sample and looked up where it is.
THEOREM PursuitIsSound == Spec => []PursuitSound
<1>1. PursuitInv => PursuitSound
  <2> SUFFICES ASSUME PursuitInv PROVE Pursuit!KeepsGoal /\ Pursuit!StopsForObstacles /\ GeometryHolds
    BY DEF PursuitSound
  <2>1. ASSUME plan_set # <<>>
        PROVE  global_plan_ # <<>> /\ \E k \in DOMAIN plan_set : global_plan_ = SubSeq(plan_set, k, Len(plan_set))
    <3>1. plan_set \in Seq(Line) /\ DOMAIN plan_set = 1..Len(plan_set) /\ Len(plan_set) \in Nat
      BY LenProperties DEF PursuitInv
    <3>2. PICK k \in 1..Len(plan_set) : global_plan_ = SubSeq(plan_set, k, Len(plan_set))
      BY <2>1 DEF PursuitInv
    <3>3. Len(global_plan_) = Len(plan_set) - k + 1
      BY <3>1, <3>2, PartOfPlan
    <3>4. Len(global_plan_) # 0
      BY <3>1, <3>3
    <3>5. global_plan_ # <<>>
      BY <3>4, EmptySeq
    <3> QED BY Zenon, <3>1, <3>2, <3>5
  <2> QED BY <2>1, GeometryIsRight DEF PursuitInv, Pursuit!KeepsGoal
<1> QED BY <1>1, PursuitKept, PTL

-----------------------------------------------------------------------------
(* What a step may not do: an action property holds of every step of Nodes  *)
(* when it holds of the steps of its module and of those in which that      *)
(* stands.                                                                  *)

\* A computation prunes up to a pose that it searched.
LEMMA PursuitPrunes == ASSUME PursuitInv, [Pursuit!Next]_PursuitVars PROVE Pursuit!PrunesNearby
<1> SUFFICES ASSUME plan_set' = plan_set, Len(global_plan_') < Len(global_plan_)
             PROVE  Pursuit!Length(global_plan_, 1 + Len(global_plan_) - Len(global_plan_')) <= SearchDist
  BY DEF Pursuit!PrunesNearby
<1>1. global_plan_ \in Seq(Line) /\ Len(global_plan_) \in Nat /\ plan_set \in Seq(Line)
  BY LenProperties DEF PursuitInv
<1>2. CASE Pursuit!computeVelocityCommands
  <2>1. ~UNCHANGED global_plan_
    BY <1>1
  <2>2. PICK robot \in Line :
          /\ global_plan_ # <<>>
          /\ global_plan_' = SubSeq(global_plan_, Pursuit!Begin(global_plan_, robot), Len(global_plan_))
    BY Zenon, <1>2, <2>1 DEF Pursuit!computeVelocityCommands
  <2> DEFINE b == Pursuit!Begin(global_plan_, robot)
  <2>3. b \in 1..Len(global_plan_) /\ b \in Pursuit!Searched(global_plan_)
    BY <1>1, <2>2, BeginIs
  <2>4. global_plan_' = SubSeq(global_plan_, b, Len(global_plan_))
    BY <2>2
  <2>5. b = 1 \/ Pursuit!Length(global_plan_, b) <= SearchDist
    BY <2>3 DEF Pursuit!Searched
  <2> HIDE DEF b
  <2>6. Len(global_plan_') = Len(global_plan_) - b + 1
    <3>1. b \in Nat /\ b >= 1
      BY <1>1, <2>3
    <3> QED BY <1>1, <2>3, <2>4, <3>1, PartOfPlan
  <2>7. b # 1 /\ 1 + Len(global_plan_) - Len(global_plan_') = b
    BY <1>1, <2>3, <2>6
  <2> QED BY <2>5, <2>7
<1>3. CASE Pursuit!setPlan
  <2>1. global_plan_' = plan_set
    BY <1>3 DEF Pursuit!setPlan
  <2>2. Len(global_plan_) <= Len(plan_set)
    <3>1. CASE plan_set = <<>>
      BY <1>1, <3>1 DEF PursuitInv
    <3>2. CASE plan_set # <<>>
      <4>1. PICK k \in 1..Len(plan_set) : global_plan_ = SubSeq(plan_set, k, Len(plan_set))
        BY <3>2 DEF PursuitInv
      <4>2. Len(plan_set) \in Nat /\ k \in Nat /\ k >= 1
        BY <1>1, LenProperties
      <4>3. Len(global_plan_) = Len(plan_set) - k + 1
        BY <1>1, <4>1, <4>2, PartOfPlan
      <4> QED BY <4>2, <4>3
    <3> QED BY <3>1, <3>2
  <2>3. Len(plan_set) \in Nat
    BY <1>1, LenProperties
  <2> QED BY <1>1, <2>1, <2>2, <2>3
<1>4. CASE ~Pursuit!setPlan /\ ~Pursuit!computeVelocityCommands
  <2>1. UNCHANGED global_plan_
    BY <1>4 DEF PursuitVars, Pursuit!Next, Pursuit!activate, Pursuit!deactivate,
       Pursuit!dynamicParametersCallback, Pursuit!Obstacles
  <2> QED BY <1>1, <2>1
<1> QED BY <1>2, <1>3, <1>4

\* Once rviz has ended, the processes that end take others with them and no step
\* starts one.
LEMMA ShutdownStays == ASSUME [Files!Next]_FilesVars PROVE Files!ShutdownFinal
<1>1. CASE Files!StartProcesses \/ Files!LoadComponents \/ Files!Respawn
  BY <1>1 DEF Files!StartProcesses, Files!LoadComponents, Files!Respawn, Files!ShutdownFinal
<1>2. CASE Files!Exit
  BY <1>2 DEF Files!Exit, Files!ShutdownFinal
<1>3. CASE UNCHANGED FilesVars
  BY <1>3 DEF FilesVars, Files!ShutdownFinal
<1> QED BY <1>1, <1>2, <1>3 DEF Files!Next

\* Of every step of every node: stamps increase, a new stamp carries the newest
\* pose, the frame turns with a command, the robot is set going safely, goals keep
\* their distance, only poses near the robot are pruned, a shutdown is final and a
\* request to clear the terrain is served.
THEOREM StepsDoHeed == Spec => StepsHeed
<1>1. Spec => [][Tf!RepublishedIncrease /\ Relocal!FreshScanCarriesPose]_vars
  BY StampsDoAdvance
<1>2. Spec => [][FakeVel!FrameTurnsWithCommand]_FakeVelVars
  BY FrameTurnsOnlyWithCommand
<1>3. UNCHANGED FakeVelVars => FakeVel!FrameTurnsWithCommand
  BY DEF FakeVelVars, FakeVel!FrameTurnsWithCommand
<1>4. Spec => [][BackUp!StartsSafely]_BackUpVars
  BY StartsOnlySafely
<1>5. UNCHANGED BackUpVars => BackUp!StartsSafely
  BY Zenon DEF BackUpVars, BackUp!StartsSafely
<1>6. Spec => [][Teleop!GoalsSpaced]_TeleopVars
  BY GoalsKeepDistance
<1>7. UNCHANGED TeleopVars => Teleop!GoalsSpaced
  BY DEF TeleopVars, Teleop!GoalsSpaced
<1>8. PursuitInv /\ [Next]_vars => Pursuit!PrunesNearby
  BY PursuitPrunes, PursuitSteps
<1>9. [Next]_vars => Files!ShutdownFinal
  BY ShutdownStays, FilesSteps
<1>10. [Next]_vars => Terrain!ClearingClears
  BY TerrainClears, TerrainSteps
<1> QED BY <1>1, <1>2, <1>3, <1>4, <1>5, <1>6, <1>7, <1>8, <1>9, <1>10, PursuitKept, PTL DEF Spec, StepsHeed
=============================================================================
