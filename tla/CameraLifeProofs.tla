------------------------ MODULE CameraLifeProofs ------------------------
(***************************************************************************)
(* Proofs that the rows of CameraLife tell the truth, and that what runs   *)
(* is what they say, for any number of cameras, jobs, segments, restarts   *)
(* and outages: the rows' for any number of callers, what runs for one     *)
(* caller at a time, as it does not hold for two.                          *)
(***************************************************************************)
EXTENDS CameraLife, FiniteSetTheorems, WellFoundedInduction, TLAPS

-----------------------------------------------------------------------------
(* Sequences.                                                              *)

(* Counting up from 1 reaches everything. *)
LEMMA CountingUp ==
    ASSUME NEW n \in Nat, NEW S, 1 \in S, \A m \in 2 .. n : m - 1 \in S => m \in S
    PROVE  1 .. n \subseteq S
<1> DEFINE Rest == (1 .. n) \ S
<1> SUFFICES ASSUME Rest # {} PROVE FALSE
  OBVIOUS
<1>1. \E x \in Rest : \A y \in Rest : ~ (<<y, x>> \in OpToRel(<, Nat))
  <2>1. Rest \subseteq Nat
    OBVIOUS
  <2> HIDE DEF Rest
  <2> QED
    BY <2>1, NatLessThanWellFounded, WFMin
<1>2. \A x, y \in Nat : y < x => <<y, x>> \in OpToRel(<, Nat)
  BY DEF OpToRel
<1>3. PICK x \in Rest : \A y \in Rest : ~ (y < x)
  <2>1. Rest \subseteq Nat
    OBVIOUS
  <2> HIDE DEF Rest
  <2> QED
    BY <1>1, <1>2, <2>1
<1>4. x \in 1 .. n /\ x \notin S /\ x # 1
  BY <1>3
<1>5. x \in 2 .. n /\ x - 1 < x /\ x - 1 \in 1 .. n
  BY <1>4
<1> QED
  BY <1>3, <1>4, <1>5

(* How sequences are put together. *)
LEMMA FlattenSteps ==
    ASSUME NEW T, NEW ss \in Seq(Seq(T)), ss # <<>>
    PROVE  \E f : /\ FlattenSeq(ss) = f[Len(ss)] /\ f[1] = ss[1]
                  /\ \A i \in 2 .. Len(ss) : f[i] = f[i - 1] \o ss[i]
<1> DEFINE n == Len(ss)
           Obeys(g, m) == g[1] = ss[1] /\ \A i \in 2 .. m : g[i] = g[i - 1] \o ss[i]
           Built == {m \in 1 .. n : \E g \in [1 .. m -> Seq(T)] : Obeys(g, m)}
<1>1. n \in Nat /\ n # 0 /\ \A i \in 1 .. n : ss[i] \in Seq(T)
  OBVIOUS
<1>2. 1 \in Built
  <2> DEFINE g == [i \in 1 .. 1 |-> ss[1]]
  <2>1. g \in [1 .. 1 -> Seq(T)] /\ Obeys(g, 1) /\ 1 \in 1 .. n
    BY <1>1
  <2> HIDE DEF g, Obeys
  <2> QED
    BY <2>1
<1>3. ASSUME NEW m \in 2 .. n, m - 1 \in Built PROVE m \in Built
  <2>1. PICK g \in [1 .. m - 1 -> Seq(T)] : Obeys(g, m - 1)
    BY <1>3
  <2>2. m \in 1 .. n /\ m - 1 \in 1 .. m - 1 /\ 1 \in 1 .. m - 1 /\ 1 .. m - 1 \subseteq 1 .. m
        /\ m \notin 1 .. m - 1 /\ m \in 1 .. m /\ \A i \in 1 .. m : i # m => i \in 1 .. m - 1
    BY <1>1
  <2>3. g[m - 1] \o ss[m] \in Seq(T)
    BY <1>1, <2>1, <2>2
  <2> DEFINE h == [i \in 1 .. m |-> IF i = m THEN g[m - 1] \o ss[m] ELSE g[i]]
  <2>4. h \in [1 .. m -> Seq(T)]
    BY <2>2, <2>3
  <2>5. h[m] = g[m - 1] \o ss[m] /\ \A i \in 1 .. m - 1 : h[i] = g[i]
    BY <2>2
  <2>6. Obeys(h, m)
    <3> HIDE DEF h
    <3>1. h[1] = ss[1]
      BY <2>1, <2>2, <2>5
    <3>2. ASSUME NEW i \in 2 .. m PROVE h[i] = h[i - 1] \o ss[i]
      <4>1. CASE i = m
        BY <2>2, <2>5, <4>1
      <4>2. CASE i # m
        <5>1. i \in 2 .. m - 1 /\ i \in 1 .. m - 1 /\ i - 1 \in 1 .. m - 1
          BY <2>2, <4>2
        <5>2. g[i] = g[i - 1] \o ss[i]
          BY <2>1, <5>1
        <5> QED
          BY <2>5, <5>1, <5>2
      <4> QED
        BY <4>1, <4>2
    <3> QED
      BY <3>1, <3>2
  <2> HIDE DEF h, Obeys
  <2> QED
    BY <2>2, <2>4, <2>6
<1>4. n \in Built
  <2>1. n \in 1 .. n
    BY <1>1
  <2> HIDE DEF Built
  <2> QED
    BY <1>1, <1>2, <1>3, <2>1, CountingUp
<1>5. PICK g \in [1 .. n -> Seq(T)] : Obeys(g, n)
  BY <1>4
<1> HIDE DEF Built
<1> DEFINE Flat(f) == [i \in 1 .. n |-> IF i = 1 THEN ss[i] ELSE f[i - 1] \o ss[i]]
<1>6. g = Flat(g)
  <2>1. ASSUME NEW i \in 1 .. n PROVE g[i] = IF i = 1 THEN ss[i] ELSE g[i - 1] \o ss[i]
    <3>1. CASE i = 1
      BY <1>5, <3>1
    <3>2. CASE i # 1
      <4>1. i \in 2 .. n
        BY <1>1, <3>2
      <4> QED
        BY <1>5, <3>2, <4>1
    <3> QED
      BY <3>1, <3>2
  <2> QED
    BY <2>1
<1> DEFINE f == CHOOSE f : f = Flat(f)
<1>7. f = Flat(f)
  BY <1>6
<1>8. FlattenSeq(ss) = f[n]
  BY DEF FlattenSeq
<1>9. f[1] = ss[1] /\ \A i \in 2 .. n : f[i] = f[i - 1] \o ss[i]
  <2> HIDE DEF f
  <2>1. \A i \in 1 .. n : f[i] = IF i = 1 THEN ss[i] ELSE f[i - 1] \o ss[i]
    BY <1>7
  <2>2. 1 \in 1 .. n /\ \A i \in 2 .. n : i \in 1 .. n /\ i # 1
    BY <1>1
  <2> QED
    BY <2>1, <2>2
<1> HIDE DEF f, Flat
<1> QED
  BY <1>8, <1>9

(* What is put together of sequences is a sequence, ... *)
LEMMA FlattenIsSeq ==
    ASSUME NEW T, NEW ss \in Seq(Seq(T))
    PROVE  FlattenSeq(ss) \in Seq(T)
<1> DEFINE n == Len(ss)
<1>1. n \in Nat /\ \A i \in 1 .. n : ss[i] \in Seq(T)
  OBVIOUS
<1> SUFFICES ASSUME n # 0 PROVE FlattenSeq(ss) \in Seq(T)
  <2>1. CASE n = 0
    BY <2>1 DEF FlattenSeq
  <2> QED
    BY <2>1
<1>2. PICK f : /\ FlattenSeq(ss) = f[n] /\ f[1] = ss[1]
               /\ \A i \in 2 .. n : f[i] = f[i - 1] \o ss[i]
  <2>1. ss # <<>>
    BY <1>1
  <2> QED
    BY <2>1, FlattenSteps
<1> DEFINE Typed == {m \in 1 .. n : f[m] \in Seq(T)}
<1>3. 1 \in Typed
  BY <1>1, <1>2
<1>4. ASSUME NEW m \in 2 .. n, m - 1 \in Typed PROVE m \in Typed
  <2>1. m \in 1 .. n
    BY <1>1
  <2>2. f[m] = f[m - 1] \o ss[m] /\ f[m - 1] \in Seq(T) /\ ss[m] \in Seq(T)
    BY <1>1, <1>2, <1>4, <2>1
  <2>3. f[m] \in Seq(T)
    BY <2>2
  <2> QED
    BY <2>1, <2>3
<1>5. n \in Typed
  <2>1. n \in 1 .. n
    BY <1>1
  <2> HIDE DEF Typed
  <2> QED
    BY <1>1, <1>3, <1>4, <2>1, CountingUp
<1> QED
  BY <1>2, <1>5

(* ... and has all that they have. *)
LEMMA FlattenHas ==
    ASSUME NEW T, NEW ss \in Seq(Seq(T)), NEW i \in DOMAIN ss, NEW k \in DOMAIN ss[i]
    PROVE  \E m \in DOMAIN FlattenSeq(ss) : FlattenSeq(ss)[m] = ss[i][k]
<1> DEFINE n == Len(ss)
           x == ss[i][k]
           Has(s) == \E m \in DOMAIN s : s[m] = x
<1>1. /\ n \in Nat /\ \A m \in 1 .. n : ss[m] \in Seq(T)
      /\ i \in 1 .. n /\ ss # <<>>
  OBVIOUS
<1>2. PICK f : /\ FlattenSeq(ss) = f[n] /\ f[1] = ss[1]
               /\ \A m \in 2 .. n : f[m] = f[m - 1] \o ss[m]
  BY <1>1, FlattenSteps
<1>3. ASSUME NEW p \in Seq(T), NEW q \in Seq(T)
      PROVE  /\ p \o q \in Seq(T)
             /\ Has(p) \/ Has(q) => Has(p \o q)
  <2> DEFINE c == p \o q
  <2>1. /\ c \in Seq(T) /\ DOMAIN c = 1 .. Len(p) + Len(q)
        /\ \A m \in 1 .. Len(p) + Len(q) : c[m] = IF m <= Len(p) THEN p[m] ELSE q[m - Len(p)]
        /\ DOMAIN p = 1 .. Len(p) /\ DOMAIN q = 1 .. Len(q) /\ Len(p) \in Nat /\ Len(q) \in Nat
    OBVIOUS
  <2> HIDE DEF c, x
  <2>2. \A m \in DOMAIN p : m \in DOMAIN c /\ c[m] = p[m]
    BY <2>1
  <2>3. ASSUME NEW m \in DOMAIN q PROVE Len(p) + m \in DOMAIN c /\ c[Len(p) + m] = q[m]
    <3>1. Len(p) + m \in 1 .. Len(p) + Len(q) /\ ~(Len(p) + m <= Len(p))
          /\ (Len(p) + m) - Len(p) = m
      BY <2>1
    <3> QED
      BY <2>1, <3>1
  <2>4. Has(p) => Has(c)
    BY <2>2
  <2>5. Has(q) => Has(c)
    BY <2>3
  <2> QED
    BY <2>1, <2>4, <2>5 DEF c
<1>4. ASSUME NEW p \in Seq(T), NEW q \in Seq(T), Has(p) \/ Has(q)
      PROVE  Has(p \o q)
  BY <1>3, <1>4
<1>5. Has(ss[i])
  OBVIOUS
<1> HIDE DEF Has, x
<1> DEFINE Right == {m \in 1 .. n : f[m] \in Seq(T) /\ (m >= i => Has(f[m]))}
<1>6. 1 \in Right
  <2>1. 1 \in 1 .. n /\ (1 >= i => i = 1)
    BY <1>1
  <2> QED
    BY <1>1, <1>2, <1>5, <2>1
<1>7. ASSUME NEW m \in 2 .. n, m - 1 \in Right PROVE m \in Right
  <2>1. m \in 1 .. n /\ (m >= i => m = i \/ m - 1 >= i)
    BY <1>1
  <2>2. f[m] = f[m - 1] \o ss[m] /\ f[m - 1] \in Seq(T) /\ ss[m] \in Seq(T)
        /\ (m - 1 >= i => Has(f[m - 1]))
    BY <1>1, <1>2, <1>7, <2>1
  <2>3. f[m] \in Seq(T)
    BY <2>2
  <2>4. m >= i => Has(f[m - 1]) \/ Has(ss[m])
    BY <1>5, <2>1, <2>2
  <2>5. m >= i => Has(f[m - 1] \o ss[m])
    BY <1>4, <2>2, <2>4
  <2> QED
    BY <2>1, <2>2, <2>3, <2>5
<1>8. n \in Right
  <2>1. n \in 1 .. n
    BY <1>1
  <2> HIDE DEF Right
  <2> QED
    BY <1>1, <1>6, <1>7, <2>1, CountingUp
<1>9. n >= i
  BY <1>1
<1> QED
  BY <1>2, <1>8, <1>9 DEF Has, x

LEMMA SetToSeqIs ==
    ASSUME NEW S, IsFiniteSet(S)
    PROVE  /\ SetToSeq(S) \in Seq(S)
           /\ \A x \in S : \E i \in DOMAIN SetToSeq(S) : SetToSeq(S)[i] = x
<1> DEFINE n == Cardinality(S)
<1>1. n \in Nat /\ ExistsBijection(1 .. n, S)
  BY FS_CardinalityType
<1>2. PICK b \in [1 .. n -> S] : IsInjective(b)
  <2>1. PICK b : b \in Bijection(1 .. n, S)
    BY <1>1 DEF ExistsBijection
  <2> QED
    BY <2>1 DEF Bijection, Injection, Surjection, IsInjective
<1> DEFINE q == SetToSeq(S)
<1>3. q \in [1 .. n -> S] /\ IsInjective(q)
  BY <1>2 DEF SetToSeq
<1> HIDE DEF q
<1>4. q \in Injection(1 .. n, S)
  BY <1>3 DEF Injection, IsInjective
<1>5. IsFiniteSet(1 .. n) /\ Cardinality(1 .. n) = n
  BY <1>1, FS_Interval
<1>6. q \in Surjection(1 .. n, S)
  BY <1>4, <1>5, FS_Injection
<1>7. q \in Seq(S) /\ DOMAIN q = 1 .. n
  BY <1>1, <1>3
<1> QED
  BY <1>6, <1>7 DEF Surjection, q

\* What Then leaves of a thread's steps.
LEMMA Prepending ==
    ASSUME NEW T, NEW s \in Seq(T), s # <<>>, NEW p \in Seq(T), NEW q, q = p \o Tail(s)
    PROVE  /\ q \in Seq(T) /\ Len(q) = Len(p) + Len(s) - 1
           /\ \A i \in DOMAIN q : \/ i \in DOMAIN p /\ q[i] = p[i]
                                  \/ i - Len(p) + 1 \in 2 .. Len(s) /\ q[i] = s[i - Len(p) + 1]
           /\ \A i \in DOMAIN p : i \in DOMAIN q /\ q[i] = p[i]
           /\ \A i \in 2 .. Len(s) : i - 1 + Len(p) \in DOMAIN q /\ q[i - 1 + Len(p)] = s[i]
<1>1. /\ Tail(s) \in Seq(T) /\ Len(s) \in Nat /\ Len(p) \in Nat /\ Len(s) > 0
      /\ Len(Tail(s)) = Len(s) - 1 /\ \A i \in 1 .. Len(s) - 1 : Tail(s)[i] = s[i + 1]
      /\ DOMAIN p = 1 .. Len(p)
  OBVIOUS
<1>2. /\ q \in Seq(T) /\ Len(q) = Len(p) + Len(s) - 1 /\ DOMAIN q = 1 .. Len(q)
      /\ \A i \in 1 .. Len(q) : q[i] = IF i <= Len(p) THEN p[i] ELSE Tail(s)[i - Len(p)]
  BY <1>1
<1>3. ASSUME NEW i \in 1 .. Len(q), i > Len(p)
      PROVE  i - Len(p) + 1 \in 2 .. Len(s) /\ q[i] = s[i - Len(p) + 1]
  BY <1>1, <1>2, <1>3
<1>4. ASSUME NEW i \in 2 .. Len(s)
      PROVE  i - 1 + Len(p) \in DOMAIN q /\ q[i - 1 + Len(p)] = s[i]
  <2>1. i - 1 + Len(p) \in 1 .. Len(q) /\ i - 1 + Len(p) > Len(p)
    BY <1>1, <1>2
  <2>2. (i - 1 + Len(p)) - Len(p) = i - 1 /\ i - 1 \in 1 .. Len(s) - 1 /\ (i - 1) + 1 = i
    BY <1>1
  <2> QED
    BY <1>1, <1>2, <2>1, <2>2
<1> QED
  BY <1>1, <1>2, <1>3, <1>4

-----------------------------------------------------------------------------
(* The inductive invariant.                                                *)

\* What threads have to do: the fields of each kind of step.
CameraSteps == {"deleteCamera", "requireCamera", "stopStream", "motionOff",
                "cleanupStream", "removeCamera"}
BootSteps   == {"stageDone", "listOrphans", "listCameras", "listJobs"}
Step ==
    UNION { [do : {"createCamera", "startStream", "tellMotion"}, camera : Cameras, row : Row],
            [do : {"putCamera"}, camera : Cameras, motion : BOOLEAN],
            [do : CameraSteps, camera : Cameras],
            [do : {"getCamera"}, camera : Cameras, start : BOOLEAN],
            [do : {"writeJob"}, job : Jobs, new : BOOLEAN, row : JobRow],
            [do : {"setJobEnabled"}, job : Jobs, enabled : BOOLEAN],
            [do : {"deleteJob"}, job : Jobs],
            [do : {"fetchCamera"}, job : Jobs, row : JobRow],
            [do : {"removeJob"}, job : Jobs, camera : Cameras],
            [do : {"applyJob"}, job : Jobs, camera : Cameras, row : Row, enabled : BOOLEAN],
            [do : {"finalize"}, segment : Segments],
            [do : BootSteps] }

StepsAreTyped == todo \in [Threads -> Seq(Step)]

\* The steps of one stage of the start-up thread, and the last of each.
Belongs(name, n) ==
    \/ name = "stageDone"
    \/ n = 1 /\ name \in {"listOrphans", "finalize"}
    \/ n = 2 /\ name \in {"listCameras", "startStream", "tellMotion"}
    \/ n = 3 /\ name \in {"listJobs", "fetchCamera", "applyJob"}
BootKeepsToItsStage ==
    /\ todo[Boot] # <<>> => stage < Done
    /\ \A i \in DOMAIN todo[Boot] :
          /\ Belongs(todo[Boot][i].do, stage)
          /\ todo[Boot][i].do = "stageDone" => i = Len(todo[Boot])

\* Before the rows have been gone over nobody calls and nothing runs.
NothingRunsYet ==
    /\ stage = 1 \/ life = "down" =>
          /\ \A t \in Callers : todo[t] = <<>>
          /\ \A c \in Cameras : session[c] = None /\ writing[c] = 0
    /\ life = "down" => todo[Boot] = <<>>

\* Whose row a thread is about to insert, and whose stream it is about to start.
CamerasOf(t, name) ==
    {c \in Cameras : \E i \in DOMAIN todo[t] : todo[t][i].do = name /\ todo[t][i].camera = c}
Creates(t) == CamerasOf(t, "createCamera")
Starts(t)  == CamerasOf(t, "startStream")

\* A camera whose row is not there yet has left no trace.
Unmade(c) == c \notin used \/ \E t \in Threads : c \in Creates(t)
Traceless(c) ==
    /\ camera[c] = None /\ session[c] = None /\ writing[c] = 0
    /\ \A s \in Segments : media[s] # None => media[s].camera # c
    /\ \A t \in Threads : c \notin Starts(t)
CamerasAreMadeOnce ==
    /\ \A t \in Threads : Creates(t) \subseteq used /\ (Creates(t) # {} => Len(todo[t]) = 1)
    /\ \A t, u \in Threads : t # u => Creates(t) \cap Creates(u) = {}
    /\ \A c \in Cameras : Unmade(c) => Traceless(c)

ThreadsAreInOrder ==
    StepsAreTyped /\ BootKeepsToItsStage /\ NothingRunsYet /\ CamerasAreMadeOnce

\* While orphans are settled, each has yet to be found or to be finalized.
IsRecording(s) == segment[s] # None /\ segment[s].status = "recording"
OrphansAreAhead ==
    stage = 1 /\ todo[Boot] # <<>> => \A s \in Segments : IsRecording(s) =>
        \E i \in DOMAIN todo[Boot] :
           \/ todo[Boot][i].do = "listOrphans"
           \/ todo[Boot][i].do = "finalize" /\ todo[Boot][i].segment = s

\* Rows and files.
FilesAreInOrder ==
    /\ \E n \in 0 .. MaxSegments : \A s \in Segments : media[s] # None <=> s <= n
    /\ \A s \in Segments : segment[s] # None =>
          media[s] # None /\ segment[s].camera = media[s].camera
RecordingIsOfThisRun ==
    stage > 1 => \A s \in Segments : IsRecording(s) => segment[s].run = runs
CompleteIsMeasured ==
    \A s \in Segments : segment[s] # None /\ segment[s].status = "complete" =>
        segment[s].ms = media[s].ms
WritesWhatIsOpen(c, s) ==
    /\ media[s] # None /\ media[s].camera = c
    /\ segment[s] # None => IsRecording(s)
    /\ media[s].listed /\ camera[c] # None => segment[s] # None
WritingIsOpen == \A c \in Cameras : writing[c] # 0 => WritesWhatIsOpen(c, writing[c])
FootageIsInOrder ==
    /\ FilesAreInOrder /\ RecordingIsOfThisRun /\ CompleteIsMeasured /\ WritingIsOpen
    /\ FootageIsKept

Typed ==
    /\ camera \in [Cameras -> Row \cup {None}] /\ job \in [Jobs -> JobRow \cup {None}]
    /\ segment \in [Segments -> Segment \cup {None}] /\ media \in [Segments -> File \cup {None}]
    /\ session \in [Cameras -> Session \cup {None}] /\ writing \in [Cameras -> 0..MaxSegments]
    /\ used \subseteq Cameras \cup Jobs /\ dbUp \in BOOLEAN /\ unsure \subseteq Jobs
    /\ runs \in Nat /\ stage \in 1..Done /\ life \in {"up", "closing", "aiStopped", "down"}

IInv == Typed /\ ThreadsAreInOrder /\ OrphansAreAhead /\ FootageIsInOrder

LEMMA InvariantTellsTheTruth == IInv => RowsTellTheTruth
<1> SUFFICES ASSUME IInv PROVE RowsTellTheTruth
  OBVIOUS
<1> USE DEF IInv, Typed, FootageIsInOrder
<1>1. TypeOK
  BY DEF TypeOK, FilesAreInOrder, WritingIsOpen, WritesWhatIsOpen
<1>2. OrphansAreSettled
  <2> SUFFICES ASSUME stage > 1, NEW s \in Segments, segment[s] # None
               PROVE  IF segment[s].status = "recording" THEN segment[s].run = runs
                      ELSE segment[s].ms = media[s].ms
    BY DEF OrphansAreSettled
  <2>1. segment[s].status \in {"recording", "complete"}
    BY DEF Segment
  <2> QED
    BY <2>1 DEF RecordingIsOfThisRun, CompleteIsMeasured, IsRecording
<1> QED
  BY <1>1, <1>2 DEF RowsTellTheTruth

-----------------------------------------------------------------------------
(* Steps.                                                                  *)

LEMMA StepHas ==
    ASSUME NEW x \in Step
    PROVE  /\ x.do \in {"createCamera", "startStream", "tellMotion"} =>
                  x.camera \in Cameras /\ x.row \in Row
           /\ x.do = "putCamera" => x.camera \in Cameras /\ x.motion \in BOOLEAN
           /\ x.do \in CameraSteps => x.camera \in Cameras
           /\ x.do = "getCamera" => x.camera \in Cameras /\ x.start \in BOOLEAN
           /\ x.do = "writeJob" => x.job \in Jobs /\ x.row \in JobRow
           /\ x.do = "setJobEnabled" => x.job \in Jobs /\ x.enabled \in BOOLEAN
           /\ x.do = "deleteJob" => x.job \in Jobs
           /\ x.do = "fetchCamera" => x.job \in Jobs /\ x.row \in JobRow
           /\ x.do = "removeJob" => x.job \in Jobs /\ x.camera \in Cameras
           /\ x.do = "applyJob" => x.job \in Jobs /\ x.camera \in Cameras
                                   /\ x.row \in Row /\ x.enabled \in BOOLEAN
           /\ x.do = "finalize" => x.segment \in Segments
  BY DEF Step, CameraSteps, BootSteps

LEMMA StepsThereAre ==
    /\ \A c \in Cameras, r \in Row :
          /\ [do |-> "createCamera", camera |-> c, row |-> r] \in Step
          /\ [do |-> "startStream", camera |-> c, row |-> r] \in Step
          /\ [do |-> "tellMotion", camera |-> c, row |-> r] \in Step
    /\ \A c \in Cameras, b \in BOOLEAN :
          /\ [do |-> "putCamera", camera |-> c, motion |-> b] \in Step
          /\ [do |-> "getCamera", camera |-> c, start |-> b] \in Step
    /\ \A c \in Cameras, name \in CameraSteps : [do |-> name, camera |-> c] \in Step
    /\ \A j \in Jobs, r \in JobRow, b \in BOOLEAN :
          /\ [do |-> "writeJob", job |-> j, new |-> b, row |-> r] \in Step
          /\ [do |-> "fetchCamera", job |-> j, row |-> r] \in Step
    /\ \A j \in Jobs, b \in BOOLEAN : [do |-> "setJobEnabled", job |-> j, enabled |-> b] \in Step
    /\ \A j \in Jobs : [do |-> "deleteJob", job |-> j] \in Step
    /\ \A j \in Jobs, c \in Cameras : [do |-> "removeJob", job |-> j, camera |-> c] \in Step
    /\ \A j \in Jobs, c \in Cameras, r \in Row, b \in BOOLEAN :
          [do |-> "applyJob", job |-> j, camera |-> c, row |-> r, enabled |-> b] \in Step
    /\ \A s \in Segments : [do |-> "finalize", segment |-> s] \in Step
    /\ \A name \in BootSteps : [do |-> name] \in Step
  BY DEF Step

-----------------------------------------------------------------------------
(* Threads.                                                                *)

\* What may be put before the rest of a thread's steps by a step of its own.
FollowsUp(t) ==
    {x \in Step : /\ x.do \notin {"createCamera", "stageDone"}
                  /\ t = Boot => Belongs(x.do, stage)
                  /\ x.do = "startStream" => camera'[x.camera] # None}
StepIsTaken(t) ==
    /\ todo[t] # <<>>
    /\ Ends(t) \/ \E steps \in Seq(FollowsUp(t)) : Then(t, steps)

\* The thread that moves has fewer steps, or such that follow up.
LEMMA WhatIsLeft ==
    ASSUME ThreadsAreInOrder, NEW t \in Threads, StepIsTaken(t)
    PROVE  /\ StepsAreTyped' /\ \A u \in Threads : u # t => todo'[u] = todo[u]
           /\ \A i \in DOMAIN todo'[t] :
                 \/ todo'[t][i] \in FollowsUp(t)
                 \/ \E k \in DOMAIN todo[t] :
                       /\ todo'[t][i] = todo[t][k]
                       /\ k = Len(todo[t]) => i = Len(todo'[t])
                       /\ Len(todo[t]) # 1
<1>1. todo \in [Threads -> Seq(Step)] /\ todo[t] \in Seq(Step) /\ todo[t] # <<>>
  BY DEF ThreadsAreInOrder, StepsAreTyped, StepIsTaken
<1>2. CASE Ends(t)
  <2>1. todo' = [todo EXCEPT ![t] = <<>>]
    BY <1>2 DEF Ends
  <2>2. todo'[t] = <<>>
    BY <1>1, <2>1
  <2> QED
    BY <1>1, <2>1, <2>2 DEF StepsAreTyped
<1>3. CASE \E steps \in Seq(FollowsUp(t)) : Then(t, steps)
  <2>1. PICK steps \in Seq(FollowsUp(t)) : Then(t, steps)
    BY <1>3
  <2>2. FollowsUp(t) \subseteq Step
    BY DEF FollowsUp
  <2>3. /\ steps \in Seq(Step) /\ Len(steps) \in Nat
        /\ \A i \in DOMAIN steps : steps[i] \in FollowsUp(t)
    <3> HIDE DEF FollowsUp
    <3> QED
      BY <2>1, <2>2
  <2> DEFINE q == steps \o Tail(todo[t])
             s == todo[t]
  <2>4. todo' = [todo EXCEPT ![t] = q]
    BY <2>1 DEF Then
  <2> HIDE DEF q
  <2>5. /\ q \in Seq(Step) /\ Len(q) = Len(steps) + Len(s) - 1
        /\ \A i \in DOMAIN q :
              \/ i \in DOMAIN steps /\ q[i] = steps[i]
              \/ i - Len(steps) + 1 \in 2 .. Len(s) /\ q[i] = s[i - Len(steps) + 1]
    BY <1>1, <2>3, Prepending DEF q
  <2>6. todo'[t] = q /\ StepsAreTyped' /\ \A u \in Threads : u # t => todo'[u] = todo[u]
    BY <1>1, <2>4, <2>5 DEF StepsAreTyped
  <2>7. ASSUME NEW i \in DOMAIN q
        PROVE  \/ q[i] \in FollowsUp(t)
               \/ \E k \in DOMAIN s : q[i] = s[k] /\ (k = Len(s) => i = Len(q)) /\ Len(s) # 1
    <3>1. CASE i \in DOMAIN steps /\ q[i] = steps[i]
      BY <2>3, <3>1
    <3>2. CASE i - Len(steps) + 1 \in 2 .. Len(s) /\ q[i] = s[i - Len(steps) + 1]
      <4> DEFINE k == i - Len(steps) + 1
      <4>1. i \in Nat /\ Len(s) \in Nat /\ DOMAIN s = 1 .. Len(s)
        BY <1>1, <2>5
      <4>2. k \in DOMAIN s /\ (k = Len(s) => i = Len(q)) /\ Len(s) # 1
        BY <2>3, <2>5, <3>2, <4>1
      <4> HIDE DEF k
      <4>3. q[i] = s[k]
        BY <3>2 DEF k
      <4> QED
        BY <4>2, <4>3
    <3> QED
      BY <2>5, <2>7, <3>1, <3>2
  <2> HIDE DEF FollowsUp
  <2> QED
    BY <2>6, <2>7
<1> QED
  BY <1>2, <1>3 DEF StepIsTaken

\* A step of a thread keeps the threads in order if it makes no camera appear
\* but the one it was to create, and starts no stream but the one it was to.
LEMMA ThreadsStayInOrder ==
    ASSUME ThreadAssumption, Typed, ThreadsAreInOrder, NEW t \in Threads, StepIsTaken(t),
           UNCHANGED <<stage, life, used, media>>,
           \A c \in Cameras : camera[c] = None /\ c \notin Creates(t) => camera'[c] = None,
           \A c \in Cameras : session[c] = None /\ c \notin Starts(t) => session'[c] = None,
           \A c \in Cameras : writing[c] = 0 => writing'[c] = 0
    PROVE  ThreadsAreInOrder'
<1>1. /\ StepsAreTyped' /\ \A u \in Threads : u # t => todo'[u] = todo[u]
      /\ \A i \in DOMAIN todo'[t] :
            \/ todo'[t][i] \in FollowsUp(t)
            \/ \E k \in DOMAIN todo[t] : /\ todo'[t][i] = todo[t][k]
                                         /\ k = Len(todo[t]) => i = Len(todo'[t])
                                         /\ Len(todo[t]) # 1
  BY WhatIsLeft
<1>2. todo[t] # <<>> /\ Boot \in Threads /\ Boot \notin Callers /\ Callers \subseteq Threads
      /\ \A u \in Threads : u # Boot => u \in Callers
  BY ThreadAssumption DEF StepIsTaken, Threads
<1>3. BootKeepsToItsStage'
  <2>1. CASE t # Boot
    BY <1>1, <1>2, <2>1 DEF ThreadsAreInOrder, BootKeepsToItsStage
  <2>2. CASE t = Boot
    <3>1. stage' < Done
      BY <1>2, <2>2 DEF ThreadsAreInOrder, BootKeepsToItsStage
    <3>2. ASSUME NEW i \in DOMAIN todo'[t]
          PROVE  /\ Belongs(todo'[t][i].do, stage')
                 /\ todo'[t][i].do = "stageDone" => i = Len(todo'[t])
      <4>1. CASE todo'[t][i] \in FollowsUp(t)
        BY <2>2, <4>1 DEF FollowsUp
      <4>2. CASE \E k \in DOMAIN todo[t] : /\ todo'[t][i] = todo[t][k]
                                           /\ k = Len(todo[t]) => i = Len(todo'[t])
        BY <2>2, <4>2 DEF ThreadsAreInOrder, BootKeepsToItsStage
      <4> QED
        BY <1>1, <4>1, <4>2
    <3> QED
      BY <2>2, <3>1, <3>2 DEF BootKeepsToItsStage
  <2> QED
    BY <2>1, <2>2
<1>4. NothingRunsYet'
  <2>1. ASSUME stage = 1 \/ life = "down"
        PROVE  t = Boot /\ stage = 1 /\ life # "down"
    BY <1>2, <2>1 DEF ThreadsAreInOrder, NothingRunsYet
  <2>2. ASSUME stage = 1, t = Boot, NEW c \in Cameras
        PROVE  c \notin Starts(t)
    BY <2>2 DEF ThreadsAreInOrder, BootKeepsToItsStage, Belongs, Starts, CamerasOf
  <2> QED
    BY <1>1, <1>2, <2>1, <2>2 DEF ThreadsAreInOrder, NothingRunsYet
<1>5. Creates(t)' = {} /\ \A u \in Threads : u # t => Creates(u)' = Creates(u)
  <2>1. ASSUME NEW i \in DOMAIN todo'[t], todo'[t][i].do = "createCamera",
               todo'[t][i].camera \in Cameras
        PROVE  FALSE
    <3>1. PICK k \in DOMAIN todo[t] : todo'[t][i] = todo[t][k] /\ Len(todo[t]) # 1
      BY <1>1, <2>1 DEF FollowsUp
    <3>2. todo[t][k].camera \in Creates(t)
      BY <2>1, <3>1 DEF Creates, CamerasOf
    <3> QED
      BY <3>1, <3>2 DEF ThreadsAreInOrder, CamerasAreMadeOnce
  <2>2. Creates(t)' = {}
    BY <2>1 DEF Creates, CamerasOf
  <2> QED
    BY <1>1, <2>2 DEF Creates, CamerasOf
<1>6. /\ \A u \in Threads : u # t => Starts(u)' = Starts(u)
      /\ \A c \in Starts(t)' : c \in Starts(t) \/ camera'[c] # None
  <2>1. ASSUME NEW c \in Starts(t)' PROVE c \in Starts(t) \/ camera'[c] # None
    <3>1. PICK i \in DOMAIN todo'[t] : todo'[t][i].do = "startStream" /\ todo'[t][i].camera = c
      BY DEF Starts, CamerasOf
    <3>2. c \in Cameras
      BY DEF Starts, CamerasOf
    <3> QED
      BY <1>1, <3>1, <3>2 DEF FollowsUp, Starts, CamerasOf
  <2> QED
    BY <1>1, <2>1 DEF Starts, CamerasOf
<1>7. CamerasAreMadeOnce'
  <2>1. ASSUME NEW c \in Cameras, Unmade(c)' PROVE Traceless(c)'
    <3>1. Unmade(c) /\ c \notin Creates(t)
      BY <1>5, <2>1 DEF Unmade, ThreadsAreInOrder, CamerasAreMadeOnce
    <3>2. Traceless(c)
      BY <3>1 DEF ThreadsAreInOrder, CamerasAreMadeOnce
    <3>3. camera'[c] = None /\ session'[c] = None /\ writing'[c] = 0
      BY <3>1, <3>2 DEF Traceless
    <3>4. ASSUME NEW u \in Threads PROVE c \notin Starts(u)'
      BY <1>6, <3>2, <3>3 DEF Traceless
    <3>5. \A s \in Segments : media'[s] # None => media'[s].camera # c
      BY <3>2 DEF Traceless
    <3> QED
      BY <3>3, <3>4, <3>5 DEF Traceless
  <2>2. ASSUME NEW u \in Threads
        PROVE  Creates(u)' \subseteq used' /\ (Creates(u)' # {} => Len(todo'[u]) = 1)
    BY <1>1, <1>5 DEF ThreadsAreInOrder, CamerasAreMadeOnce
  <2>3. ASSUME NEW u \in Threads, NEW v \in Threads, u # v PROVE Creates(u)' \cap Creates(v)' = {}
    BY <1>5, <2>3 DEF ThreadsAreInOrder, CamerasAreMadeOnce
  <2> QED
    BY <2>1, <2>2, <2>3 DEF CamerasAreMadeOnce
<1> QED
  BY <1>1, <1>3, <1>4, <1>7 DEF ThreadsAreInOrder

-----------------------------------------------------------------------------
(* Rows and files.                                                         *)

\* Footage stays in order where no row of a segment and no file changes, and
\* cameras appear that have left no file.
LEMMA FootageStaysInOrder ==
    ASSUME Typed, FootageIsInOrder, UNCHANGED <<segment, media, runs, stage>>,
           \A c \in Cameras : writing'[c] # 0 => writing'[c] = writing[c],
           \A c \in Cameras : camera'[c] # None =>
              camera[c] # None \/ \A s \in Segments : media[s] # None => media[s].camera # c
    PROVE  FootageIsInOrder'
<1> USE DEF FootageIsInOrder
<1>1. FilesAreInOrder' /\ RecordingIsOfThisRun' /\ CompleteIsMeasured'
  BY DEF FilesAreInOrder, RecordingIsOfThisRun, CompleteIsMeasured, IsRecording
<1>2. ASSUME NEW c \in Cameras, writing'[c] # 0
      PROVE  WritesWhatIsOpen(c, writing[c])'
  <2> DEFINE s == writing[c]
  <2>1. writing'[c] = s /\ s \in Segments
    BY <1>2 DEF Typed, Segments
  <2>2. WritesWhatIsOpen(c, s)
    BY <1>2, <2>1 DEF WritingIsOpen
  <2> HIDE DEF s
  <2>3. media[s] # None /\ media[s].camera = c /\ (segment[s] # None => IsRecording(s))
    BY <2>2 DEF WritesWhatIsOpen
  <2>4. media[s].listed /\ camera'[c] # None => segment[s] # None
    BY <2>1, <2>2 DEF WritesWhatIsOpen
  <2> QED
    BY <2>1, <2>3, <2>4 DEF WritesWhatIsOpen, IsRecording
<1>3. FootageIsKept'
  <2> SUFFICES ASSUME NEW s \in Segments, media[s] # None, media[s].listed, media[s].ms > 0,
                      camera'[media[s].camera] # None
               PROVE  segment[s] # None
    BY DEF FootageIsKept
  <2>1. media[s].camera \in Cameras
    BY DEF Typed, File
  <2> QED
    BY <2>1 DEF FootageIsKept
<1> QED
  BY <1>1, <1>2, <1>3 DEF WritingIsOpen

\* A step of a thread that leaves the footage alone.
SettlesOrphans == {"listOrphans", "finalize", "stageDone"}
LEMMA StepKeepsInvariant ==
    ASSUME ThreadAssumption, IInv, NEW t \in Threads, StepIsTaken(t), Typed',
           Ends(t) \/ Arg(t).do \notin SettlesOrphans,
           UNCHANGED <<stage, life, runs, used, segment, media>>,
           \A c \in Cameras : camera[c] = None /\ c \notin Creates(t) => camera'[c] = None,
           \A c \in Cameras : session[c] = None /\ c \notin Starts(t) => session'[c] = None,
           \A c \in Cameras : writing'[c] # 0 => writing'[c] = writing[c]
    PROVE  IInv'
<1> USE DEF IInv
<1>1. ThreadsAreInOrder'
  BY ThreadsStayInOrder
<1>2. FootageIsInOrder'
  <2>1. ASSUME NEW c \in Cameras, camera'[c] # None, camera[c] = None
        PROVE  \A s \in Segments : media[s] # None => media[s].camera # c
    BY <2>1 DEF ThreadsAreInOrder, CamerasAreMadeOnce, Unmade, Traceless
  <2> QED
    BY <2>1, FootageStaysInOrder
<1>3. OrphansAreAhead'
  <2> SUFFICES ASSUME stage = 1, todo'[Boot] # <<>> PROVE FALSE
    BY DEF OrphansAreAhead
  <2>1. todo[t] # <<>> /\ todo[t] \in Seq(Step) /\ todo \in [Threads -> Seq(Step)]
    BY DEF StepIsTaken, ThreadsAreInOrder, StepsAreTyped
  <2>2. t = Boot
    BY <2>1 DEF ThreadsAreInOrder, NothingRunsYet, Threads
  <2>3. ~Ends(t)
    BY <2>1, <2>2 DEF Ends
  <2>4. Arg(t) = todo[t][1] /\ 1 \in DOMAIN todo[t]
    BY <2>1 DEF Arg
  <2>5. Belongs(Arg(t).do, 1)
    BY <2>2, <2>4 DEF ThreadsAreInOrder, BootKeepsToItsStage
  <2> QED
    BY <2>3, <2>5 DEF Belongs, SettlesOrphans
<1> QED
  BY <1>1, <1>2, <1>3

\* What the next step of a thread is.
LEMMA NextStep ==
    ASSUME ThreadsAreInOrder, NEW t \in Threads, NEW name, At(t, name)
    PROVE  /\ todo[t] # <<>> /\ Arg(t) \in Step /\ Arg(t).do = name
           /\ t = Boot => Belongs(name, stage)
           /\ name = "createCamera" => Arg(t).camera \in Creates(t)
           /\ name = "startStream" => Arg(t).camera \in Starts(t)
<1>1. todo[t] \in Seq(Step) /\ todo[t] # <<>> /\ Arg(t).do = name
  BY DEF ThreadsAreInOrder, StepsAreTyped, At, Arg
<1>2. 1 \in DOMAIN todo[t] /\ Arg(t) = todo[t][1]
  BY <1>1 DEF Arg
<1>3. Arg(t) \in Step
  BY <1>1, <1>2
<1> QED
  BY <1>1, <1>2, <1>3, StepHas
  DEF ThreadsAreInOrder, BootKeepsToItsStage, Creates, Starts, CamerasOf

-----------------------------------------------------------------------------
(* The services.                                                           *)

LEMMA StartFollowsUp ==
    ASSUME NEW t, NEW c \in Cameras, NEW r \in Row, t = Boot => stage = 2, camera'[c] # None
    PROVE  StartCamera(c, r) \in Seq(FollowsUp(t))
<1> DEFINE x == [do |-> "startStream", camera |-> c, row |-> r]
           y == [do |-> "tellMotion", camera |-> c, row |-> r]
<1>1. x \in Step /\ y \in Step
  BY StepsThereAre
<1>2. x \in FollowsUp(t) /\ y \in FollowsUp(t)
  BY <1>1 DEF FollowsUp, Belongs
<1>3. StartCamera(c, r) = <<x, y>>
  BY DEF StartCamera
<1> HIDE DEF x, y
<1> QED
  BY <1>2, <1>3

LEMMA OneFollowsUp ==
    ASSUME NEW t, NEW x \in Step,
           x.do \notin {"createCamera", "stageDone", "startStream"},
           t = Boot => Belongs(x.do, stage)
    PROVE  <<x>> \in Seq(FollowsUp(t))
  BY DEF FollowsUp

LEMMA TwoFollowUp ==
    ASSUME NEW t, t # Boot, NEW x \in Step, NEW y \in Step,
           x.do \notin {"createCamera", "stageDone", "startStream"},
           y.do \notin {"createCamera", "stageDone", "startStream"}
    PROVE  <<x, y>> \in Seq(FollowsUp(t))
  BY DEF FollowsUp

LEMMA NothingFollows == \A t : <<>> \in Seq(FollowsUp(t))
  OBVIOUS

LEMMA CreateKeeps ==
    ASSUME ThreadAssumption, NoneAssumption, IInv, NEW t \in Callers, createCamera(t)
    PROVE  IInv'
<1> DEFINE c == Arg(t).camera
           r == Arg(t).row
<1>1. t \in Threads /\ t # Boot /\ At(t, "createCamera")
  BY ThreadAssumption DEF Threads, createCamera, Query
<1>2. todo[t] # <<>> /\ Arg(t) \in Step /\ Arg(t).do = "createCamera" /\ c \in Creates(t)
  BY <1>1, NextStep DEF IInv
<1>3. c \in Cameras /\ r \in Row /\ r # None
  BY <1>2, StepHas, NoneAssumption
<1>4. /\ camera' = [camera EXCEPT ![c] = r] /\ Then(t, StartCamera(c, r))
      /\ UNCHANGED <<job, used, segment, media, writing, session, dbUp, stage, life, runs, unsure>>
  BY DEF createCamera, Query, footage, database, process, runtime
<1> HIDE DEF c, r
<1>5. camera' \in [Cameras -> Row \cup {None}] /\ camera'[c] = r
  BY <1>3, <1>4 DEF IInv, Typed
<1>6. StepIsTaken(t)
  BY <1>1, <1>2, <1>3, <1>4, <1>5, StartFollowsUp DEF StepIsTaken
<1>7. Typed'
  BY <1>4, <1>5 DEF IInv, Typed
<1>8. \A d \in Cameras : camera[d] = None /\ d \notin Creates(t) => camera'[d] = None
  BY <1>2, <1>4 DEF IInv, Typed
<1> QED
  BY <1>1, <1>2, <1>4, <1>6, <1>7, <1>8, StepKeepsInvariant DEF SettlesOrphans

\* A query that finds no row ends the call.
LEMMA EndKeeps ==
    ASSUME ThreadAssumption, IInv, NEW t \in Threads, todo[t] # <<>>, Ends(t),
           unsure' \subseteq Jobs,
           UNCHANGED <<camera, job, used, segment, media, writing, session, dbUp, stage, life,
                       runs>>
    PROVE  IInv'
<1>1. StepIsTaken(t)
  BY DEF StepIsTaken
<1>2. Typed'
  BY DEF IInv, Typed
<1> QED
  BY <1>1, <1>2, StepKeepsInvariant

LEMMA PutKeeps ==
    ASSUME ThreadAssumption, NoneAssumption, IInv, NEW t \in Callers, putCamera(t)
    PROVE  IInv'
<1> DEFINE c == Arg(t).camera
           r == [version |-> camera[c].version + 1, motion |-> Arg(t).motion]
<1>1. t \in Threads /\ t # Boot /\ At(t, "putCamera")
  BY ThreadAssumption DEF Threads, putCamera, Query
<1>2. todo[t] # <<>> /\ Arg(t) \in Step /\ Arg(t).do = "putCamera"
  BY <1>1, NextStep DEF IInv
<1>3. c \in Cameras /\ Arg(t).motion \in BOOLEAN
  BY <1>2, StepHas
<1>4. UNCHANGED <<dbUp, stage, life, runs, session, unsure>>
  BY DEF putCamera, Query, database, process, runtime
<1>5. CASE NotFound(t, camera[c])
  <2>1. Ends(t) /\ UNCHANGED <<camera, job, used, segment, media, writing>>
    BY <1>5 DEF NotFound, rows, footage
  <2> QED
    BY <1>1, <1>2, <1>4, <2>1, EndKeeps DEF IInv, Typed
<1>6. CASE ~NotFound(t, camera[c])
  <2>1. /\ camera[c] # None /\ camera' = [camera EXCEPT ![c] = r] /\ Then(t, StartCamera(c, r))
        /\ UNCHANGED <<job, used, segment, media, writing>>
    BY <1>6 DEF putCamera, footage
  <2>2. camera[c] \in Row
    BY <1>3, <2>1 DEF IInv, Typed
  <2>3. r \in Row /\ r # None
    BY <1>3, <2>2, NoneAssumption DEF Row
  <2> HIDE DEF c, r
  <2>4. camera' \in [Cameras -> Row \cup {None}] /\ camera'[c] = r
    BY <1>3, <2>1, <2>3 DEF IInv, Typed
  <2>5. StepIsTaken(t)
    BY <1>1, <1>2, <1>3, <2>1, <2>3, <2>4, StartFollowsUp DEF StepIsTaken
  <2>6. Typed'
    BY <1>4, <2>1, <2>4 DEF IInv, Typed
  <2>7. \A d \in Cameras : camera[d] = None => camera'[d] = None
    BY <2>1 DEF IInv, Typed
  <2> QED
    BY <1>1, <1>2, <1>4, <2>1, <2>5, <2>6, <2>7, StepKeepsInvariant DEF SettlesOrphans
<1> QED
  BY <1>5, <1>6

LEMMA GetKeeps ==
    ASSUME ThreadAssumption, IInv, NEW t \in Callers, getCamera(t)
    PROVE  IInv'
<1> DEFINE c == Arg(t).camera
<1>1. t \in Threads /\ t # Boot /\ At(t, "getCamera")
  BY ThreadAssumption DEF Threads, getCamera, Query
<1>2. todo[t] # <<>> /\ Arg(t) \in Step /\ Arg(t).do = "getCamera"
  BY <1>1, NextStep DEF IInv
<1>3. c \in Cameras
  BY <1>2, StepHas
<1>4. UNCHANGED <<dbUp, stage, life, runs, session, unsure>>
      /\ UNCHANGED <<camera, job, used, segment, media, writing>>
  BY DEF getCamera, NotFound, Query, database, process, runtime, rows, footage
<1>5. CASE NotFound(t, camera[c])
  BY <1>1, <1>2, <1>4, <1>5, EndKeeps DEF IInv, Typed, NotFound
<1>6. CASE ~NotFound(t, camera[c])
  <2>1. /\ camera[c] # None
        /\ Then(t, IF Arg(t).start THEN StartCamera(c, camera[c]) ELSE StopCamera(c))
    BY <1>6 DEF getCamera
  <2>2. camera[c] \in Row
    BY <1>3, <2>1 DEF IInv, Typed
  <2>3. StartCamera(c, camera[c]) \in Seq(FollowsUp(t))
    BY <1>1, <1>3, <1>4, <2>1, <2>2, StartFollowsUp
  <2>4. StopCamera(c) \in Seq(FollowsUp(t))
    <3> DEFINE x == [do |-> "stopStream", camera |-> c]
               y == [do |-> "motionOff", camera |-> c]
    <3>1. x \in Step /\ y \in Step /\ x.do = "stopStream" /\ y.do = "motionOff"
      BY <1>3, StepsThereAre DEF CameraSteps
    <3>2. StopCamera(c) = <<x, y>>
      BY DEF StopCamera
    <3> HIDE DEF x, y
    <3> QED
      BY <1>1, <3>1, <3>2, TwoFollowUp
  <2>5. StepIsTaken(t)
    <3> HIDE DEF c
    <3> QED
      BY <1>2, <2>1, <2>3, <2>4 DEF StepIsTaken
  <2>6. Typed'
    BY <1>4 DEF IInv, Typed
  <2> QED
    BY <1>1, <1>2, <1>4, <2>5, <2>6, StepKeepsInvariant DEF SettlesOrphans
<1> QED
  BY <1>5, <1>6

\* A step that changes no more than jobs, or groups.
LEMMA QuietStepKeeps ==
    ASSUME ThreadAssumption, IInv, NEW t \in Threads, StepIsTaken(t),
           Ends(t) \/ Arg(t).do \notin SettlesOrphans,
           job' \in [Jobs -> JobRow \cup {None}], unsure' \subseteq Jobs,
           UNCHANGED <<camera, used, segment, media, writing, session, dbUp, stage, life, runs>>
    PROVE  IInv'
<1>1. Typed'
  BY DEF IInv, Typed
<1> QED
  BY <1>1, StepKeepsInvariant

LEMMA RequireKeeps ==
    ASSUME ThreadAssumption, IInv, NEW t \in Callers, requireCamera(t)
    PROVE  IInv'
<1>1. t \in Threads /\ At(t, "requireCamera")
  BY DEF Threads, requireCamera, Query
<1>2. todo[t] # <<>> /\ Arg(t).do = "requireCamera"
  BY <1>1, NextStep DEF IInv
<1>3. Ends(t) \/ Then(t, <<>>)
  BY DEF requireCamera, NotFound
<1>4. StepIsTaken(t)
  BY <1>2, <1>3, NothingFollows DEF StepIsTaken
<1> QED
  BY <1>1, <1>2, <1>4, QuietStepKeeps
  DEF requireCamera, NotFound, Query, database, process, runtime, rows, footage,
      IInv, Typed, SettlesOrphans

LEMMA SyncFollowsUp ==
    ASSUME NEW t, NEW j \in Jobs, NEW r \in JobRow, t = Boot => stage = 3
    PROVE  SyncJob(j, r) \in Seq(FollowsUp(t))
<1>1. [do |-> "fetchCamera", job |-> j, row |-> r] \in Step
  BY StepsThereAre
<1> QED
  BY <1>1, OneFollowsUp DEF SyncJob, Belongs

LEMMA RemoveFollowsUp ==
    ASSUME NEW t, t # Boot, NEW j \in Jobs, NEW c \in Cameras
    PROVE  RemoveJob(j, c) \in Seq(FollowsUp(t))
<1>1. [do |-> "removeJob", job |-> j, camera |-> c] \in Step
  BY StepsThereAre
<1> QED
  BY <1>1, OneFollowsUp DEF RemoveJob

LEMMA WriteJobKeeps ==
    ASSUME ThreadAssumption, IInv, NEW t \in Callers, writeJob(t)
    PROVE  IInv'
<1> DEFINE j == Arg(t).job
           r == Arg(t).row
<1>1. t \in Threads /\ t # Boot /\ At(t, "writeJob")
  BY ThreadAssumption DEF Threads, writeJob, Query
<1>2. todo[t] # <<>> /\ Arg(t) \in Step /\ Arg(t).do = "writeJob"
  BY <1>1, NextStep DEF IInv
<1>3. j \in Jobs /\ r \in JobRow
  BY <1>2, StepHas
<1>4. \/ Ends(t) /\ UNCHANGED job
      \/ job' = [job EXCEPT ![j] = r] /\ Then(t, SyncJob(j, r))
  BY DEF writeJob, rows
<1>5. UNCHANGED <<camera, used, segment, media, writing, session, dbUp, stage, life, runs, unsure>>
  BY DEF writeJob, Query, database, process, runtime, rows, footage
<1> HIDE DEF j, r
<1>6. StepIsTaken(t)
  BY <1>1, <1>2, <1>3, <1>4, SyncFollowsUp DEF StepIsTaken
<1>7. job' \in [Jobs -> JobRow \cup {None}]
  BY <1>3, <1>4 DEF IInv, Typed
<1> QED
  BY <1>1, <1>2, <1>5, <1>6, <1>7, QuietStepKeeps DEF IInv, Typed, SettlesOrphans

LEMMA EnableKeeps ==
    ASSUME ThreadAssumption, IInv, NEW t \in Callers, setJobEnabled(t)
    PROVE  IInv'
<1> DEFINE j == Arg(t).job
           r == [job[j] EXCEPT !.enabled = Arg(t).enabled]
<1>1. t \in Threads /\ t # Boot /\ At(t, "setJobEnabled")
  BY ThreadAssumption DEF Threads, setJobEnabled, Query
<1>2. todo[t] # <<>> /\ Arg(t) \in Step /\ Arg(t).do = "setJobEnabled"
  BY <1>1, NextStep DEF IInv
<1>3. j \in Jobs /\ Arg(t).enabled \in BOOLEAN
  BY <1>2, StepHas
<1>4. \/ Ends(t) /\ UNCHANGED job
      \/ /\ job[j] # None /\ job' = [job EXCEPT ![j] = r]
         /\ Then(t, IF r.enabled THEN SyncJob(j, r) ELSE RemoveJob(j, r.camera))
  BY DEF setJobEnabled, NotFound, rows
<1>5. UNCHANGED <<camera, used, segment, media, writing, session, dbUp, stage, life, runs, unsure>>
  BY DEF setJobEnabled, NotFound, Query, database, process, runtime, rows, footage
<1>6. ASSUME job[j] # None PROVE r \in JobRow /\ r.camera \in Cameras
  <2>1. job[j] \in JobRow
    BY <1>3, <1>6 DEF IInv, Typed
  <2> QED
    BY <1>3, <2>1 DEF JobRow
<1> HIDE DEF j, r
<1>7. StepIsTaken(t)
  BY <1>1, <1>2, <1>3, <1>4, <1>6, SyncFollowsUp, RemoveFollowsUp DEF StepIsTaken
<1>8. job' \in [Jobs -> JobRow \cup {None}]
  BY <1>3, <1>4, <1>6 DEF IInv, Typed
<1> QED
  BY <1>1, <1>2, <1>5, <1>7, <1>8, QuietStepKeeps DEF IInv, Typed, SettlesOrphans

LEMMA DeleteJobKeeps ==
    ASSUME ThreadAssumption, IInv, NEW t \in Callers, deleteJob(t)
    PROVE  IInv'
<1> DEFINE j == Arg(t).job
<1>1. t \in Threads /\ t # Boot /\ At(t, "deleteJob")
  BY ThreadAssumption DEF Threads, deleteJob, Query
<1>2. todo[t] # <<>> /\ Arg(t) \in Step /\ Arg(t).do = "deleteJob"
  BY <1>1, NextStep DEF IInv
<1>3. j \in Jobs
  BY <1>2, StepHas
<1>4. \/ Ends(t) /\ UNCHANGED job
      \/ /\ job[j] # None /\ job' = [job EXCEPT ![j] = None]
         /\ Then(t, RemoveJob(j, job[j].camera))
  BY DEF deleteJob, NotFound, rows
<1>5. UNCHANGED <<camera, used, segment, media, writing, session, dbUp, stage, life, runs, unsure>>
  BY DEF deleteJob, NotFound, Query, database, process, runtime, rows, footage
<1>6. ASSUME job[j] # None PROVE job[j].camera \in Cameras
  BY <1>3, <1>6 DEF IInv, Typed, JobRow
<1> HIDE DEF j
<1>7. StepIsTaken(t)
  BY <1>1, <1>2, <1>3, <1>4, <1>6, RemoveFollowsUp DEF StepIsTaken
<1>8. job' \in [Jobs -> JobRow \cup {None}]
  BY <1>3, <1>4 DEF IInv, Typed
<1> QED
  BY <1>1, <1>2, <1>5, <1>7, <1>8, QuietStepKeeps DEF IInv, Typed, SettlesOrphans

LEMMA FetchKeeps ==
    ASSUME ThreadAssumption, IInv, NEW t \in Threads, fetchCamera(t)
    PROVE  IInv'
<1> DEFINE c == Arg(t).row.camera
           x == [do |-> "applyJob", job |-> Arg(t).job, camera |-> c,
                 row |-> camera[c], enabled |-> Arg(t).row.enabled]
<1>1. At(t, "fetchCamera")
  BY DEF fetchCamera, Query
<1>2. todo[t] # <<>> /\ Arg(t) \in Step /\ Arg(t).do = "fetchCamera"
      /\ (t = Boot => Belongs("fetchCamera", stage))
  BY <1>1, NextStep DEF IInv
<1>3. Arg(t).job \in Jobs /\ c \in Cameras /\ Arg(t).row.enabled \in BOOLEAN
  BY <1>2, StepHas DEF JobRow
<1>4. Then(t, IF camera[c] = None THEN <<>> ELSE <<x>>)
      /\ UNCHANGED <<camera, job, used, segment, media, writing, session, dbUp, stage, life,
                     runs, unsure>>
  BY DEF fetchCamera, Query, database, process, runtime, rows, footage
<1>5. ASSUME camera[c] # None PROVE <<x>> \in Seq(FollowsUp(t))
  <2>1. camera[c] \in Row
    BY <1>3, <1>5 DEF IInv, Typed
  <2>2. x \in Step /\ x.do = "applyJob"
    BY <1>3, <2>1, StepsThereAre
  <2> HIDE DEF x
  <2> QED
    BY <1>2, <2>2, OneFollowsUp DEF Belongs
<1> HIDE DEF c, x
<1>6. StepIsTaken(t)
  BY <1>2, <1>4, <1>5, NothingFollows DEF StepIsTaken
<1> QED
  BY <1>2, <1>4, <1>6, QuietStepKeeps DEF IInv, Typed, SettlesOrphans

LEMMA AiCallKeeps ==
    ASSUME ThreadAssumption, IInv, NEW t \in Threads, NEW name, NEW newGroup, NEW settled,
           name \notin SettlesOrphans, AiCall(t, name, newGroup, settled)
    PROVE  IInv'
<1>1. At(t, name) /\ Then(t, <<>>) /\ unsure' = unsure \ settled
  BY DEF AiCall, Direct
<1>2. todo[t] # <<>> /\ Arg(t).do = name
  BY <1>1, NextStep DEF IInv
<1>3. StepIsTaken(t)
  BY <1>1, <1>2, NothingFollows DEF StepIsTaken
<1>4. UNCHANGED <<camera, job, used, segment, media, writing, session, dbUp, stage, life, runs>>
  BY DEF AiCall, Direct, rows, process, database
<1>5. unsure' \subseteq Jobs
  BY <1>1 DEF IInv, Typed
<1> QED
  BY <1>2, <1>3, <1>4, <1>5, QuietStepKeeps DEF IInv, Typed

LEMMA ThrowKeeps ==
    ASSUME ThreadAssumption, IInv, NEW t \in Threads, QueryThrows(t)
    PROVE  IInv'
<1>1. PICK name \in Queries : At(t, name)
  BY DEF QueryThrows
<1>2. todo[t] # <<>> /\ Arg(t) \in Step /\ Arg(t).do = name
  BY <1>1, NextStep DEF IInv
<1>3. Ends(t) /\ unsure' = IF t # Boot /\ At(t, "fetchCamera") THEN unsure \cup {Arg(t).job}
                           ELSE unsure
  BY DEF QueryThrows
<1>4. At(t, "fetchCamera") => Arg(t).job \in Jobs
  BY <1>2, StepHas DEF At, Arg
<1>5. unsure' \subseteq Jobs
  BY <1>3, <1>4 DEF IInv, Typed
<1> QED
  BY <1>2, <1>3, <1>5, EndKeeps
  DEF QueryThrows, rows, footage, process, database, runtime

-----------------------------------------------------------------------------
(* Streams.                                                                *)

LEMMA StreamStepKeeps ==
    ASSUME ThreadAssumption, IInv, NEW t \in Threads, NEW c \in Cameras, StepIsTaken(t),
           Arg(t).do \notin SettlesOrphans, NEW next,
           session[c] # None \/ c \in Starts(t) => next \in Session \cup {None},
           session[c] = None /\ c \notin Starts(t) => next = None,
           session' = [session EXCEPT ![c] = next], writing' = [writing EXCEPT ![c] = 0],
           UNCHANGED <<camera, job, used, segment, media, dbUp, stage, life, runs, unsure>>
    PROVE  IInv'
<1>1. next \in Session \cup {None}
  OBVIOUS
<1>2. /\ session' \in [Cameras -> Session \cup {None}]
      /\ writing' \in [Cameras -> 0..MaxSegments]
      /\ \A d \in Cameras : session[d] = None /\ d \notin Starts(t) => session'[d] = None
      /\ \A d \in Cameras : writing'[d] # 0 => writing'[d] = writing[d]
  <2>1. session \in [Cameras -> Session \cup {None}] /\ writing \in [Cameras -> 0..MaxSegments]
    BY DEF IInv, Typed
  <2>2. \A d \in Cameras : session'[d] = IF d = c THEN next ELSE session[d]
    BY <2>1
  <2>3. \A d \in Cameras : writing'[d] = IF d = c THEN 0 ELSE writing[d]
    BY <2>1
  <2>4. 0 \in 0 .. MaxSegments
    BY BoundsAssumption
  <2> QED
    BY <1>1, <2>1, <2>2, <2>3, <2>4
<1>3. Typed'
  BY <1>2 DEF IInv, Typed
<1> QED
  BY <1>2, <1>3, StepKeepsInvariant

LEMMA StartKeeps ==
    ASSUME ThreadAssumption, BoundsAssumption, IInv, NEW t \in Threads, startStream(t)
    PROVE  IInv'
<1> DEFINE c == Arg(t).camera
           next == [version |-> Arg(t).row.version, on |-> TRUE]
<1>1. /\ At(t, "startStream") /\ Then(t, <<>>)
      /\ session' = [session EXCEPT ![c] = next] /\ writing' = [writing EXCEPT ![c] = 0]
      /\ UNCHANGED <<camera, job, used, segment, media, dbUp, stage, life, runs, unsure>>
  BY DEF startStream, Direct, rows, process, database
<1>2. todo[t] # <<>> /\ Arg(t) \in Step /\ Arg(t).do = "startStream" /\ c \in Starts(t)
  BY <1>1, NextStep DEF IInv
<1>3. c \in Cameras /\ next \in Session
  BY <1>2, StepHas DEF Row, Session
<1>4. StepIsTaken(t)
  BY <1>1, <1>2, NothingFollows DEF StepIsTaken
<1> HIDE DEF c, next
<1> QED
  BY <1>1, <1>2, <1>3, <1>4, StreamStepKeeps DEF SettlesOrphans

LEMMA StopKeeps ==
    ASSUME ThreadAssumption, BoundsAssumption, IInv, NEW t \in Threads, stopStream(t)
    PROVE  IInv'
<1> DEFINE c == Arg(t).camera
           next == IF session[c] = None THEN None ELSE [session[c] EXCEPT !.on = FALSE]
<1>1. At(t, "stopStream") /\ Then(t, <<>>)
      /\ UNCHANGED <<camera, job, used, segment, media, dbUp, stage, life, runs, unsure>>
  BY DEF stopStream, Direct, rows, process, database
<1>2. todo[t] # <<>> /\ Arg(t) \in Step /\ Arg(t).do = "stopStream"
  BY <1>1, NextStep DEF IInv
<1>3. c \in Cameras
  BY <1>2, StepHas DEF CameraSteps
<1>4. session' = [session EXCEPT ![c] = next] /\ writing' = [writing EXCEPT ![c] = 0]
  BY <1>3 DEF stopStream, IInv, Typed
<1>5. (session[c] = None => next = None) /\ (session[c] # None => next \in Session)
  <2>1. session[c] # None => session[c] \in Session
    BY <1>3 DEF IInv, Typed
  <2> QED
    BY <2>1 DEF Session
<1>6. StepIsTaken(t)
  BY <1>1, <1>2, NothingFollows DEF StepIsTaken
<1>7. next \in Session \cup {None}
  BY <1>5
<1> HIDE DEF c, next
<1> QED
  BY <1>1, <1>2, <1>3, <1>4, <1>5, <1>6, <1>7, StreamStepKeeps DEF SettlesOrphans

LEMMA CleanupKeeps ==
    ASSUME ThreadAssumption, BoundsAssumption, IInv, NEW t \in Callers, cleanupStream(t)
    PROVE  IInv'
<1> DEFINE c == Arg(t).camera
           x == [do |-> "motionOff", camera |-> c]
<1>1. /\ At(t, "cleanupStream") /\ Then(t, IF session[c] = None THEN <<>> ELSE <<x>>)
      /\ session' = [session EXCEPT ![c] = None] /\ writing' = [writing EXCEPT ![c] = 0]
      /\ UNCHANGED <<camera, job, used, segment, media, dbUp, stage, life, runs, unsure>>
  BY DEF cleanupStream, Direct, rows, process, database
<1>2. t \in Threads /\ t # Boot
  BY ThreadAssumption DEF Threads
<1>3. todo[t] # <<>> /\ Arg(t) \in Step /\ Arg(t).do = "cleanupStream"
  BY <1>1, <1>2, NextStep DEF IInv
<1>4. c \in Cameras /\ x \in Step /\ x.do = "motionOff"
  BY <1>3, StepHas, StepsThereAre DEF CameraSteps
<1> HIDE DEF c, x
<1>5. <<x>> \in Seq(FollowsUp(t))
  BY <1>2, <1>4, OneFollowsUp
<1>6. StepIsTaken(t)
  BY <1>1, <1>3, <1>5, NothingFollows DEF StepIsTaken
<1> QED
  BY <1>1, <1>2, <1>3, <1>4, <1>6, StreamStepKeeps DEF SettlesOrphans

\* The rows of a camera's segments go with its own.
LEMMA DeleteKeeps ==
    ASSUME ThreadAssumption, IInv, NEW t \in Callers, deleteCamera(t)
    PROVE  IInv'
<1> DEFINE c == Arg(t).camera
           Of(s) == segment[s] # None /\ segment[s].camera = c
<1>1. t \in Threads /\ t # Boot /\ At(t, "deleteCamera")
  BY ThreadAssumption DEF Threads, deleteCamera, Query
<1>2. todo[t] # <<>> /\ Arg(t) \in Step /\ Arg(t).do = "deleteCamera"
  BY <1>1, NextStep DEF IInv
<1>3. c \in Cameras
  BY <1>2, StepHas DEF CameraSteps
<1>4. UNCHANGED <<dbUp, stage, life, runs, session, unsure, used, media, writing>>
  BY DEF deleteCamera, NotFound, Query, database, process, runtime, rows, footage
<1>5. CASE NotFound(t, camera[c])
  BY <1>1, <1>2, <1>4, <1>5, EndKeeps DEF IInv, Typed, NotFound, rows, footage
<1>6. CASE ~NotFound(t, camera[c])
  <2>1. /\ camera' = [camera EXCEPT ![c] = None] /\ Then(t, DropCamera(c))
        /\ job' = [j \in Jobs |-> IF job[j] # None /\ job[j].camera = c THEN None ELSE job[j]]
        /\ segment' = [s \in Segments |-> IF Of(s) THEN None ELSE segment[s]]
    BY <1>6 DEF deleteCamera
  <2>2. Typed'
    <3>1. camera' \in [Cameras -> Row \cup {None}]
      BY <2>1 DEF IInv, Typed
    <3>2. job' \in [Jobs -> JobRow \cup {None}]
      BY <2>1 DEF IInv, Typed
    <3>3. segment' \in [Segments -> Segment \cup {None}]
      BY <2>1 DEF IInv, Typed
    <3> QED
      BY <1>4, <3>1, <3>2, <3>3 DEF IInv, Typed
  <2>3. DropCamera(c) \in Seq(FollowsUp(t))
    <3> DEFINE x == [do |-> "cleanupStream", camera |-> c]
               y == [do |-> "removeCamera", camera |-> c]
    <3>1. x \in Step /\ y \in Step /\ x.do = "cleanupStream" /\ y.do = "removeCamera"
      BY <1>3, StepsThereAre DEF CameraSteps
    <3>2. DropCamera(c) = <<x, y>>
      BY DEF DropCamera, TakenDown
    <3> HIDE DEF x, y
    <3> QED
      BY <1>1, <3>1, <3>2, TwoFollowUp
  <2>4. ThreadsAreInOrder'
    <3> HIDE DEF c
    <3>1. StepIsTaken(t)
      BY <1>2, <2>1, <2>3 DEF StepIsTaken
    <3>2. \A d \in Cameras : camera[d] = None => camera'[d] = None
      BY <1>3, <2>1 DEF IInv, Typed
    <3> QED
      BY <1>1, <1>4, <3>1, <3>2, ThreadsStayInOrder DEF IInv
  <2>5. OrphansAreAhead'
    BY <1>2, <1>4 DEF IInv, ThreadsAreInOrder, NothingRunsYet, OrphansAreAhead
  <2>6. FootageIsInOrder'
    <3>1. \A s \in Segments : segment'[s] = IF Of(s) THEN None ELSE segment[s]
      BY <2>1
    <3>2. \A d \in Cameras : camera'[d] # None => camera[d] # None /\ d # c
      BY <1>3, <2>1 DEF IInv, Typed
    <3>3. \A s \in Segments : segment[s] # None =>
             media[s] # None /\ segment[s].camera = media[s].camera
      BY DEF IInv, FootageIsInOrder, FilesAreInOrder
    <3> HIDE DEF c
    <3>4. FilesAreInOrder'
      BY <1>4, <3>1 DEF IInv, FootageIsInOrder, FilesAreInOrder
    <3>5. RecordingIsOfThisRun' /\ CompleteIsMeasured'
      BY <1>4, <3>1
      DEF IInv, FootageIsInOrder, RecordingIsOfThisRun, CompleteIsMeasured, IsRecording
    <3>6. FootageIsKept'
      <4> SUFFICES ASSUME NEW s \in Segments, media[s] # None, media[s].listed, media[s].ms > 0,
                          camera'[media[s].camera] # None
                   PROVE  segment'[s] # None
        BY <1>4 DEF FootageIsKept
      <4>1. media[s].camera \in Cameras
        BY DEF IInv, Typed, File
      <4> QED
        BY <3>1, <3>2, <3>3, <4>1 DEF IInv, FootageIsInOrder, FootageIsKept
    <3>7. WritingIsOpen'
      <4> SUFFICES ASSUME NEW d \in Cameras, writing[d] # 0
                   PROVE  WritesWhatIsOpen(d, writing[d])'
        BY <1>4 DEF WritingIsOpen
      <4>1. PICK s \in Segments : s = writing[d]
        BY DEF IInv, Typed, Segments
      <4>2. WritesWhatIsOpen(d, s)
        BY <4>1 DEF IInv, FootageIsInOrder, WritingIsOpen
      <4>3. writing'[d] = s
        BY <1>4, <4>1
      <4>4. media[s] # None /\ media[s].camera = d /\ (segment'[s] # None => IsRecording(s)')
        BY <3>1, <4>1, <4>2 DEF WritesWhatIsOpen, IsRecording
      <4>5. media[s].listed /\ camera'[d] # None => segment'[s] # None
        BY <3>1, <3>2, <3>3, <4>1, <4>2 DEF WritesWhatIsOpen
      <4> QED
        BY <1>4, <4>3, <4>4, <4>5 DEF WritesWhatIsOpen, IsRecording
    <3> QED
      BY <3>4, <3>5, <3>6, <3>7 DEF FootageIsInOrder
  <2> QED
    BY <2>2, <2>4, <2>5, <2>6 DEF IInv
<1> QED
  BY <1>5, <1>6

-----------------------------------------------------------------------------
(* The start-up thread.                                                    *)

\* A thread is given other steps, which start no stream and make only cameras
\* that are new.
LEMMA StepsAreReplaced ==
    ASSUME Typed, StepsAreTyped, CamerasAreMadeOnce, NEW t \in Threads, NEW steps \in Seq(Step),
           todo' = [todo EXCEPT ![t] = steps], used \subseteq used',
           UNCHANGED <<camera, session, media, writing>>,
           \A i \in DOMAIN steps :
              /\ steps[i].do # "startStream"
              /\ steps[i].do = "createCamera" =>
                    /\ steps[i].camera \in used' \ used
                    /\ Len(steps) = 1
    PROVE  /\ StepsAreTyped' /\ CamerasAreMadeOnce'
           /\ todo'[t] = steps /\ \A u \in Threads : u # t => todo'[u] = todo[u]
<1>1. todo'[t] = steps /\ StepsAreTyped' /\ \A u \in Threads : u # t => todo'[u] = todo[u]
  BY DEF StepsAreTyped
<1>2. /\ \A u \in Threads : u # t => Creates(u)' = Creates(u) /\ Starts(u)' = Starts(u)
      /\ Starts(t)' = {} /\ \A c \in Creates(t)' : c \in used' \ used /\ Len(steps) = 1
  BY <1>1 DEF Creates, Starts, CamerasOf
<1>3. ASSUME NEW u \in Threads
      PROVE  Creates(u)' \subseteq used' /\ (Creates(u)' # {} => Len(todo'[u]) = 1)
  BY <1>1, <1>2 DEF CamerasAreMadeOnce
<1>4. ASSUME NEW u \in Threads, NEW v \in Threads, u # v PROVE Creates(u)' \cap Creates(v)' = {}
  BY <1>2, <1>4 DEF CamerasAreMadeOnce
<1>5. ASSUME NEW c \in Cameras, Unmade(c)' PROVE Traceless(c)'
  <2>1. Unmade(c)
    BY <1>2, <1>5 DEF Unmade
  <2>2. Traceless(c)
    BY <2>1 DEF CamerasAreMadeOnce
  <2>3. \A u \in Threads : c \notin Starts(u)'
    BY <1>2, <2>2 DEF Traceless
  <2> QED
    BY <2>2, <2>3 DEF Traceless
<1> QED
  BY <1>1, <1>3, <1>4, <1>5 DEF CamerasAreMadeOnce

LEMMA BeginKeeps ==
    ASSUME ThreadAssumption, IInv, BeginStage
    PROVE  IInv'
<1> DEFINE x == [do |-> StageSteps[stage]]
           y == [do |-> "stageDone"]
<1>1. /\ todo[Boot] = <<>> /\ stage < Done /\ life = "up"
      /\ todo' = [todo EXCEPT ![Boot] = <<x, y>>]
      /\ UNCHANGED <<camera, job, used, segment, media, writing, life, runs, stage, dbUp,
                     session, unsure>>
  BY DEF BeginStage, Tries, MayTry, rows, footage, process, database, runtime
<1>2. stage \in 1 .. 3
  BY <1>1 DEF IInv, Typed, Done
<1>3. Belongs(x.do, stage) /\ x.do \in BootSteps /\ x.do # "stageDone"
      /\ (stage = 1 => x.do = "listOrphans")
  BY <1>2 DEF StageSteps, Stages, Belongs, BootSteps
<1>4. x \in Step /\ y \in Step /\ y.do = "stageDone"
      /\ x.do \notin {"startStream", "createCamera"}
  BY <1>3, StepsThereAre DEF BootSteps
<1>5. Boot \in Threads /\ Boot \notin Callers /\ Callers \subseteq Threads
  BY ThreadAssumption DEF Threads
<1> HIDE DEF x, y
<1>6. /\ StepsAreTyped' /\ CamerasAreMadeOnce'
      /\ todo'[Boot] = <<x, y>> /\ \A u \in Threads : u # Boot => todo'[u] = todo[u]
  <2> DEFINE steps == <<x, y>>
  <2>1. steps \in Seq(Step) /\ Len(steps) = 2
        /\ \A i \in DOMAIN steps : /\ steps[i].do # "startStream"
                                   /\ steps[i].do = "createCamera" =>
                                         steps[i].camera \in used' \ used /\ Len(steps) = 1
    BY <1>4
  <2> HIDE DEF steps
  <2>2. todo' = [todo EXCEPT ![Boot] = steps]
    BY <1>1 DEF steps
  <2>3. /\ StepsAreTyped' /\ CamerasAreMadeOnce'
        /\ todo'[Boot] = steps /\ \A u \in Threads : u # Boot => todo'[u] = todo[u]
    <3>1. Typed /\ StepsAreTyped /\ CamerasAreMadeOnce /\ used \subseteq used'
          /\ UNCHANGED <<camera, session, media, writing>>
      BY <1>1 DEF IInv, ThreadsAreInOrder
    <3> QED
      BY <1>5, <2>1, <2>2, <3>1, StepsAreReplaced
  <2> QED
    BY <2>3 DEF steps
<1>7. BootKeepsToItsStage'
  <2>1. stage' < Done
    BY <1>1
  <2>2. \A i \in DOMAIN todo'[Boot] :
           /\ Belongs(todo'[Boot][i].do, stage)
           /\ todo'[Boot][i].do = "stageDone" => i = Len(todo'[Boot])
    <3>1. Belongs(y.do, stage)
      BY <1>4 DEF Belongs
    <3> QED
      BY <1>3, <1>4, <1>6, <3>1
  <2>3. \A i \in DOMAIN todo'[Boot] :
           /\ Belongs(todo'[Boot][i].do, stage')
           /\ todo'[Boot][i].do = "stageDone" => i = Len(todo'[Boot])
    BY <1>1, <2>2
  <2> QED
    BY <2>1, <2>3 DEF BootKeepsToItsStage
<1>8. NothingRunsYet'
  BY <1>1, <1>5, <1>6 DEF IInv, ThreadsAreInOrder, NothingRunsYet
<1>9. OrphansAreAhead'
  <2>1. 1 \in DOMAIN todo'[Boot] /\ todo'[Boot][1] = x
    BY <1>6
  <2> QED
    BY <1>1, <1>3, <2>1 DEF OrphansAreAhead
<1>10. FootageIsInOrder' /\ Typed'
  <2>1. Typed'
    BY <1>1 DEF IInv, Typed
  <2> QED
    BY <1>1, <2>1, FootageStaysInOrder DEF IInv
<1> QED
  BY <1>6, <1>7, <1>8, <1>9, <1>10 DEF IInv, ThreadsAreInOrder

\* Where the first stage ends, no orphan is left.
LEMMA EndStageKeeps ==
    ASSUME ThreadAssumption, IInv, EndStage
    PROVE  IInv'
<1>1. /\ At(Boot, "stageDone") /\ stage' = stage + 1 /\ Then(Boot, <<>>)
      /\ UNCHANGED <<camera, job, used, segment, media, writing, life, runs, dbUp, session, unsure>>
  BY DEF EndStage, rows, footage, database, runtime
<1>2. Boot \in Threads /\ Boot \notin Callers /\ Callers \subseteq Threads
  BY ThreadAssumption DEF Threads
<1>3. /\ todo \in [Threads -> Seq(Step)] /\ todo[Boot] \in Seq(Step) /\ todo[Boot] # <<>>
      /\ DOMAIN todo[Boot] = {1} /\ todo[Boot][1].do = "stageDone" /\ Tail(todo[Boot]) = <<>>
  <2>1. /\ todo \in [Threads -> Seq(Step)] /\ todo[Boot] \in Seq(Step) /\ todo[Boot] # <<>>
        /\ todo[Boot][1].do = "stageDone" /\ 1 \in DOMAIN todo[Boot]
    BY <1>1, <1>2 DEF IInv, ThreadsAreInOrder, StepsAreTyped, At
  <2>2. Len(todo[Boot]) = 1
    BY <2>1 DEF IInv, ThreadsAreInOrder, BootKeepsToItsStage
  <2>3. ASSUME NEW s \in Seq(Step), Len(s) = 1 PROVE DOMAIN s = {1} /\ Tail(s) = <<>>
    <3>1. DOMAIN s = 1 .. 1 /\ s # <<>>
      BY <2>3
    <3>2. Tail(s) \in Seq(Step) /\ Len(Tail(s)) = 0
      BY <2>3, <3>1
    <3>3. \A q \in Seq(Step) : Len(q) = 0 => q = <<>>
      OBVIOUS
    <3>4. Tail(s) = <<>>
      BY <3>2, <3>3
    <3> QED
      BY <3>1, <3>4
  <2> QED
    BY <2>1, <2>2, <2>3
<1>4. stage \in Nat /\ stage > 0 /\ stage < Done /\ stage' # 1 /\ life # "down"
  BY <1>1, <1>3 DEF IInv, Typed, ThreadsAreInOrder, BootKeepsToItsStage, NothingRunsYet
<1>5. /\ StepsAreTyped' /\ CamerasAreMadeOnce'
      /\ todo'[Boot] = <<>> /\ \A u \in Threads : u # Boot => todo'[u] = todo[u]
  <2>1. todo' = [todo EXCEPT ![Boot] = <<>>]
    <3>1. todo' = [todo EXCEPT ![Boot] = <<>> \o Tail(todo[Boot])]
      BY <1>1 DEF Then
    <3>2. <<>> \o <<>> = <<>>
      OBVIOUS
    <3> QED
      BY <1>3, <3>1, <3>2
  <2>2. <<>> \in Seq(Step) /\ DOMAIN <<>> = {}
    OBVIOUS
  <2> QED
    BY <1>1, <1>2, <2>1, <2>2, StepsAreReplaced DEF IInv, ThreadsAreInOrder
<1>6. Typed'
  BY <1>1, <1>4 DEF IInv, Typed, Done
<1>7. BootKeepsToItsStage' /\ NothingRunsYet' /\ OrphansAreAhead'
  BY <1>1, <1>4, <1>5 DEF BootKeepsToItsStage, NothingRunsYet, OrphansAreAhead
<1>8. FootageIsInOrder'
  <2>1. \A s \in Segments : IsRecording(s) => segment[s].run = runs
    <3>1. CASE stage = 1
      BY <1>3, <3>1 DEF IInv, OrphansAreAhead
    <3>2. CASE stage > 1
      BY <3>2 DEF IInv, FootageIsInOrder, RecordingIsOfThisRun
    <3> QED
      BY <1>4, <3>1, <3>2
  <2>2. RecordingIsOfThisRun'
    BY <1>1, <2>1 DEF RecordingIsOfThisRun, IsRecording
  <2>3. FilesAreInOrder' /\ CompleteIsMeasured' /\ FootageIsKept'
    BY <1>1 DEF IInv, FootageIsInOrder, FilesAreInOrder, CompleteIsMeasured, FootageIsKept
  <2>4. WritingIsOpen'
    BY <1>1 DEF IInv, FootageIsInOrder, WritingIsOpen, WritesWhatIsOpen, IsRecording
  <2> QED
    BY <2>2, <2>3, <2>4 DEF FootageIsInOrder
<1> QED
  BY <1>5, <1>6, <1>7, <1>8 DEF IInv, ThreadsAreInOrder

\* What a query of the start-up thread finds comes before the rest.
LEMMA ListedIs ==
    ASSUME ThreadAssumption, IInv, NEW name, NEW steps \in Seq(FollowsUp(Boot)), Listed(name, steps)
    PROVE  /\ Boot \in Threads /\ StepIsTaken(Boot) /\ Arg(Boot).do = name /\ Belongs(name, stage)
           /\ Then(Boot, steps)
           /\ UNCHANGED <<camera, job, used, segment, media, writing, session, dbUp, stage, life,
                          runs, unsure>>
<1>1. Boot \in Threads
  BY DEF Threads
<1>2. /\ At(Boot, name) /\ Then(Boot, steps)
      /\ UNCHANGED <<camera, job, used, segment, media, writing, session, dbUp, stage, life,
                     runs, unsure>>
  BY DEF Listed, Query, rows, footage, process, database, runtime
<1>3. todo[Boot] # <<>> /\ Arg(Boot).do = name /\ Belongs(name, stage)
  BY <1>1, <1>2, NextStep DEF IInv
<1> QED
  BY <1>1, <1>2, <1>3 DEF StepIsTaken

LEMMA ListStreamsKeeps ==
    ASSUME ThreadAssumption, IdsAssumption, IInv, startAllStreams
    PROVE  IInv'
<1> DEFINE found == {c \in Cameras : camera[c] # None}
           ids == SetToSeq(found)
           each == [i \in DOMAIN ids |-> StartCamera(ids[i], camera[ids[i]])]
           steps == FlattenSeq(each)
<1>1. Listed("listCameras", steps)
  BY DEF startAllStreams
<1>2. UNCHANGED camera /\ stage = 2
  <2>1. At(Boot, "listCameras") /\ UNCHANGED camera
    BY <1>1 DEF Listed, Query, rows
  <2>2. Belongs("listCameras", stage)
    BY <2>1, NextStep DEF IInv, Threads
  <2> QED
    BY <2>1, <2>2 DEF Belongs
<1>3. ids \in Seq(found)
  <2>1. IsFiniteSet(found)
    BY IdsAssumption, FS_Subset
  <2> HIDE DEF found
  <2> QED
    BY <2>1, SetToSeqIs
<1>4. ASSUME NEW c \in found PROVE StartCamera(c, camera[c]) \in Seq(FollowsUp(Boot))
  <2>1. camera[c] \in Row /\ camera'[c] # None
    BY <1>2 DEF IInv, Typed
  <2> QED
    BY <1>2, <2>1, StartFollowsUp
<1> HIDE DEF found, ids
<1>5. each \in Seq(Seq(FollowsUp(Boot)))
  <2>1. \A i \in DOMAIN ids : each[i] \in Seq(FollowsUp(Boot))
    BY <1>3, <1>4
  <2>2. DOMAIN each = 1 .. Len(ids) /\ Len(ids) \in Nat /\ DOMAIN ids = 1 .. Len(ids)
    BY <1>3
  <2>3. each \in [1 .. Len(ids) -> Seq(FollowsUp(Boot))]
    BY <2>1, <2>2
  <2> HIDE DEF each
  <2> QED
    BY <2>2, <2>3
<1> HIDE DEF each
<1>6. steps \in Seq(FollowsUp(Boot))
  BY <1>5, FlattenIsSeq
<1> HIDE DEF steps
<1> QED
  BY <1>1, <1>6, ListedIs, QuietStepKeeps DEF IInv, Typed, SettlesOrphans

LEMMA ListJobsKeeps ==
    ASSUME ThreadAssumption, IdsAssumption, IInv, startAllJobs
    PROVE  IInv'
<1> DEFINE found == {j \in Jobs : job[j] # None /\ job[j].enabled}
           ids == SetToSeq(found)
           each == [i \in DOMAIN ids |-> SyncJob(ids[i], job[ids[i]])]
           steps == FlattenSeq(each)
<1>1. Listed("listJobs", steps)
  BY DEF startAllJobs
<1>2. stage = 3
  <2>1. At(Boot, "listJobs")
    BY <1>1 DEF Listed, Query
  <2>2. Belongs("listJobs", stage)
    BY <2>1, NextStep DEF IInv, Threads
  <2> QED
    BY <2>2 DEF Belongs
<1>3. ids \in Seq(found)
  <2>1. IsFiniteSet(found)
    BY IdsAssumption, FS_Subset
  <2> HIDE DEF found
  <2> QED
    BY <2>1, SetToSeqIs
<1>4. ASSUME NEW j \in found PROVE SyncJob(j, job[j]) \in Seq(FollowsUp(Boot))
  <2>1. job[j] \in JobRow /\ j \in Jobs
    BY DEF IInv, Typed
  <2> QED
    BY <1>2, <2>1, SyncFollowsUp
<1> HIDE DEF found, ids
<1>5. each \in Seq(Seq(FollowsUp(Boot)))
  <2>1. \A i \in DOMAIN ids : each[i] \in Seq(FollowsUp(Boot))
    BY <1>3, <1>4
  <2>2. DOMAIN each = 1 .. Len(ids) /\ Len(ids) \in Nat /\ DOMAIN ids = 1 .. Len(ids)
    BY <1>3
  <2>3. each \in [1 .. Len(ids) -> Seq(FollowsUp(Boot))]
    BY <2>1, <2>2
  <2> HIDE DEF each
  <2> QED
    BY <2>2, <2>3
<1> HIDE DEF each
<1>6. steps \in Seq(FollowsUp(Boot))
  BY <1>5, FlattenIsSeq
<1> HIDE DEF steps
<1> QED
  BY <1>1, <1>6, ListedIs, QuietStepKeeps DEF IInv, Typed, SettlesOrphans

\* Every orphan is found, ...
LEMMA ListOrphansKeeps ==
    ASSUME ThreadAssumption, BoundsAssumption, IInv, listOrphans
    PROVE  IInv'
<1> DEFINE ids == SetToSeq(Orphans)
           steps == [i \in DOMAIN ids |-> [do |-> "finalize", segment |-> ids[i]]]
<1>1. Listed("listOrphans", steps)
  BY DEF listOrphans
<1>2. stage = 1
  <2>1. At(Boot, "listOrphans")
    BY <1>1 DEF Listed, Query
  <2>2. Belongs("listOrphans", stage)
    BY <2>1, NextStep DEF IInv, Threads
  <2> QED
    BY <2>2 DEF Belongs
<1>3. ids \in Seq(Orphans) /\ \A s \in Orphans : \E i \in DOMAIN ids : ids[i] = s
  <2>1. IsFiniteSet(Segments) /\ Orphans \subseteq Segments
    BY BoundsAssumption, FS_Interval DEF Segments, Orphans
  <2>2. IsFiniteSet(Orphans)
    BY <2>1, FS_Subset
  <2> QED
    BY <2>2, SetToSeqIs
<1>4. ASSUME NEW s \in Orphans PROVE [do |-> "finalize", segment |-> s] \in FollowsUp(Boot)
  <2>1. [do |-> "finalize", segment |-> s] \in Step
    BY StepsThereAre DEF Orphans
  <2> QED
    BY <1>2, <2>1 DEF FollowsUp, Belongs
<1> HIDE DEF ids
<1>5. steps \in Seq(FollowsUp(Boot))
  <2>1. \A i \in DOMAIN ids : steps[i] \in FollowsUp(Boot)
    BY <1>3, <1>4
  <2>2. DOMAIN steps = 1 .. Len(ids) /\ Len(ids) \in Nat /\ DOMAIN ids = 1 .. Len(ids)
    BY <1>3
  <2>3. steps \in [1 .. Len(ids) -> FollowsUp(Boot)]
    BY <2>1, <2>2
  <2> HIDE DEF steps
  <2> QED
    BY <2>2, <2>3
<1>6. \A s \in Orphans :
         \E i \in DOMAIN steps : steps[i].do = "finalize" /\ steps[i].segment = s
  <2> SUFFICES ASSUME NEW s \in Orphans
               PROVE  \E i \in DOMAIN steps : steps[i].do = "finalize" /\ steps[i].segment = s
    OBVIOUS
  <2>1. PICK i \in DOMAIN ids : ids[i] = s
    BY <1>3
  <2>2. i \in DOMAIN steps /\ steps[i].do = "finalize" /\ steps[i].segment = s
    BY <2>1
  <2> QED
    BY <2>2
<1> HIDE DEF steps
<1>7. /\ Boot \in Threads /\ StepIsTaken(Boot) /\ Then(Boot, steps)
      /\ UNCHANGED <<camera, job, used, segment, media, writing, session, dbUp, stage, life,
                     runs, unsure>>
  BY <1>1, <1>5, ListedIs
<1>8. ThreadsAreInOrder' /\ FootageIsInOrder' /\ Typed'
  <2>1. ThreadsAreInOrder'
    BY <1>7, ThreadsStayInOrder DEF IInv
  <2>2. FootageIsInOrder'
    BY <1>7, FootageStaysInOrder DEF IInv
  <2> QED
    BY <1>7, <2>1, <2>2 DEF IInv, Typed
<1>9. OrphansAreAhead'
  <2> SUFFICES ASSUME NEW s \in Segments, IsRecording(s)
               PROVE  \E i \in DOMAIN todo'[Boot] :
                         todo'[Boot][i].do = "finalize" /\ todo'[Boot][i].segment = s
    BY <1>7 DEF OrphansAreAhead, IsRecording
  <2>1. PICK i \in DOMAIN steps : steps[i].do = "finalize" /\ steps[i].segment = s
    BY <1>6 DEF Orphans, IsRecording
  <2>2. todo \in [Threads -> Seq(Step)] /\ todo[Boot] \in Seq(Step) /\ todo[Boot] # <<>>
    BY <1>7 DEF IInv, ThreadsAreInOrder, StepsAreTyped, StepIsTaken
  <2>3. todo'[Boot] = steps \o Tail(todo[Boot])
    BY <1>7, <2>2 DEF Then
  <2>4. steps \in Seq(Step)
    <3>1. FollowsUp(Boot) \subseteq Step
      BY DEF FollowsUp
    <3> HIDE DEF FollowsUp
    <3> QED
      BY <1>5, <3>1
  <2>5. i \in DOMAIN todo'[Boot] /\ todo'[Boot][i] = steps[i]
    BY <2>2, <2>3, <2>4, Prepending
  <2> QED
    BY <2>1, <2>5
<1> QED
  BY <1>8, <1>9 DEF IInv

\* ... and finalized.
LEMMA FinalizeKeeps ==
    ASSUME ThreadAssumption, NoneAssumption, IInv, finalizeOrphan
    PROVE  IInv'
<1> DEFINE s == Arg(Boot).segment
           next == IF segment[s] = None \/ media[s].ms = 0 THEN None
                   ELSE [segment[s] EXCEPT !.status = "complete", !.ms = media[s].ms]
<1>1. /\ At(Boot, "finalize") /\ Then(Boot, <<>>)
      /\ UNCHANGED <<camera, job, used, media, writing, session, dbUp, stage, life, runs, unsure>>
  BY DEF finalizeOrphan, Query, rows, process, database, runtime
<1>2. Boot \in Threads
  BY DEF Threads
<1>3. todo[Boot] # <<>> /\ Arg(Boot) \in Step /\ Arg(Boot).do = "finalize" /\ stage = 1
  <2>1. todo[Boot] # <<>> /\ Arg(Boot) \in Step /\ Arg(Boot).do = "finalize"
        /\ Belongs("finalize", stage)
    BY <1>1, <1>2, NextStep DEF IInv
  <2> QED
    BY <2>1 DEF Belongs
<1>4. s \in Segments
  BY <1>3, StepHas
<1>5. segment' = [segment EXCEPT ![s] = next] /\ segment \in [Segments -> Segment \cup {None}]
      /\ media \in [Segments -> File \cup {None}]
  BY <1>4 DEF finalizeOrphan, IInv, Typed
<1>6. /\ next \in Segment \cup {None}
      /\ next # None => /\ segment[s] # None /\ next.status = "complete"
                        /\ next.camera = segment[s].camera /\ next.ms = media[s].ms
      /\ next = None => segment[s] = None \/ media[s].ms = 0
  <2>1. CASE segment[s] = None \/ media[s].ms = 0
    BY <2>1
  <2>2. CASE ~(segment[s] = None \/ media[s].ms = 0)
    <3>1. segment[s] \in Segment /\ media[s] \in File
      BY <1>4, <1>5, <2>2 DEF IInv, FootageIsInOrder, FilesAreInOrder
    <3>2. next = [camera |-> segment[s].camera, status |-> "complete",
                  run |-> segment[s].run, ms |-> media[s].ms]
      BY <2>2, <3>1 DEF Segment
    <3>3. next \in Segment
      BY <3>1, <3>2 DEF Segment, File
    <3> HIDE DEF next
    <3> QED
      BY <2>2, <3>2, <3>3, NoneAssumption
  <2> QED
    BY <2>1, <2>2
<1> HIDE DEF next
<1>7. \A q \in Segments : segment'[q] = IF q = s THEN next ELSE segment[q]
  BY <1>5
<1>8. Typed'
  <2>1. segment' \in [Segments -> Segment \cup {None}]
    BY <1>5, <1>6
  <2> QED
    BY <1>1, <2>1 DEF IInv, Typed
<1>9. ThreadsAreInOrder'
  <2>1. StepIsTaken(Boot)
    BY <1>1, <1>3, NothingFollows DEF StepIsTaken
  <2> QED
    BY <1>1, <1>2, <2>1, ThreadsStayInOrder DEF IInv
<1>10. OrphansAreAhead'
  <2> SUFFICES ASSUME todo'[Boot] # <<>>, NEW q \in Segments, IsRecording(q)'
               PROVE  \E i \in DOMAIN todo'[Boot] :
                         \/ todo'[Boot][i].do = "listOrphans"
                         \/ todo'[Boot][i].do = "finalize" /\ todo'[Boot][i].segment = q
    BY DEF OrphansAreAhead
  <2>1. q # s /\ IsRecording(q)
    BY <1>6, <1>7 DEF IsRecording
  <2>2. PICK i \in DOMAIN todo[Boot] :
           \/ todo[Boot][i].do = "listOrphans"
           \/ todo[Boot][i].do = "finalize" /\ todo[Boot][i].segment = q
    BY <1>3, <2>1 DEF IInv, OrphansAreAhead
  <2>3. todo \in [Threads -> Seq(Step)] /\ todo[Boot] \in Seq(Step) /\ <<>> \in Seq(Step)
    BY <1>2 DEF IInv, ThreadsAreInOrder, StepsAreTyped
  <2>4. todo'[Boot] = <<>> \o Tail(todo[Boot])
    BY <1>1, <1>2, <2>3 DEF Then
  <2>5. i # 1
    BY <1>3, <2>1, <2>2 DEF Arg
  <2>6. i \in 2 .. Len(todo[Boot])
    BY <2>3, <2>5
  <2>7. \E k \in DOMAIN todo'[Boot] : todo'[Boot][k] = todo[Boot][i]
    <3>1. \A k \in 2 .. Len(todo[Boot]) :
             k - 1 + Len(<<>>) \in DOMAIN todo'[Boot]
             /\ todo'[Boot][k - 1 + Len(<<>>)] = todo[Boot][k]
      BY <1>3, <2>3, <2>4, Prepending
    <3> QED
      BY <2>6, <3>1
  <2> QED
    BY <2>2, <2>7
<1>11. FootageIsInOrder'
  <2>1. FilesAreInOrder'
    BY <1>1, <1>6, <1>7 DEF IInv, FootageIsInOrder, FilesAreInOrder
  <2>2. RecordingIsOfThisRun'
    BY <1>1, <1>3 DEF RecordingIsOfThisRun
  <2>3. CompleteIsMeasured'
    BY <1>1, <1>6, <1>7 DEF IInv, FootageIsInOrder, CompleteIsMeasured
  <2>4. WritingIsOpen'
    BY <1>1, <1>3 DEF IInv, ThreadsAreInOrder, NothingRunsYet, WritingIsOpen
  <2>5. FootageIsKept'
    BY <1>1, <1>6, <1>7 DEF IInv, FootageIsInOrder, FootageIsKept
  <2> QED
    BY <2>1, <2>2, <2>3, <2>4, <2>5 DEF FootageIsInOrder
<1> QED
  BY <1>8, <1>9, <1>10, <1>11 DEF IInv

-----------------------------------------------------------------------------
(* Clients.                                                                *)

LEMMA CallKeeps ==
    ASSUME ThreadAssumption, IInv, NEW t \in Callers, NEW kind, NEW id \in Cameras \cup Jobs,
           NEW steps \in Seq(Step), Calls(t, kind, id, steps),
           \A i \in DOMAIN steps :
              /\ steps[i].do # "startStream"
              /\ steps[i].do = "createCamera" =>
                    steps[i].camera = id /\ id \notin used /\ Len(steps) = 1
    PROVE  IInv'
<1>1. /\ life = "up" /\ stage # 1 /\ todo' = [todo EXCEPT ![t] = steps]
      /\ used' = used \cup {id}
      /\ UNCHANGED <<camera, job, segment, media, writing, session, dbUp, stage, life, runs,
                     unsure>>
  BY DEF Calls, Clients, Done, footage, database, process, runtime
<1>2. t \in Threads /\ t # Boot
  BY ThreadAssumption DEF Threads
<1>3. StepsAreTyped' /\ CamerasAreMadeOnce' /\ todo'[Boot] = todo[Boot]
  <2>1. Typed /\ StepsAreTyped /\ CamerasAreMadeOnce /\ Boot \in Threads
    BY DEF IInv, ThreadsAreInOrder, Threads
  <2>2. \A i \in DOMAIN steps :
           /\ steps[i].do # "startStream"
           /\ steps[i].do = "createCamera" => steps[i].camera \in used' \ used /\ Len(steps) = 1
    BY <1>1
  <2>3. used \subseteq used' /\ UNCHANGED <<camera, session, media, writing>>
    BY <1>1
  <2> QED
    BY <1>1, <1>2, <2>1, <2>2, <2>3, StepsAreReplaced
<1>4. BootKeepsToItsStage' /\ NothingRunsYet' /\ OrphansAreAhead'
  BY <1>1, <1>3
  DEF IInv, ThreadsAreInOrder, BootKeepsToItsStage, NothingRunsYet, OrphansAreAhead
<1>5. FootageIsInOrder' /\ Typed'
  <2>1. Typed'
    BY <1>1 DEF IInv, Typed
  <2> QED
    BY <1>1, <2>1, FootageStaysInOrder DEF IInv
<1> QED
  BY <1>3, <1>4, <1>5 DEF IInv, ThreadsAreInOrder

LEMMA OneStep == \A x \in Step : <<x>> \in Seq(Step) /\ Len(<<x>>) = 1
                                 /\ \A i \in DOMAIN <<x>> : <<x>>[i] = x
  OBVIOUS

LEMMA CameraCallKeeps ==
    ASSUME ThreadAssumption, IInv, NEW t \in Callers, CameraCall(t)
    PROVE  IInv'
<1>1. PICK c \in Cameras, b \in BOOLEAN :
         LET new == [version |-> 1, motion |-> b]
         IN  \/ /\ c \notin used
                /\ Calls(t, "create", c,
                         << [do |-> "createCamera", camera |-> c, row |-> new] >>)
             \/ /\ c \in used
                /\ \/ /\ camera[c] # None => camera[c].version < MaxVersion
                      /\ Calls(t, "put", c,
                               << [do |-> "putCamera", camera |-> c, motion |-> b] >>)
                   \/ Calls(t, IF b THEN "start" ELSE "stop", c,
                            << [do |-> "getCamera", camera |-> c, start |-> b] >>)
                   \/ Calls(t, "delete", c, << [do |-> "deleteCamera", camera |-> c] >>)
  BY DEF CameraCall
<1> DEFINE r == [version |-> 1, motion |-> b]
           create == [do |-> "createCamera", camera |-> c, row |-> r]
<1>2. \/ c \notin used /\ Calls(t, "create", c, <<create>>)
      \/ \E kind, x : /\ x \in Step /\ x.do \notin {"startStream", "createCamera"}
                      /\ Calls(t, kind, c, <<x>>)
  <2>1. /\ [do |-> "putCamera", camera |-> c, motion |-> b] \in Step
        /\ [do |-> "getCamera", camera |-> c, start |-> b] \in Step
        /\ [do |-> "deleteCamera", camera |-> c] \in Step
    BY StepsThereAre DEF CameraSteps
  <2> QED
    BY <1>1, <2>1
<1>3. CASE c \notin used /\ Calls(t, "create", c, <<create>>)
  <2>1. create \in Step /\ create.camera = c /\ create.do = "createCamera"
    BY StepsThereAre DEF Row
  <2> HIDE DEF create
  <2>2. <<create>> \in Seq(Step) /\ Len(<<create>>) = 1
        /\ \A i \in DOMAIN <<create>> : <<create>>[i] = create
    BY <2>1, OneStep
  <2> QED
    BY <1>3, <2>1, <2>2, CallKeeps
<1>4. CASE \E kind, x : /\ x \in Step /\ x.do \notin {"startStream", "createCamera"}
                        /\ Calls(t, kind, c, <<x>>)
  <2>1. PICK kind, x : /\ x \in Step /\ x.do \notin {"startStream", "createCamera"}
                       /\ Calls(t, kind, c, <<x>>)
    BY <1>4
  <2>2. <<x>> \in Seq(Step) /\ \A i \in DOMAIN <<x>> : <<x>>[i] = x
    BY <2>1, OneStep
  <2> QED
    BY <2>1, <2>2, CallKeeps
<1> QED
  BY <1>2, <1>3, <1>4

LEMMA JobCallKeeps ==
    ASSUME ThreadAssumption, IInv, NEW t \in Callers, JobCall(t)
    PROVE  IInv'
<1> DEFINE Write(j, c, b, new) == [do |-> "writeJob", job |-> j, new |-> new,
                                   row |-> [camera |-> c, enabled |-> b]]
           Exists(c) == [do |-> "requireCamera", camera |-> c]
           Enable(j, b) == [do |-> "setJobEnabled", job |-> j, enabled |-> b]
           Delete(j) == [do |-> "deleteJob", job |-> j]
           Plain == {x \in Step : x.do \notin {"startStream", "createCamera"}}
<1>1. PICK j \in Jobs, c \in Cameras, b \in BOOLEAN : \E kind :
         \/ \E new \in BOOLEAN : Calls(t, kind, j, <<Exists(c), Write(j, c, b, new)>>)
         \/ Calls(t, kind, j, <<Write(j, c, b, FALSE)>>)
         \/ Calls(t, kind, j, <<Enable(j, b)>>)
         \/ Calls(t, kind, j, <<Delete(j)>>)
  BY DEF JobCall
<1>2. /\ \A new \in BOOLEAN : Write(j, c, b, new) \in Plain
      /\ Exists(c) \in Plain /\ Enable(j, b) \in Plain /\ Delete(j) \in Plain
  <2>1. [camera |-> c, enabled |-> b] \in JobRow
    BY DEF JobRow
  <2> QED
    BY <2>1, StepsThereAre DEF CameraSteps
<1> HIDE DEF Write, Exists, Enable, Delete
<1>3. \E kind : \E steps \in Seq(Plain) : Calls(t, kind, j, steps)
  <2>1. /\ \A new \in BOOLEAN : <<Exists(c), Write(j, c, b, new)>> \in Seq(Plain)
        /\ <<Write(j, c, b, FALSE)>> \in Seq(Plain) /\ <<Enable(j, b)>> \in Seq(Plain)
        /\ <<Delete(j)>> \in Seq(Plain)
    <3> HIDE DEF Plain
    <3>1. /\ \A x \in Plain : <<x>> \in Seq(Plain)
          /\ \A x, y \in Plain : <<x, y>> \in Seq(Plain)
      OBVIOUS
    <3> QED
      BY <1>2, <3>1
  <2> QED
    BY <1>1, <2>1
<1>4. PICK kind : \E steps \in Seq(Plain) : Calls(t, kind, j, steps)
  BY <1>3
<1>5. PICK steps \in Seq(Plain) : Calls(t, kind, j, steps)
  BY <1>4
<1>6. steps \in Seq(Step) /\ \A i \in DOMAIN steps : steps[i] \in Plain
  <2>1. Plain \subseteq Step
    OBVIOUS
  <2> HIDE DEF Plain
  <2> QED
    BY <1>5, <2>1
<1>7. \A i \in DOMAIN steps : steps[i].do # "startStream" /\ steps[i].do # "createCamera"
  BY <1>6
<1> HIDE DEF Plain
<1> QED
  BY <1>5, <1>6, <1>7, CallKeeps

-----------------------------------------------------------------------------
(* Recording.                                                              *)

\* What a camera that has a stream or a file open does with its files.
LEMMA RecorderKeepsThreads ==
    ASSUME ThreadsAreInOrder, NEW c \in Cameras, session[c] # None \/ writing[c] # 0,
           UNCHANGED <<camera, used, session, todo, stage, life>>,
           \A d \in Cameras : d # c => writing'[d] = writing[d],
           \A s \in Segments : media'[s] # None =>
              \/ media'[s].camera = c
              \/ media[s] # None /\ media[s].camera = media'[s].camera
    PROVE  ThreadsAreInOrder'
<1> USE DEF ThreadsAreInOrder
<1>1. stage # 1 /\ life # "down"
  BY DEF NothingRunsYet
<1>2. StepsAreTyped' /\ BootKeepsToItsStage' /\ NothingRunsYet'
  BY <1>1 DEF StepsAreTyped, BootKeepsToItsStage, NothingRunsYet
<1>3. \A t \in Threads : Creates(t)' = Creates(t) /\ Starts(t)' = Starts(t)
  BY DEF Creates, Starts, CamerasOf
<1>4. ASSUME NEW d \in Cameras, Unmade(d)' PROVE Traceless(d)'
  <2>1. Traceless(d)
    BY <1>3, <1>4 DEF Unmade, CamerasAreMadeOnce
  <2>2. d # c
    BY <2>1 DEF Traceless
  <2> QED
    BY <1>3, <2>1, <2>2 DEF Traceless
<1>5. \A t \in Threads : Creates(t)' \subseteq used' /\ (Creates(t)' # {} => Len(todo'[t]) = 1)
  BY <1>3 DEF CamerasAreMadeOnce
<1>6. \A t, u \in Threads : t # u => Creates(t)' \cap Creates(u)' = {}
  BY <1>3 DEF CamerasAreMadeOnce
<1> QED
  BY <1>2, <1>4, <1>5, <1>6 DEF CamerasAreMadeOnce

LEMMA RecorderKeepsOrphans ==
    ASSUME IInv, NEW c \in Cameras, session[c] # None \/ writing[c] # 0, stage' = stage
    PROVE  OrphansAreAhead'
  BY DEF IInv, ThreadsAreInOrder, NothingRunsYet, OrphansAreAhead

LEMMA OpenKeeps ==
    ASSUME NoneAssumption, BoundsAssumption, IInv, NEW c \in Cameras, OpenSegment(c)
    PROVE  IInv'
<1> DEFINE s == Cardinality(Opened) + 1
           file == [camera |-> c, ms |-> 0, listed |-> RowAccepted(c)]
           row == [camera |-> c, status |-> "recording", run |-> runs, ms |-> 2]
           next == IF RowAccepted(c) THEN row ELSE None
<1>1. PICK n \in 0 .. MaxSegments : \A q \in Segments : media[q] # None <=> q <= n
  BY DEF IInv, FootageIsInOrder, FilesAreInOrder
<1>2. n \in Nat /\ MaxSegments \in Nat
  BY BoundsAssumption
<1>3. s = n + 1
  <2>1. Opened = 1 .. n
    BY <1>1, <1>2 DEF Opened, Segments
  <2>2. Cardinality(1 .. n) = n
    BY <1>2, FS_Interval
  <2> QED
    BY <2>1, <2>2
<1>4. /\ session[c] # None /\ writing[c] = 0 /\ s \in Segments
      /\ writing' = [writing EXCEPT ![c] = s]
      /\ media' = [media EXCEPT ![s] = file] /\ segment' = [segment EXCEPT ![s] = next]
      /\ UNCHANGED <<camera, job, used, life, runs, stage, dbUp, session, todo, unsure>>
  BY DEF OpenSegment, rows, process, database, runtime
<1>5. file \in File /\ file.camera = c /\ file.ms = 0 /\ file.listed = RowAccepted(c)
      /\ file # None
  <2>1. RowAccepted(c) \in BOOLEAN
    BY DEF IInv, Typed, RowAccepted
  <2>2. file \in File
    BY <2>1 DEF File
  <2> HIDE DEF File
  <2> QED
    BY <2>2, NoneAssumption
<1>6. row \in Segment /\ row # None /\ row.status = "recording" /\ row.run = runs /\ row.camera = c
  <2>1. row \in Segment
    BY DEF Segment, IInv, Typed
  <2> HIDE DEF Segment
  <2> QED
    BY <2>1, NoneAssumption
<1> HIDE DEF s, file, row
<1>7. /\ \A q \in Segments : media'[q] = IF q = s THEN file ELSE media[q]
      /\ \A q \in Segments : segment'[q] = IF q = s THEN next ELSE segment[q]
      /\ \A d \in Cameras : writing'[d] = IF d = c THEN s ELSE writing[d]
  BY <1>4 DEF IInv, Typed
<1>8. Typed'
  <2>1. media' \in [Segments -> File \cup {None}]
    BY <1>4, <1>5 DEF IInv, Typed
  <2>2. segment' \in [Segments -> Segment \cup {None}]
    BY <1>4, <1>6 DEF IInv, Typed
  <2>3. s \in 0 .. MaxSegments
    BY <1>2, <1>4 DEF Segments
  <2>4. writing' \in [Cameras -> 0 .. MaxSegments]
    BY <1>4, <2>3 DEF IInv, Typed
  <2> QED
    BY <1>4, <2>1, <2>2, <2>4 DEF IInv, Typed
<1>9. ThreadsAreInOrder' /\ OrphansAreAhead'
  BY <1>4, <1>5, <1>7, RecorderKeepsThreads, RecorderKeepsOrphans DEF IInv
<1>10. FootageIsInOrder'
  <2>1. FilesAreInOrder'
    <3>1. n + 1 \in 0 .. MaxSegments
      BY <1>2, <1>3, <1>4 DEF Segments
    <3>2. ASSUME NEW q \in Segments PROVE media'[q] # None <=> q <= n + 1
      BY <1>1, <1>2, <1>3, <1>5, <1>7, <3>1 DEF Segments
    <3>3. ASSUME NEW q \in Segments, segment'[q] # None
          PROVE  media'[q] # None /\ segment'[q].camera = media'[q].camera
      BY <1>5, <1>6, <1>7, <3>3 DEF IInv, FootageIsInOrder, FilesAreInOrder
    <3> QED
      BY <3>1, <3>2, <3>3 DEF FilesAreInOrder
  <2>2. RecordingIsOfThisRun'
    BY <1>4, <1>6, <1>7 DEF IInv, FootageIsInOrder, RecordingIsOfThisRun, IsRecording
  <2>3. CompleteIsMeasured'
    BY <1>6, <1>7 DEF IInv, FootageIsInOrder, CompleteIsMeasured
  <2>4. FootageIsKept'
    BY <1>4, <1>5, <1>7 DEF IInv, FootageIsInOrder, FootageIsKept
  <2>5. WritingIsOpen'
    <3> SUFFICES ASSUME NEW d \in Cameras, writing'[d] # 0
                 PROVE  WritesWhatIsOpen(d, writing[d])'
      BY DEF WritingIsOpen
    <3>1. CASE d = c
      <4>1. writing'[d] = s /\ media'[s] = file /\ segment'[s] = next
        BY <1>4, <1>7, <3>1
      <4>2. RowAccepted(c) /\ camera'[c] # None => segment'[s] # None
        BY <1>6, <4>1
      <4>3. segment'[s] # None => segment'[s].status = "recording"
        BY <1>6, <4>1
      <4> QED
        BY <1>5, <3>1, <4>1, <4>2, <4>3 DEF WritesWhatIsOpen, IsRecording
    <3>2. CASE d # c
      <4>1. PICK q \in Segments : q = writing[d]
        BY <1>7, <3>2 DEF IInv, Typed, Segments
      <4>2. writing'[d] = q /\ WritesWhatIsOpen(d, q)
        BY <1>7, <3>2, <4>1 DEF IInv, FootageIsInOrder, WritingIsOpen
      <4>3. q # s
        <5>1. q <= n
          BY <1>1, <4>2 DEF WritesWhatIsOpen
        <5> QED
          BY <1>2, <1>3, <5>1
      <4>4. media'[q] = media[q] /\ segment'[q] = segment[q] /\ camera' = camera
        BY <1>4, <1>7, <4>3
      <4> QED
        BY <4>2, <4>4 DEF WritesWhatIsOpen, IsRecording
    <3> QED
      BY <3>1, <3>2
  <2> QED
    BY <2>1, <2>2, <2>3, <2>4, <2>5 DEF FootageIsInOrder
<1> QED
  BY <1>8, <1>9, <1>10 DEF IInv

LEMMA WriteKeeps ==
    ASSUME NoneAssumption, IInv, NEW c \in Cameras, WriteSegment(c)
    PROVE  IInv'
<1>1. PICK s \in Segments : s = writing[c]
  BY DEF WriteSegment, IInv, Typed, Segments
<1>2. WritesWhatIsOpen(c, s)
  BY <1>1 DEF WriteSegment, IInv, FootageIsInOrder, WritingIsOpen
<1> DEFINE file == [camera |-> c, ms |-> 1, listed |-> media[s].listed]
<1>3. media[s] \in File
  BY <1>2 DEF WritesWhatIsOpen, IInv, Typed
<1>4. file = [media[s] EXCEPT !.ms = 1] /\ file \in File
      /\ file.camera = c /\ file.listed = media[s].listed
  BY <1>2, <1>3 DEF File, WritesWhatIsOpen
<1>5. file # None
  BY <1>4, NoneAssumption
<1>6. /\ writing[c] # 0 /\ media' = [media EXCEPT ![s] = file]
      /\ UNCHANGED <<camera, job, used, segment, writing, life, runs, stage, dbUp, session,
                     todo, unsure>>
  BY <1>1, <1>4 DEF WriteSegment, rows, process, database, runtime
<1> HIDE DEF file
<1>7. \A q \in Segments : media'[q] = IF q = s THEN file ELSE media[q]
  BY <1>6 DEF IInv, Typed
<1>8. Typed'
  <2>1. media' \in [Segments -> File \cup {None}]
    BY <1>4, <1>6 DEF IInv, Typed
  <2> QED
    BY <1>6, <2>1 DEF IInv, Typed
<1>9. ThreadsAreInOrder' /\ OrphansAreAhead'
  BY <1>4, <1>6, <1>7, RecorderKeepsThreads, RecorderKeepsOrphans DEF IInv
<1>10. FootageIsInOrder'
  <2>1. \A q \in Segments : /\ media'[q] # None <=> media[q] # None
                            /\ media'[q] # None => media'[q].camera = media[q].camera
                                                   /\ media'[q].listed = media[q].listed
    BY <1>2, <1>4, <1>5, <1>7 DEF WritesWhatIsOpen
  <2>2. FilesAreInOrder'
    BY <1>6, <2>1 DEF IInv, FootageIsInOrder, FilesAreInOrder
  <2>3. RecordingIsOfThisRun'
    BY <1>6 DEF IInv, FootageIsInOrder, RecordingIsOfThisRun, IsRecording
  <2>4. CompleteIsMeasured'
    BY <1>2, <1>6, <1>7
    DEF IInv, FootageIsInOrder, CompleteIsMeasured, WritesWhatIsOpen, IsRecording
  <2>5. FootageIsKept'
    <3> SUFFICES ASSUME NEW q \in Segments, media'[q] # None, media'[q].listed, media'[q].ms > 0,
                        camera[media'[q].camera] # None
                 PROVE  segment[q] # None
      BY <1>6 DEF FootageIsKept
    <3>1. CASE q = s
      BY <1>2, <1>4, <1>7, <3>1 DEF WritesWhatIsOpen
    <3>2. CASE q # s
      BY <1>7, <3>2 DEF IInv, FootageIsInOrder, FootageIsKept
    <3> QED
      BY <3>1, <3>2
  <2>6. WritingIsOpen'
    <3> SUFFICES ASSUME NEW d \in Cameras, writing[d] # 0 PROVE WritesWhatIsOpen(d, writing[d])'
      BY <1>6 DEF WritingIsOpen
    <3>1. PICK q \in Segments : q = writing[d]
      BY DEF IInv, Typed, Segments
    <3>2. WritesWhatIsOpen(d, q)
      BY <3>1 DEF IInv, FootageIsInOrder, WritingIsOpen
    <3>3. writing'[d] = q /\ segment' = segment /\ camera' = camera
      BY <1>6, <3>1
    <3>4. media'[q] # None /\ media'[q].camera = d /\ media'[q].listed = media[q].listed
      BY <2>1, <3>2 DEF WritesWhatIsOpen
    <3> QED
      BY <3>2, <3>3, <3>4 DEF WritesWhatIsOpen, IsRecording
  <2> QED
    BY <2>2, <2>3, <2>4, <2>5, <2>6 DEF FootageIsInOrder
<1> QED
  BY <1>8, <1>9, <1>10 DEF IInv

LEMMA CloseKeeps ==
    ASSUME NoneAssumption, BoundsAssumption, IInv, NEW c \in Cameras, CloseSegment(c)
    PROVE  IInv'
<1>1. PICK s \in Segments : s = writing[c]
  BY DEF CloseSegment, IInv, Typed, Segments
<1>2. WritesWhatIsOpen(c, s)
  BY <1>1 DEF CloseSegment, IInv, FootageIsInOrder, WritingIsOpen
<1>3. media[s] \in File
  BY <1>2 DEF WritesWhatIsOpen, IInv, Typed
<1> DEFINE file == [media[s] EXCEPT !.listed = TRUE]
           row == [camera |-> c, status |-> "complete", run |-> runs, ms |-> media[s].ms]
<1>4. file \in File /\ file.camera = c /\ file.ms = media[s].ms
  <2>1. ASSUME NEW f \in File
        PROVE  /\ [f EXCEPT !.listed = TRUE] \in File
               /\ [f EXCEPT !.listed = TRUE].camera = f.camera
               /\ [f EXCEPT !.listed = TRUE].ms = f.ms
    BY DEF File
  <2>2. media[s].camera = c
    BY <1>2 DEF WritesWhatIsOpen
  <2> HIDE DEF File
  <2> QED
    BY <1>3, <2>1, <2>2
<1>5. row \in Segment /\ row.camera = c /\ row.status = "complete" /\ row.ms = media[s].ms
  BY <1>3 DEF File, Segment, IInv, Typed
<1>6. file # None /\ row # None
  BY <1>4, <1>5, NoneAssumption
<1>7. /\ writing[c] # 0 /\ writing' = [writing EXCEPT ![c] = 0]
      /\ \/ media' = [media EXCEPT ![s] = file] /\ segment' = [segment EXCEPT ![s] = row]
         \/ ~RowAccepted(c) /\ UNCHANGED <<segment, media>>
      /\ UNCHANGED <<camera, job, used, life, runs, stage, dbUp, session, todo, unsure>>
  BY <1>1, <1>4 DEF CloseSegment, rows, process, database, runtime
<1> HIDE DEF file, row
<1>8. \A d \in Cameras : writing'[d] = IF d = c THEN 0 ELSE writing[d]
  BY <1>7 DEF IInv, Typed
<1>9. ASSUME NEW q \in Segments
      PROVE  \/ q = s /\ media'[q] = file /\ segment'[q] = row
             \/ media'[q] = media[q] /\ segment'[q] = segment[q]
  BY <1>7 DEF IInv, Typed
<1>10. Typed'
  <2>1. media' \in [Segments -> File \cup {None}]
    BY <1>4, <1>7 DEF IInv, Typed
  <2>2. segment' \in [Segments -> Segment \cup {None}]
    BY <1>5, <1>7 DEF IInv, Typed
  <2>3. 0 \in 0 .. MaxSegments
    BY BoundsAssumption
  <2>4. writing' \in [Cameras -> 0 .. MaxSegments]
    BY <1>7, <2>3 DEF IInv, Typed
  <2> QED
    BY <1>7, <2>1, <2>2, <2>4 DEF IInv, Typed
<1>11. ThreadsAreInOrder' /\ OrphansAreAhead'
  <2>1. \A q \in Segments : media'[q] # None =>
           \/ media'[q].camera = c
           \/ media[q] # None /\ media[q].camera = media'[q].camera
    BY <1>4, <1>9
  <2>2. OrphansAreAhead'
    BY <1>7, RecorderKeepsOrphans
  <2> QED
    BY <1>7, <1>8, <2>1, <2>2, RecorderKeepsThreads DEF IInv
<1>12. FootageIsInOrder'
  <2>1. media[s] # None /\ media[s].camera = c
    BY <1>2 DEF WritesWhatIsOpen
  <2>2. FilesAreInOrder'
    <3>1. PICK n \in 0 .. MaxSegments : \A q \in Segments : media[q] # None <=> q <= n
      BY DEF IInv, FootageIsInOrder, FilesAreInOrder
    <3>2. ASSUME NEW q \in Segments PROVE media'[q] # None <=> q <= n
      BY <1>6, <1>9, <2>1, <3>1
    <3>3. ASSUME NEW q \in Segments, segment'[q] # None
          PROVE  media'[q] # None /\ segment'[q].camera = media'[q].camera
      BY <1>4, <1>5, <1>6, <1>9, <3>3 DEF IInv, FootageIsInOrder, FilesAreInOrder
    <3> QED
      BY <3>1, <3>2, <3>3 DEF FilesAreInOrder
  <2>3. RecordingIsOfThisRun'
    BY <1>5, <1>7, <1>9 DEF IInv, FootageIsInOrder, RecordingIsOfThisRun, IsRecording
  <2>4. CompleteIsMeasured'
    BY <1>4, <1>5, <1>9 DEF IInv, FootageIsInOrder, CompleteIsMeasured
  <2>5. FootageIsKept'
    BY <1>6, <1>7, <1>9 DEF IInv, FootageIsInOrder, FootageIsKept
  <2>6. WritingIsOpen'
    <3> SUFFICES ASSUME NEW d \in Cameras, writing'[d] # 0 PROVE WritesWhatIsOpen(d, writing[d])'
      BY DEF WritingIsOpen
    <3>1. d # c /\ writing'[d] = writing[d]
      BY <1>8
    <3>2. PICK q \in Segments : q = writing[d]
      BY <3>1 DEF IInv, Typed, Segments
    <3>3. WritesWhatIsOpen(d, q) /\ writing'[d] = q
      BY <3>1, <3>2 DEF IInv, FootageIsInOrder, WritingIsOpen
    <3>4. q # s
      BY <2>1, <3>1, <3>3 DEF WritesWhatIsOpen
    <3>5. media'[q] = media[q] /\ segment'[q] = segment[q] /\ camera' = camera
      BY <1>7, <1>9, <3>4
    <3> QED
      BY <3>3, <3>5 DEF WritesWhatIsOpen, IsRecording
  <2> QED
    BY <2>2, <2>3, <2>4, <2>5, <2>6 DEF FootageIsInOrder
<1> QED
  BY <1>10, <1>11, <1>12 DEF IInv

-----------------------------------------------------------------------------
(* The process and the database.                                           *)

\* What is in memory is gone; of files that were being written nothing may be
\* left to play.
LEMMA LossKeeps ==
    ASSUME ThreadAssumption, NoneAssumption, BoundsAssumption, IInv, MemoryIsLost,
           NEW lost \in SUBSET {writing[c] : c \in Cameras},
           media' = [s \in Segments |->
                        IF s \in lost THEN [media[s] EXCEPT !.ms = 0] ELSE media[s]]
    PROVE  IInv'
<1>1. /\ session' = [c \in Cameras |-> None] /\ writing' = [c \in Cameras |-> 0]
      /\ todo' = [t \in Threads |-> <<>>] /\ life' = "down" /\ unsure' = {}
      /\ UNCHANGED <<camera, job, used, segment, runs, stage, dbUp>>
  BY DEF MemoryIsLost, rows, database
<1>2. ASSUME NEW s \in Segments, s \in lost
      PROVE  /\ media[s] \in File /\ media'[s] = [media[s] EXCEPT !.ms = 0]
             /\ segment[s] # None => IsRecording(s)
  <2>1. PICK c \in Cameras : s = writing[c]
    BY <1>2
  <2>2. writing[c] # 0
    BY <2>1 DEF Segments
  <2>3. WritesWhatIsOpen(c, s)
    BY <2>1, <2>2 DEF IInv, FootageIsInOrder, WritingIsOpen
  <2> QED
    BY <1>2, <2>3 DEF WritesWhatIsOpen, IInv, Typed
<1>3. ASSUME NEW s \in Segments
      PROVE  /\ media'[s] \in File \cup {None} /\ (media'[s] # None <=> media[s] # None)
             /\ media'[s] # None => /\ media'[s].camera = media[s].camera
                                    /\ media'[s].listed = media[s].listed
             /\ \/ media'[s] = media[s]
                \/ s \in lost /\ media'[s].ms = 0
  <2>1. CASE s \in lost
    <3>1. media[s] \in File /\ media'[s] = [media[s] EXCEPT !.ms = 0]
      BY <1>2, <2>1
    <3>2. media'[s] = [camera |-> media[s].camera, ms |-> 0, listed |-> media[s].listed]
      BY <3>1 DEF File
    <3>3. media'[s] \in File
      BY <3>1, <3>2 DEF File
    <3>4. media[s] # None /\ media'[s] # None
      BY <3>1, <3>3, NoneAssumption
    <3> QED
      BY <2>1, <3>2, <3>3, <3>4
  <2>2. CASE s \notin lost
    <3>1. media'[s] = media[s]
      BY <2>2
    <3>2. media[s] \in File \cup {None}
      BY DEF IInv, Typed
    <3>3. media'[s] \in File \cup {None} /\ (media'[s] # None <=> media[s] # None)
      BY <3>1, <3>2
    <3>4. media'[s].camera = media[s].camera /\ media'[s].listed = media[s].listed
      BY <3>1
    <3> QED
      BY <3>1, <3>3, <3>4
  <2> QED
    BY <2>1, <2>2
<1>4. Typed'
  <2>1. media' \in [Segments -> File \cup {None}]
    BY <1>3
  <2>2. 0 \in 0 .. MaxSegments
    BY BoundsAssumption
  <2> QED
    BY <1>1, <2>1, <2>2 DEF IInv, Typed
<1>5. ThreadsAreInOrder' /\ OrphansAreAhead'
  <2>1. \A t \in Threads : todo'[t] = <<>>
    BY <1>1
  <2>2. StepsAreTyped'
    BY <1>1 DEF StepsAreTyped
  <2>3. BootKeepsToItsStage' /\ NothingRunsYet' /\ OrphansAreAhead'
    BY <1>1, <2>1 DEF BootKeepsToItsStage, NothingRunsYet, OrphansAreAhead, Threads
  <2>4. \A t \in Threads : Creates(t)' = {} /\ Starts(t)' = {}
    BY <2>1 DEF Creates, Starts, CamerasOf
  <2>5. ASSUME NEW c \in Cameras, Unmade(c)' PROVE Traceless(c)'
    <3>1. Traceless(c)
      BY <1>1, <2>4, <2>5 DEF Unmade, IInv, ThreadsAreInOrder, CamerasAreMadeOnce
    <3> QED
      BY <1>1, <1>3, <2>4, <3>1 DEF Traceless
  <2>6. CamerasAreMadeOnce'
    BY <2>4, <2>5 DEF CamerasAreMadeOnce
  <2> QED
    BY <2>2, <2>3, <2>6 DEF ThreadsAreInOrder
<1>6. FootageIsInOrder'
  <2>1. FilesAreInOrder'
    BY <1>1, <1>3 DEF IInv, FootageIsInOrder, FilesAreInOrder
  <2>2. RecordingIsOfThisRun'
    BY <1>1 DEF IInv, FootageIsInOrder, RecordingIsOfThisRun, IsRecording
  <2>3. CompleteIsMeasured'
    BY <1>1, <1>2, <1>3 DEF IInv, FootageIsInOrder, CompleteIsMeasured, IsRecording
  <2>4. WritingIsOpen'
    BY <1>1 DEF WritingIsOpen
  <2>5. FootageIsKept'
    BY <1>1, <1>3 DEF IInv, FootageIsInOrder, FootageIsKept
  <2> QED
    BY <2>1, <2>2, <2>3, <2>4, <2>5 DEF FootageIsInOrder
<1> QED
  BY <1>4, <1>5, <1>6 DEF IInv

LEMMA CrashKeeps ==
    ASSUME ThreadAssumption, NoneAssumption, BoundsAssumption, IInv, Crash \/ Exit
    PROVE  IInv'
<1>1. CASE Crash
  BY <1>1, LossKeeps DEF Crash
<1>2. CASE Exit
  <2>1. media' = [s \in Segments |-> IF s \in {} THEN [media[s] EXCEPT !.ms = 0] ELSE media[s]]
    BY <1>2 DEF Exit, IInv, Typed
  <2>2. {} \in SUBSET {writing[c] : c \in Cameras} /\ MemoryIsLost
    BY <1>2 DEF Exit
  <2> QED
    BY <2>1, <2>2, LossKeeps
<1> QED
  BY <1>1, <1>2

\* The process ends, in steps, and starts again; the database comes and goes.
LEMMA ProcessKeeps ==
    ASSUME ThreadAssumption, IInv,
           DbGoes \/ DbReturns \/ Shutdown \/ StopAi \/ Launch \/ UNCHANGED vars
    PROVE  IInv'
<1>1. /\ UNCHANGED <<camera, job, used, segment, media, writing, session, todo, unsure>>
      /\ dbUp' \in BOOLEAN
      /\ \/ /\ stage' = stage /\ runs' = runs
            /\ \/ life' = life
               \/ life # "down" /\ life' \in {"closing", "aiStopped"}
         \/ life = "down" /\ life' = "up" /\ stage' = 1 /\ runs' = runs + 1
  <2> USE DEF rows, footage, process, database, runtime
  <2>1. dbUp \in BOOLEAN
    BY DEF IInv, Typed
  <2>2. CASE DbGoes \/ DbReturns
    <3>1. /\ UNCHANGED <<camera, job, used, segment, media, writing, session, todo, unsure>>
          /\ stage' = stage /\ runs' = runs /\ life' = life
      BY <2>2 DEF DbGoes, DbReturns
    <3>2. dbUp' \in BOOLEAN
      BY <2>2 DEF DbGoes, DbReturns
    <3> QED
      BY <3>1, <3>2
  <2>3. CASE Shutdown \/ StopAi
    BY <2>1, <2>3 DEF Shutdown, StopAi
  <2>4. CASE Launch
    BY <2>1, <2>4 DEF Launch
  <2>5. CASE UNCHANGED vars
    <3>1. /\ UNCHANGED <<camera, job, used, segment, media, writing, session, todo, unsure>>
          /\ stage' = stage /\ runs' = runs /\ life' = life
      BY <2>5 DEF vars
    <3>2. dbUp' \in BOOLEAN
      BY <2>1, <2>5 DEF vars
    <3> QED
      BY <3>1, <3>2
  <2> QED
    BY <2>2, <2>3, <2>4, <2>5
<1>2. Typed'
  BY <1>1 DEF IInv, Typed, Done
<1>3. \A t \in Threads : Creates(t)' = Creates(t) /\ Starts(t)' = Starts(t)
  BY <1>1 DEF Creates, Starts, CamerasOf
<1>4. StepsAreTyped' /\ CamerasAreMadeOnce'
  <2>1. StepsAreTyped'
    BY <1>1 DEF IInv, ThreadsAreInOrder, StepsAreTyped
  <2>2. \A c \in Cameras : Unmade(c)' => Traceless(c)'
    BY <1>1, <1>3 DEF IInv, ThreadsAreInOrder, CamerasAreMadeOnce, Unmade, Traceless
  <2>3. /\ \A t \in Threads : Creates(t)' \subseteq used' /\ (Creates(t)' # {} => Len(todo'[t]) = 1)
        /\ \A t, u \in Threads : t # u => Creates(t)' \cap Creates(u)' = {}
    BY <1>1, <1>3 DEF IInv, ThreadsAreInOrder, CamerasAreMadeOnce
  <2> QED
    BY <2>1, <2>2, <2>3 DEF CamerasAreMadeOnce
<1>5. BootKeepsToItsStage' /\ NothingRunsYet' /\ OrphansAreAhead'
  <2>1. CASE /\ stage' = stage /\ runs' = runs
            /\ (life' = life \/ (life # "down" /\ life' \in {"closing", "aiStopped"}))
    BY <1>1, <2>1
    DEF IInv, ThreadsAreInOrder, BootKeepsToItsStage, NothingRunsYet, OrphansAreAhead, IsRecording
  <2>2. CASE life = "down"
    BY <1>1, <2>2
    DEF IInv, ThreadsAreInOrder, BootKeepsToItsStage, NothingRunsYet, OrphansAreAhead
  <2> QED
    BY <1>1, <2>1, <2>2
<1>6. FootageIsInOrder'
  <2>1. FilesAreInOrder' /\ CompleteIsMeasured' /\ FootageIsKept'
    BY <1>1 DEF IInv, FootageIsInOrder, FilesAreInOrder, CompleteIsMeasured, FootageIsKept
  <2>2. RecordingIsOfThisRun'
    BY <1>1 DEF IInv, FootageIsInOrder, RecordingIsOfThisRun, IsRecording
  <2>3. WritingIsOpen'
    BY <1>1 DEF IInv, FootageIsInOrder, WritingIsOpen, WritesWhatIsOpen, IsRecording
  <2> QED
    BY <2>1, <2>2, <2>3 DEF FootageIsInOrder
<1> QED
  BY <1>2, <1>4, <1>5, <1>6 DEF IInv, ThreadsAreInOrder

-----------------------------------------------------------------------------
(* The theorem.                                                            *)

LEMMA InitIsInOrder ==
    ASSUME ThreadAssumption, BoundsAssumption, Init
    PROVE  IInv
<1> USE DEF Init
<1>1. Typed
  BY BoundsAssumption DEF Typed, Done
<1>2. \A t \in Threads : todo[t] = <<>>
  OBVIOUS
<1>3. \A t \in Threads : Creates(t) = {} /\ Starts(t) = {}
  BY <1>2 DEF Creates, Starts, CamerasOf
<1>4. ThreadsAreInOrder
  <2>1. StepsAreTyped
    BY DEF StepsAreTyped
  <2>2. BootKeepsToItsStage /\ NothingRunsYet
    BY <1>2 DEF BootKeepsToItsStage, NothingRunsYet, Threads
  <2>3. CamerasAreMadeOnce
    BY <1>3 DEF CamerasAreMadeOnce, Traceless
  <2> QED
    BY <2>1, <2>2, <2>3 DEF ThreadsAreInOrder
<1>5. OrphansAreAhead
  BY <1>2 DEF OrphansAreAhead, Threads
<1>6. FootageIsInOrder
  <2>1. FilesAreInOrder
    <3>1. 0 \in 0 .. MaxSegments /\ \A s \in Segments : s > 0 /\ s \in Nat
      BY BoundsAssumption DEF Segments
    <3> QED
      BY <3>1 DEF FilesAreInOrder
  <2>2. RecordingIsOfThisRun /\ CompleteIsMeasured /\ WritingIsOpen /\ FootageIsKept
    BY DEF RecordingIsOfThisRun, CompleteIsMeasured, WritingIsOpen, FootageIsKept
  <2> QED
    BY <2>1, <2>2 DEF FootageIsInOrder
<1> QED
  BY <1>1, <1>4, <1>5, <1>6 DEF IInv

LEMMA ThreadStepKeeps ==
    ASSUME ThreadAssumption, NoneAssumption, BoundsAssumption, IInv,
           \/ \E t \in Callers : CallerStep(t)
           \/ \E t \in Threads : SharedStep(t)
    PROVE  IInv'
<1>1. CASE \E t \in Callers : CallerStep(t)
  <2>1. PICK t \in Callers : CallerStep(t)
    BY <1>1
  <2>2. t \in Threads
    BY DEF Threads
  <2>3. CASE createCamera(t) \/ putCamera(t) \/ deleteCamera(t) \/ getCamera(t)
    BY <2>3, CreateKeeps, PutKeeps, DeleteKeeps, GetKeeps
  <2>4. CASE requireCamera(t) \/ writeJob(t) \/ setJobEnabled(t) \/ deleteJob(t)
    BY <2>4, RequireKeeps, WriteJobKeeps, EnableKeeps, DeleteJobKeeps
  <2>5. CASE stopStream(t) \/ cleanupStream(t)
    BY <2>2, <2>5, StopKeeps, CleanupKeeps
  <2>6. CASE motionOff(t) \/ removeJob(t) \/ removeCamera(t)
    <3>1. {"motionOff", "removeJob", "removeCamera"} \cap SettlesOrphans = {}
      BY DEF SettlesOrphans
    <3> QED
      BY <2>2, <2>6, <3>1, AiCallKeeps DEF motionOff, removeJob, removeCamera
  <2> QED
    BY <2>1, <2>3, <2>4, <2>5, <2>6 DEF CallerStep
<1>2. CASE \E t \in Threads : SharedStep(t)
  <2>1. PICK t \in Threads : SharedStep(t)
    BY <1>2
  <2>2. CASE startStream(t) \/ fetchCamera(t) \/ QueryThrows(t)
    BY <2>2, StartKeeps, FetchKeeps, ThrowKeeps
  <2>3. CASE tellMotion(t) \/ applyJob(t)
    <3>1. {"tellMotion", "applyJob"} \cap SettlesOrphans = {}
      BY DEF SettlesOrphans
    <3> QED
      BY <2>3, <3>1, AiCallKeeps DEF tellMotion, applyJob
  <2> QED
    BY <2>1, <2>2, <2>3 DEF SharedStep
<1> QED
  BY <1>1, <1>2

LEMMA NextKeeps == IInv /\ [Next]_vars => IInv'
<1> SUFFICES ASSUME IInv, [Next]_vars PROVE IInv'
  OBVIOUS
<1> USE ThreadAssumption, NoneAssumption, BoundsAssumption, IdsAssumption
<1>1. CASE \/ \E t \in Callers : CallerStep(t)
           \/ \E t \in Threads : SharedStep(t)
  BY <1>1, ThreadStepKeeps
<1>2. CASE \E t \in Callers : CameraCall(t) \/ JobCall(t)
  BY <1>2, CameraCallKeeps, JobCallKeeps
<1>3. CASE BeginStage \/ EndStage \/ listOrphans \/ finalizeOrphan
  BY <1>3, BeginKeeps, EndStageKeeps, ListOrphansKeeps, FinalizeKeeps
<1>4. CASE startAllStreams \/ startAllJobs
  BY <1>4, ListStreamsKeeps, ListJobsKeeps
<1>5. CASE \E c \in Cameras : Recorder(c)
  BY <1>5, OpenKeeps, WriteKeeps, CloseKeeps DEF Recorder
<1>6. CASE Crash \/ Exit
  BY <1>6, CrashKeeps
<1>7. CASE DbGoes \/ DbReturns \/ Shutdown \/ StopAi \/ Launch \/ UNCHANGED vars
  BY <1>7, ProcessKeeps
<1>8. Callers \subseteq Threads /\ Boot \in Threads
  BY DEF Threads
<1> QED
  BY <1>1, <1>2, <1>3, <1>4, <1>5, <1>6, <1>7, <1>8 DEF Next, BootStep

\* After a crash, an outage or a deletion the rows of segments can be trusted
\* once the start-up thread has been over them: what is "recording" is recorded
\* in this run, what is complete is as long as its file, and nothing that can be
\* played is lost (App.cpp's first start-up step, insertRecordingSegment).
THEOREM RowsAlwaysTellTheTruth == Spec => []RowsTellTheTruth
<1>1. Init => IInv
  BY ThreadAssumption, BoundsAssumption, InitIsInOrder
<1> QED
  BY <1>1, NextKeeps, InvariantTellsTheTruth, PTL DEF Spec

-----------------------------------------------------------------------------
(* What runs, for one caller at a time.                                    *)

\* The calls that may be made while the start-up thread is at work.
StartingCalls == {"create", "start", "createJob", "startJob"}
OneCallAtATime ==
    /\ \A t, u \in Callers : t = u
    /\ Early \subseteq StartingCalls /\ ~MovesJobs

\* What threads have yet to do, as a set.
StepsOf(t) == {todo[t][i] : i \in DOMAIN todo[t]}

\* Steps whose calls change a stream, a group or a job.
StreamIsDue(c) == \E t \in Threads : \E x \in StepsOf(t) :
    x.do \in {"startStream", "cleanupStream"} /\ x.camera = c
MotionIsDue(c) == \E t \in Threads : \E x \in StepsOf(t) :
    x.do \in {"tellMotion", "removeCamera"} /\ x.camera = c
RemovalIsDue(c) == \E t \in Threads : \E x \in StepsOf(t) :
    x.do = "removeCamera" /\ x.camera = c
JobIsDue(j) == \E t \in Threads : \E x \in StepsOf(t) :
    x.do \in {"fetchCamera", "applyJob", "removeJob"} /\ x.job = j
JobGoes(c, j) == \E t \in Threads : \E x \in StepsOf(t) :
    x.do = "removeJob" /\ x.job = j /\ x.camera = c

\* Lists the start-up thread has not read yet.
ToList(name, n) ==
    \/ stage < n
    \/ stage = n /\ (todo[Boot] = <<>> \/ \E x \in StepsOf(Boot) : x.do = name)
StreamsToList == ToList("listCameras", 2)
JobsToList    == ToList("listJobs", 3)

\* Copies of rows are current, and only steps that start something are taken
\* while the start-up thread is at work.
StartingSteps == {"createCamera", "getCamera", "requireCamera", "writeJob", "setJobEnabled",
                  "startStream", "tellMotion", "fetchCamera", "applyJob"}
OnlyStarts(x) ==
    /\ x.do \in StartingSteps
    /\ x.do = "getCamera" => x.start
    /\ x.do = "setJobEnabled" => x.enabled
    /\ x.do = "writeJob" => x.new
IsCurrent(x) ==
    /\ x.do \in {"startStream", "tellMotion"} => camera[x.camera] = x.row
    /\ x.do = "fetchCamera" => job[x.job] = x.row
    /\ x.do = "applyJob" => /\ job[x.job] = [camera |-> x.camera, enabled |-> x.enabled]
                            /\ camera[x.camera] = x.row
    /\ x.do = "writeJob" => /\ x.job \in used
                            /\ IF x.new THEN job[x.job] = None
                               ELSE job[x.job] # None /\ job[x.job].camera = x.row.camera
    /\ x.do = "removeJob" => job[x.job] \in {None, [camera |-> x.camera, enabled |-> FALSE]}
    /\ x.do \in {"cleanupStream", "removeCamera"} => camera[x.camera] = None
BootsOwn(x) ==
    /\ x.do = "fetchCamera" => x.row.enabled
    /\ x.do = "applyJob" => x.enabled

CopiesAreCurrent ==
    /\ \A t \in Threads : \A x \in StepsOf(t) : IsCurrent(x)
    /\ \A t \in Callers : stage < Done => \A x \in StepsOf(t) : OnlyStarts(x)
    /\ \A x \in StepsOf(Boot) : BootsOwn(x)

\* A call goes on after a query in one case only.
LaterSteps == {"startStream", "stopStream", "cleanupStream", "motionOff"}
Lists == {"listOrphans", "listCameras", "listJobs"}
IsCall(s) ==
    /\ Len(s) <= 2
    /\ Len(s) = 2 => \/ s[1].do \in LaterSteps
                     \/ s[1].do = "requireCamera" /\ s[2].do = "writeJob"
    /\ \A i \in DOMAIN s : s[i].do \notin BootSteps \cup {"finalize"}
FormsOfCalls ==
    /\ \A t \in Callers : IsCall(todo[t])
    /\ \A i, k \in DOMAIN todo[Boot] : todo[Boot][i].do \in Lists /\ k # i =>
          i = 1 /\ todo[Boot][k].do = "stageDone"

Keeps(c, j) == group[c] # None /\ \E x \in group[c].jobs : x.id = j
Enabled(c, j) == job[j] = [camera |-> c, enabled |-> TRUE]

JobsAreAtHome ==
    \A c \in Cameras, j \in Jobs : Keeps(c, j) =>
        \/ job[j] # None /\ job[j].camera = c
        \/ JobGoes(c, j) \/ RemovalIsDue(c)
StreamsWillMatch ==
    \A c \in Cameras : StreamMatches(c) \/ StreamIsDue(c) \/ StreamsToList
GroupsWillMatch ==
    \A c \in Cameras : GroupMatches(c) \/ MotionIsDue(c)
JobsWillMatch ==
    \A c \in Cameras : \A j \in Jobs \ unsure :
        \/ Runs(c, j) <=> Enabled(c, j)
        \/ JobIsDue(j) \/ RemovalIsDue(c) \/ JobsToList
NothingStale ==
    stage < Done => \A c \in Cameras :
        /\ session[c] # None => StreamMatches(c)
        /\ \A j \in Jobs : Runs(c, j) => Enabled(c, j)

Matches ==
    JobsAreAtHome /\ StreamsWillMatch /\ GroupsWillMatch /\ JobsWillMatch /\ NothingStale
WillMatch == CopiesAreCurrent /\ FormsOfCalls /\ Matches

JobsHaveCameras ==
    \A j \in Jobs : /\ job[j] # None => camera[job[j].camera] # None
                    /\ j \notin used => job[j] = None
CallersAreDone ==
    /\ life # "up" => \A t \in Callers : todo[t] = <<>>
    /\ life = "down" => \A c \in Cameras : group[c] = None
RInv ==
    /\ group \in [Cameras -> Group \cup {None}] /\ JobsHaveCameras /\ CallersAreDone
    /\ life = "up" => WillMatch

\* Where nothing is under way nothing is due, and so the runtime matches.
LEMMA InvariantMatches == IInv /\ RInv => RuntimeMatchesRows
<1> SUFFICES ASSUME IInv, RInv, AtRest, NEW c \in Cameras
             PROVE  /\ StreamMatches(c) /\ GroupMatches(c)
                    /\ \A j \in Jobs \ unsure : Runs(c, j) <=> Enabled(c, j)
  BY DEF RuntimeMatchesRows, Enabled
<1>1. life = "up" /\ stage = Done /\ \A t \in Threads : todo[t] = <<>>
  BY DEF AtRest
<1>2. \A t \in Threads : StepsOf(t) = {}
  BY <1>1 DEF StepsOf
<1>3. WillMatch
  BY <1>1 DEF RInv
<1>4. ~StreamIsDue(c) /\ ~MotionIsDue(c) /\ ~RemovalIsDue(c) /\ \A j \in Jobs : ~JobIsDue(j)
  BY <1>2 DEF StreamIsDue, MotionIsDue, RemovalIsDue, JobIsDue
<1>5. ~StreamsToList /\ ~JobsToList
  BY <1>1 DEF StreamsToList, JobsToList, ToList, Done
<1> QED
  BY <1>3, <1>4, <1>5 DEF WillMatch, Matches, StreamsWillMatch, GroupsWillMatch, JobsWillMatch

-----------------------------------------------------------------------------
(* How what is due changes.                                                *)

\* A thread's steps as a sequence and as a set.
LEMMA WhatAThreadHas ==
    ASSUME StepsAreTyped, NEW t \in Threads
    PROVE  /\ StepsOf(t) \subseteq Step
           /\ todo[t] = <<>> <=> StepsOf(t) = {}
           /\ todo[t] # <<>> => Arg(t) \in StepsOf(t) /\ Arg(t) = todo[t][1]
           /\ Len(todo[t]) = 1 => StepsOf(t) = {Arg(t)} /\ Tail(todo[t]) = <<>>
<1>1. todo[t] \in Seq(Step)
  BY DEF StepsAreTyped
<1>2. \A i \in DOMAIN todo[t] : todo[t][i] \in Step
  BY <1>1
<1>3. todo[t] # <<>> => 1 \in DOMAIN todo[t] /\ Arg(t) = todo[t][1]
  BY <1>1 DEF Arg
<1>4. ASSUME Len(todo[t]) = 1 PROVE todo[t] # <<>> /\ DOMAIN todo[t] = {1} /\ Tail(todo[t]) = <<>>
  <2>1. ASSUME NEW s \in Seq(Step), Len(s) = 1
        PROVE  s # <<>> /\ DOMAIN s = {1} /\ Tail(s) = <<>>
    <3>1. DOMAIN s = {1} /\ s # <<>>
      BY <2>1
    <3>2. Tail(s) = <<>>
      <4> DEFINE r == Tail(s)
      <4>1. r \in Seq(Step) /\ Len(r) = 0
        BY <2>1
      <4> HIDE DEF r
      <4>2. r = <<>>
        BY <4>1
      <4> QED
        BY <4>2 DEF r
    <3> QED
      BY <3>1, <3>2
  <2> QED
    BY <1>1, <1>4, <2>1
<1>5. todo[t] = <<>> => StepsOf(t) = {}
  BY DEF StepsOf
<1> QED
  BY <1>2, <1>3, <1>4, <1>5 DEF StepsOf

\* A thread has done its step, and perhaps got others; or its call is over.
Moved(t) ==
    /\ \A u \in Threads : u # t => todo'[u] = todo[u]
    /\ \A x \in StepsOf(t) : x \in StepsOf(t)' \/ x = Arg(t) \/ x.do = "writeJob"

\* What Then leaves a thread to do.
LEMMA ThenMoves ==
    ASSUME StepsAreTyped, NEW t \in Threads, todo[t] # <<>>,
           NEW steps \in Seq(Step), Then(t, steps)
    PROVE  /\ StepsAreTyped' /\ Moved(t)
           /\ todo'[t] = steps \o Tail(todo[t])
           /\ \A i \in DOMAIN steps : steps[i] \in StepsOf(t)'
           /\ \A x \in StepsOf(t)' : x \in StepsOf(t) \/ \E i \in DOMAIN steps : x = steps[i]
<1> DEFINE s == todo[t]
           q == steps \o Tail(s)
<1>1. s \in Seq(Step) /\ s # <<>> /\ todo \in [Threads -> Seq(Step)]
  BY DEF StepsAreTyped
<1> HIDE DEF q
<1>2. /\ q \in Seq(Step) /\ Len(q) = Len(steps) + Len(s) - 1
      /\ \A i \in DOMAIN q : \/ i \in DOMAIN steps /\ q[i] = steps[i]
                             \/ i - Len(steps) + 1 \in 2 .. Len(s) /\ q[i] = s[i - Len(steps) + 1]
      /\ \A i \in DOMAIN steps : i \in DOMAIN q /\ q[i] = steps[i]
      /\ \A i \in 2 .. Len(s) : i - 1 + Len(steps) \in DOMAIN q /\ q[i - 1 + Len(steps)] = s[i]
  BY <1>1, Prepending DEF q
<1>3. todo' = [todo EXCEPT ![t] = q]
  BY DEF Then, q
<1>4. todo'[t] = q /\ StepsAreTyped' /\ \A u \in Threads : u # t => todo'[u] = todo[u]
  BY <1>1, <1>2, <1>3 DEF StepsAreTyped
<1>5. DOMAIN s = 1 .. Len(s) /\ Len(s) \in Nat /\ Arg(t) = s[1]
  BY <1>1 DEF Arg
<1>6. ASSUME NEW x \in StepsOf(t) PROVE x \in StepsOf(t)' \/ x = Arg(t)
  <2>1. PICK i \in DOMAIN s : x = s[i]
    BY DEF StepsOf
  <2>2. CASE i = 1
    BY <1>5, <2>1, <2>2
  <2>3. CASE i # 1
    <3>1. i \in 2 .. Len(s)
      BY <1>5, <2>3
    <3> QED
      BY <1>2, <1>4, <2>1, <3>1 DEF StepsOf
  <2> QED
    BY <2>2, <2>3
<1>7. ASSUME NEW x \in StepsOf(t)'
      PROVE  x \in StepsOf(t) \/ \E i \in DOMAIN steps : x = steps[i]
  <2>1. PICK i \in DOMAIN q : x = q[i]
    BY <1>4 DEF StepsOf
  <2>2. CASE i - Len(steps) + 1 \in 2 .. Len(s) /\ q[i] = s[i - Len(steps) + 1]
    <3> DEFINE k == i - Len(steps) + 1
    <3>1. k \in DOMAIN s
      BY <1>5, <2>2
    <3>2. x = s[k]
      BY <2>1, <2>2
    <3> HIDE DEF k
    <3> QED
      BY <3>1, <3>2 DEF StepsOf
  <2> QED
    BY <1>2, <2>1, <2>2
<1>8. \A i \in DOMAIN steps : steps[i] \in StepsOf(t)'
  BY <1>2, <1>4 DEF StepsOf
<1> QED
  BY <1>4, <1>6, <1>7, <1>8 DEF Moved, q

\* What is due stays so, unless it was the step.
LEMMA WhatStaysDue ==
    ASSUME NEW t \in Threads, Moved(t)
    PROVE  /\ \A c \in Cameras :
                 /\ StreamIsDue(c) => \/ StreamIsDue(c)'
                                      \/ /\ Arg(t).do \in {"startStream", "cleanupStream"}
                                         /\ Arg(t).camera = c
                 /\ MotionIsDue(c) => \/ MotionIsDue(c)'
                                      \/ /\ Arg(t).do \in {"tellMotion", "removeCamera"}
                                         /\ Arg(t).camera = c
                 /\ RemovalIsDue(c) => \/ RemovalIsDue(c)'
                                       \/ Arg(t).do = "removeCamera" /\ Arg(t).camera = c
           /\ \A j \in Jobs : JobIsDue(j) =>
                 \/ JobIsDue(j)'
                 \/ Arg(t).do \in {"fetchCamera", "applyJob", "removeJob"} /\ Arg(t).job = j
           /\ \A c \in Cameras, j \in Jobs : JobGoes(c, j) =>
                 \/ JobGoes(c, j)'
                 \/ Arg(t).do = "removeJob" /\ Arg(t).job = j /\ Arg(t).camera = c
<1>1. ASSUME NEW u \in Threads, NEW x \in StepsOf(u)
      PROVE  x \in StepsOf(u)' \/ x = Arg(t) \/ x.do = "writeJob"
  BY DEF Moved, StepsOf
<1>2. ASSUME NEW u \in Threads, NEW x \in StepsOf(u), x \in StepsOf(u)'
      PROVE  /\ \A c \in Cameras :
                   /\ x.do \in {"startStream", "cleanupStream"} /\ x.camera = c => StreamIsDue(c)'
                   /\ x.do \in {"tellMotion", "removeCamera"} /\ x.camera = c => MotionIsDue(c)'
                   /\ x.do = "removeCamera" /\ x.camera = c => RemovalIsDue(c)'
             /\ \A j \in Jobs :
                   x.do \in {"fetchCamera", "applyJob", "removeJob"} /\ x.job = j => JobIsDue(j)'
             /\ \A c \in Cameras, j \in Jobs :
                   x.do = "removeJob" /\ x.job = j /\ x.camera = c => JobGoes(c, j)'
  BY <1>2 DEF StreamIsDue, MotionIsDue, RemovalIsDue, JobIsDue, JobGoes
<1>3. ASSUME NEW c \in Cameras, StreamIsDue(c)
      PROVE  \/ StreamIsDue(c)'
             \/ Arg(t).do \in {"startStream", "cleanupStream"} /\ Arg(t).camera = c
  <2>1. PICK u \in Threads : \E x \in StepsOf(u) :
           x.do \in {"startStream", "cleanupStream"} /\ x.camera = c
    BY <1>3 DEF StreamIsDue
  <2>2. PICK x \in StepsOf(u) : x.do \in {"startStream", "cleanupStream"} /\ x.camera = c
    BY <2>1
  <2>3. x \in StepsOf(u)' \/ x = Arg(t)
    BY <1>1, <2>2
  <2> QED
    BY <1>2, <2>2, <2>3
<1>4. ASSUME NEW c \in Cameras, MotionIsDue(c)
      PROVE  \/ MotionIsDue(c)'
             \/ Arg(t).do \in {"tellMotion", "removeCamera"} /\ Arg(t).camera = c
  <2>1. PICK u \in Threads : \E x \in StepsOf(u) :
           x.do \in {"tellMotion", "removeCamera"} /\ x.camera = c
    BY <1>4 DEF MotionIsDue
  <2>2. PICK x \in StepsOf(u) : x.do \in {"tellMotion", "removeCamera"} /\ x.camera = c
    BY <2>1
  <2>3. x \in StepsOf(u)' \/ x = Arg(t)
    BY <1>1, <2>2
  <2> QED
    BY <1>2, <2>2, <2>3
<1>5. ASSUME NEW c \in Cameras, RemovalIsDue(c)
      PROVE  RemovalIsDue(c)' \/ (Arg(t).do = "removeCamera" /\ Arg(t).camera = c)
  <2>1. PICK u \in Threads : \E x \in StepsOf(u) : x.do = "removeCamera" /\ x.camera = c
    BY <1>5 DEF RemovalIsDue
  <2>2. PICK x \in StepsOf(u) : x.do = "removeCamera" /\ x.camera = c
    BY <2>1
  <2>3. x \in StepsOf(u)' \/ x = Arg(t)
    BY <1>1, <2>2
  <2> QED
    BY <1>2, <2>2, <2>3
<1>6. ASSUME NEW j \in Jobs, JobIsDue(j)
      PROVE  \/ JobIsDue(j)'
             \/ Arg(t).do \in {"fetchCamera", "applyJob", "removeJob"} /\ Arg(t).job = j
  <2>1. PICK u \in Threads : \E x \in StepsOf(u) :
           x.do \in {"fetchCamera", "applyJob", "removeJob"} /\ x.job = j
    BY <1>6 DEF JobIsDue
  <2>2. PICK x \in StepsOf(u) : x.do \in {"fetchCamera", "applyJob", "removeJob"} /\ x.job = j
    BY <2>1
  <2>3. x \in StepsOf(u)' \/ x = Arg(t)
    BY <1>1, <2>2
  <2> QED
    BY <1>2, <2>2, <2>3
<1>7. ASSUME NEW c \in Cameras, NEW j \in Jobs, JobGoes(c, j)
      PROVE  \/ JobGoes(c, j)'
             \/ Arg(t).do = "removeJob" /\ Arg(t).job = j /\ Arg(t).camera = c
  <2>1. PICK u \in Threads : \E x \in StepsOf(u) :
           x.do = "removeJob" /\ x.job = j /\ x.camera = c
    BY <1>7 DEF JobGoes
  <2>2. PICK x \in StepsOf(u) : x.do = "removeJob" /\ x.job = j /\ x.camera = c
    BY <2>1
  <2>3. x \in StepsOf(u)' \/ x = Arg(t)
    BY <1>1, <2>2
  <2> QED
    BY <1>2, <2>2, <2>3
<1> QED
  BY <1>3, <1>4, <1>5, <1>6, <1>7

\* The lists of the start-up thread are its own.
LEMMA ListsStay ==
    ASSUME NEW t \in Threads, Moved(t), UNCHANGED stage, StepsAreTyped, StepsAreTyped',
           NEW name, NEW n, ToList(name, n), t = Boot => Arg(t).do # name, name # "writeJob",
           Boot \in Threads, todo[t] # <<>>
    PROVE  ToList(name, n)'
<1>1. CASE stage < n
  BY <1>1 DEF ToList
<1>2. CASE stage = n /\ todo[Boot] = <<>>
  <2>1. t # Boot
    BY <1>2
  <2> QED
    BY <1>2, <2>1 DEF ToList, Moved
<1>3. CASE stage = n /\ \E x \in StepsOf(Boot) : x.do = name
  <2>1. PICK x \in StepsOf(Boot) : x.do = name
    BY <1>3
  <2>2. x \in StepsOf(Boot)'
    BY <2>1 DEF Moved, StepsOf
  <2> QED
    BY <1>3, <2>1, <2>2 DEF ToList
<1> QED
  BY <1>1, <1>2, <1>3 DEF ToList

\* The runtime matches as it did where neither the rows nor the runtime change, and what is no
\* longer due is a job whose call has failed.
LEMMA MatchesStay ==
    ASSUME Matches, UNCHANGED <<camera, job, session, group>>, unsure \subseteq unsure',
           stage' = stage \/ (stage \in Nat /\ stage' = stage + 1),
           \A c \in Cameras : /\ StreamIsDue(c) => StreamIsDue(c)'
                              /\ MotionIsDue(c) => MotionIsDue(c)'
                              /\ RemovalIsDue(c) => RemovalIsDue(c)',
           \A j \in Jobs : JobIsDue(j) => JobIsDue(j)' \/ j \in unsure' \/ JobsToList',
           \A c \in Cameras, j \in Jobs : JobGoes(c, j) => JobGoes(c, j)',
           StreamsToList => StreamsToList', JobsToList => JobsToList'
    PROVE  Matches'
<1> USE DEF Matches
<1>1. JobsAreAtHome'
  BY DEF JobsAreAtHome, Keeps
<1>2. \A c \in Cameras : StreamMatches(c)' <=> StreamMatches(c)
  BY DEF StreamMatches
<1>3. \A c \in Cameras : GroupMatches(c)' <=> GroupMatches(c)
  BY DEF GroupMatches
<1>4. \A c \in Cameras, j \in Jobs : /\ Runs(c, j)' <=> Runs(c, j)
                                     /\ Enabled(c, j)' <=> Enabled(c, j)
  BY DEF Runs, Enabled
<1>5. StreamsWillMatch'
  BY <1>2 DEF StreamsWillMatch
<1>6. GroupsWillMatch'
  BY <1>3 DEF GroupsWillMatch
<1>7. JobsWillMatch'
  <2> SUFFICES ASSUME NEW c \in Cameras, NEW j \in Jobs, j \notin unsure'
               PROVE  (\/ Runs(c, j) <=> Enabled(c, j)
                       \/ JobIsDue(j) \/ RemovalIsDue(c) \/ JobsToList)'
    BY DEF JobsWillMatch
  <2>1. j \in Jobs \ unsure
    OBVIOUS
  <2>2. (Runs(c, j) <=> Enabled(c, j)) \/ JobIsDue(j) \/ RemovalIsDue(c) \/ JobsToList
    BY <2>1 DEF JobsWillMatch
  <2> QED
    BY <1>4, <2>2
<1>8. NothingStale'
  <2>1. stage' < Done => stage < Done
    BY DEF Done
  <2> QED
    BY <1>2, <1>4, <2>1 DEF NothingStale
<1> QED
  BY <1>1, <1>5, <1>6, <1>7, <1>8

-----------------------------------------------------------------------------
(* Calls.                                                                  *)

\* While a call is made, there is no other, and the process is up.
LEMMA ACallIsMade ==
    ASSUME IInv, RInv, OneCallAtATime, NEW t \in Callers, todo[t] # <<>>
    PROVE  /\ life = "up" /\ WillMatch /\ t \in Threads /\ t # Boot /\ Boot \in Threads
           /\ \A u \in Threads : u = t \/ u = Boot
           /\ StepsAreTyped /\ StepsOf(t) \subseteq Step
           /\ Arg(t) \in StepsOf(t) /\ IsCurrent(Arg(t))
           /\ stage < Done => OnlyStarts(Arg(t))
           /\ stage = Done => todo[Boot] = <<>> /\ StepsOf(Boot) = {}
<1>1. t \in Threads /\ t # Boot /\ Boot \in Threads /\ \A u \in Threads : u = t \/ u = Boot
  BY ThreadAssumption DEF OneCallAtATime, Threads
<1>2. life = "up" /\ WillMatch /\ StepsAreTyped
  BY DEF RInv, CallersAreDone, IInv, ThreadsAreInOrder
<1>3. StepsOf(t) \subseteq Step /\ Arg(t) \in StepsOf(t)
  BY <1>1, <1>2, WhatAThreadHas
<1>4. IsCurrent(Arg(t)) /\ (stage < Done => OnlyStarts(Arg(t)))
  BY <1>1, <1>2, <1>3 DEF WillMatch, CopiesAreCurrent
<1>5. stage = Done => todo[Boot] = <<>>
  BY DEF IInv, ThreadsAreInOrder, BootKeepsToItsStage, Done
<1>6. todo[Boot] = <<>> => StepsOf(Boot) = {}
  BY <1>1, <1>2, WhatAThreadHas
<1> QED
  BY <1>1, <1>2, <1>3, <1>4, <1>5, <1>6

\* What is left of a call.
LEMMA RestOfACall ==
    ASSUME NEW s \in Seq(Step), s # <<>>, IsCall(s)
    PROVE  /\ Tail(s) \in Seq(Step) /\ Len(Tail(s)) <= 1 /\ IsCall(Tail(s))
           /\ \/ Len(s) = 1 /\ Tail(s) = <<>>
              \/ /\ Len(s) = 2 /\ s[1].do \in LaterSteps \cup {"requireCamera"}
                 /\ s[1].do = "requireCamera" => s[2].do = "writeJob"
           /\ \A x \in Step : x.do \in LaterSteps => IsCall(<<x>> \o Tail(s))
<1>1. Len(s) \in {1, 2} /\ Tail(s) \in Seq(Step) /\ Len(Tail(s)) = Len(s) - 1
      /\ \A i \in 1 .. Len(s) - 1 : Tail(s)[i] = s[i + 1]
  <2>1. Len(s) <= 2
    BY DEF IsCall
  <2>2. Len(s) \in Nat /\ Len(s) # 0
    OBVIOUS
  <2>3. Len(s) \in {1, 2}
    <3>1. \A n \in Nat : n <= 2 /\ n # 0 => n \in {1, 2}
      OBVIOUS
    <3> QED
      BY <2>1, <2>2, <3>1
  <2>4. /\ Tail(s) \in Seq(Step) /\ Len(Tail(s)) = Len(s) - 1
        /\ \A i \in 1 .. Len(s) - 1 : Tail(s)[i] = s[i + 1]
    OBVIOUS
  <2> QED
    BY <2>3, <2>4
<1> DEFINE r == Tail(s)
<1>2. r \in Seq(Step) /\ Len(r) = Len(s) - 1 /\ DOMAIN r = 1 .. Len(s) - 1
      /\ \A i \in DOMAIN r : r[i] = s[i + 1] /\ i + 1 \in DOMAIN s
  BY <1>1
<1> HIDE DEF r
<1>3. Len(r) <= 1 /\ IsCall(r)
  BY <1>1, <1>2 DEF IsCall
<1>4. Len(s) = 1 => r = <<>>
  BY <1>2
<1>5. ASSUME NEW x \in Step, x.do \in LaterSteps PROVE IsCall(<<x>> \o r)
  <2> DEFINE q == <<x>> \o r
  <2>1. q \in Seq(Step) /\ Len(q) = Len(r) + 1 /\ q[1] = x
        /\ \A i \in DOMAIN q : i = 1 \/ (i - 1 \in DOMAIN r /\ q[i] = r[i - 1])
    BY <1>2
  <2> HIDE DEF q
  <2>2. x.do \notin BootSteps \cup {"finalize"}
    BY <1>5 DEF LaterSteps, BootSteps
  <2> QED
    BY <1>3, <1>5, <2>1, <2>2 DEF IsCall, q
<1>6. Len(s) = 2 => /\ s[1].do \in LaterSteps \cup {"requireCamera"}
                    /\ s[1].do = "requireCamera" => s[2].do = "writeJob"
  BY DEF IsCall, LaterSteps
<1> QED
  BY <1>1, <1>2, <1>3, <1>4, <1>5, <1>6 DEF r

\* Most queries are the last step of their call.
LEMMA LastOfACall ==
    ASSUME IInv, RInv, OneCallAtATime, NEW t \in Callers, todo[t] # <<>>,
           Arg(t).do \notin LaterSteps \cup {"requireCamera"}
    PROVE  StepsOf(t) = {Arg(t)} /\ Tail(todo[t]) = <<>>
<1>1. WillMatch /\ t \in Threads /\ StepsAreTyped
  BY ACallIsMade
<1>2. todo[t] \in Seq(Step) /\ IsCall(todo[t]) /\ Arg(t) = todo[t][1]
  BY <1>1, WhatAThreadHas DEF StepsAreTyped, WillMatch, FormsOfCalls
<1>3. Len(todo[t]) = 1
  BY <1>2, RestOfACall
<1> QED
  BY <1>1, <1>3, WhatAThreadHas

\* Calls keep their form when one of them goes on.
LEMMA FormsStay ==
    ASSUME IInv, RInv, OneCallAtATime, NEW t \in Callers, todo[t] # <<>>,
           \A u \in Threads : u # t => todo'[u] = todo[u], IsCall(todo'[t])
    PROVE  FormsOfCalls'
<1>1. /\ WillMatch /\ t \in Threads /\ t # Boot /\ Boot \in Threads
      /\ \A u \in Threads : u = t \/ u = Boot
  BY ACallIsMade
<1>2. Callers \subseteq Threads /\ Boot \notin Callers
  BY ThreadAssumption DEF Threads
<1> QED
  BY <1>1, <1>2 DEF FormsOfCalls, WillMatch, StepsOf

\* Where rows stay as they are, copies need to be current of new steps only.
LEMMA CopiesStay ==
    ASSUME CopiesAreCurrent, NEW t \in Threads, UNCHANGED <<camera, job>>, used \subseteq used',
           \A u \in Threads : u # t => todo'[u] = todo[u], stage' = stage,
           \A x \in StepsOf(t)' : \/ x \in StepsOf(t)
                                  \/ /\ IsCurrent(x)'
                                     /\ t \in Callers /\ stage < Done => OnlyStarts(x)
                                     /\ t = Boot => BootsOwn(x)
    PROVE  CopiesAreCurrent'
<1>1. ASSUME NEW u \in Threads, NEW x \in StepsOf(u)'
      PROVE  \/ x \in StepsOf(u)
             \/ /\ u = t /\ IsCurrent(x)'
                /\ t \in Callers /\ stage < Done => OnlyStarts(x)
                /\ t = Boot => BootsOwn(x)
  <2>1. u # t => x \in StepsOf(u)
    BY <1>1 DEF StepsOf
  <2> QED
    BY <1>1, <2>1
<1>2. \A x : IsCurrent(x) => IsCurrent(x)'
  BY DEF IsCurrent
<1>3. Callers \subseteq Threads /\ Boot \in Threads
  BY DEF Threads
<1> QED
  BY <1>1, <1>2, <1>3 DEF CopiesAreCurrent

\* The conjuncts of the invariant that a step has to restore.
LEMMA Together ==
    ASSUME life' = "up", group' \in [Cameras -> Group \cup {None}], JobsHaveCameras',
           CopiesAreCurrent', FormsOfCalls', Matches'
    PROVE  RInv'
  BY DEF RInv, CallersAreDone, WillMatch

\* Where neither rows nor the runtime change.
NothingChanges == UNCHANGED <<camera, job, used, session, group, stage, life>>

\* The same where only threads have moved.
LEMMA QuietlyTogether ==
    ASSUME RInv, life = "up", NothingChanges, CopiesAreCurrent', FormsOfCalls', Matches'
    PROVE  RInv'
<1>1. JobsHaveCameras' /\ group' \in [Cameras -> Group \cup {None}]
  BY DEF RInv, JobsHaveCameras, NothingChanges
<1> QED
  BY <1>1, Together DEF NothingChanges

\* The queries of a call.
CallQueries == {"createCamera", "putCamera", "deleteCamera", "getCamera", "requireCamera",
                "writeJob", "setJobEnabled", "deleteJob"}

\* A query after which rows and runtime are as before.
LEMMA QueryMatches ==
    ASSUME IInv, RInv, OneCallAtATime, NEW t \in Callers, todo[t] # <<>>, NothingChanges,
           unsure \subseteq unsure', StepsAreTyped', Moved(t), IsCall(todo'[t]),
           \/ Arg(t).do \in CallQueries
           \/ /\ Arg(t).do = "fetchCamera"
              /\ \A j \in Jobs : Arg(t).job = j => JobIsDue(j)' \/ j \in unsure',
           \A x \in StepsOf(t)' : \/ x \in StepsOf(t)
                                  \/ IsCurrent(x)' /\ (stage < Done => OnlyStarts(x))
    PROVE  RInv'
<1>1. /\ life = "up" /\ WillMatch /\ t \in Threads /\ t # Boot /\ Boot \in Threads
      /\ StepsAreTyped
  BY ACallIsMade
<1>2. \A u \in Threads : u # t => todo'[u] = todo[u]
  BY DEF Moved
<1>3. FormsOfCalls'
  BY <1>2, FormsStay
<1>4. CopiesAreCurrent'
  BY <1>1, <1>2, CopiesStay DEF WillMatch, NothingChanges
<1>5. /\ \A c \in Cameras : /\ StreamIsDue(c) => StreamIsDue(c)'
                            /\ MotionIsDue(c) => MotionIsDue(c)'
                            /\ RemovalIsDue(c) => RemovalIsDue(c)'
      /\ \A j \in Jobs : JobIsDue(j) => JobIsDue(j)' \/ j \in unsure'
      /\ \A c \in Cameras, j \in Jobs : JobGoes(c, j) => JobGoes(c, j)'
  <2>1. Arg(t).do \notin {"startStream", "cleanupStream", "tellMotion", "removeCamera",
                          "applyJob", "removeJob"}
    BY DEF CallQueries
  <2>2. Arg(t).do = "fetchCamera" =>
           \A j \in Jobs : Arg(t).job = j => JobIsDue(j)' \/ j \in unsure'
    BY DEF CallQueries
  <2>3. \A c \in Cameras : /\ StreamIsDue(c) => StreamIsDue(c)'
                           /\ MotionIsDue(c) => MotionIsDue(c)'
                           /\ RemovalIsDue(c) => RemovalIsDue(c)'
    BY <1>1, <2>1, WhatStaysDue
  <2>4. \A j \in Jobs : JobIsDue(j) => JobIsDue(j)' \/ j \in unsure'
    <3>1. \A j \in Jobs : JobIsDue(j) =>
             JobIsDue(j)' \/ (Arg(t).do = "fetchCamera" /\ Arg(t).job = j)
      BY <1>1, <2>1, WhatStaysDue
    <3> QED
      BY <2>2, <3>1
  <2>5. \A c \in Cameras, j \in Jobs : JobGoes(c, j) => JobGoes(c, j)'
    BY <1>1, <2>1, WhatStaysDue
  <2> QED
    BY <2>3, <2>4, <2>5
<1>6. StreamsToList => StreamsToList'
  BY <1>1, ListsStay DEF StreamsToList, NothingChanges
<1>7. JobsToList => JobsToList'
  BY <1>1, ListsStay DEF JobsToList, NothingChanges
<1>8. Matches'
  BY <1>1, <1>5, <1>6, <1>7, MatchesStay DEF WillMatch, NothingChanges
<1> QED
  BY <1>1, <1>3, <1>4, <1>8, QuietlyTogether

\* Calls of no, one and two steps.
LEMMA ShortCalls ==
    /\ <<>> \in Seq(Step) /\ IsCall(<<>>) /\ DOMAIN <<>> = {}
    /\ \A x \in Step : /\ <<x>> \in Seq(Step) /\ DOMAIN <<x>> = {1} /\ <<x>>[1] = x
                       /\ x.do \notin BootSteps \cup {"finalize"} => IsCall(<<x>>)
    /\ \A x, y \in Step : /\ <<x, y>> \in Seq(Step) /\ DOMAIN <<x, y>> = {1, 2}
                          /\ <<x, y>>[1] = x /\ <<x, y>>[2] = y
                          /\ /\ y.do \notin BootSteps \cup {"finalize"}
                             /\ \/ x.do \in LaterSteps
                                \/ x.do = "requireCamera" /\ y.do = "writeJob"
                             => IsCall(<<x, y>>)
<1>1. <<>> \in Seq(Step) /\ IsCall(<<>>) /\ DOMAIN <<>> = {}
  BY DEF IsCall
<1>2. ASSUME NEW x \in Step
      PROVE  /\ <<x>> \in Seq(Step) /\ DOMAIN <<x>> = {1} /\ <<x>>[1] = x
             /\ x.do \notin BootSteps \cup {"finalize"} => IsCall(<<x>>)
  BY DEF IsCall
<1>3. ASSUME NEW x \in Step, NEW y \in Step
      PROVE  /\ <<x, y>> \in Seq(Step) /\ DOMAIN <<x, y>> = {1, 2}
             /\ <<x, y>>[1] = x /\ <<x, y>>[2] = y
             /\ /\ y.do \notin BootSteps \cup {"finalize"}
                /\ \/ x.do \in LaterSteps
                   \/ x.do = "requireCamera" /\ y.do = "writeJob"
                => IsCall(<<x, y>>)
  <2>1. /\ <<x, y>> \in Seq(Step) /\ DOMAIN <<x, y>> = {1, 2} /\ Len(<<x, y>>) = 2
        /\ <<x, y>>[1] = x /\ <<x, y>>[2] = y
    OBVIOUS
  <2> DEFINE s == <<x, y>>
  <2>2. s \in Seq(Step) /\ DOMAIN s = {1, 2} /\ Len(s) = 2 /\ s[1] = x /\ s[2] = y
    BY <2>1
  <2> HIDE DEF s
  <2>3. LaterSteps \cap (BootSteps \cup {"finalize"}) = {}
        /\ "requireCamera" \notin BootSteps \cup {"finalize"}
    BY DEF LaterSteps, BootSteps
  <2>4. /\ y.do \notin BootSteps \cup {"finalize"}
        /\ \/ x.do \in LaterSteps
           \/ x.do = "requireCamera" /\ y.do = "writeJob"
        => IsCall(s)
    BY <2>2, <2>3 DEF IsCall
  <2> QED
    BY <2>2, <2>4 DEF s
<1> QED
  BY <1>1, <1>2, <1>3

\* A query that ends its call, for want of a row or of the database.
LEMMA EndOfACall ==
    ASSUME IInv, RInv, OneCallAtATime, NEW t \in Callers, todo[t] # <<>>, Ends(t),
           NothingChanges, unsure \subseteq unsure',
           \/ Arg(t).do \in CallQueries
           \/ Arg(t).do = "fetchCamera" /\ Arg(t).job \in unsure'
    PROVE  RInv'
<1>1. t \in Threads /\ StepsAreTyped /\ WillMatch /\ Arg(t) = todo[t][1]
  BY ACallIsMade, WhatAThreadHas
<1>2. todo[t] \in Seq(Step) /\ IsCall(todo[t])
  BY <1>1 DEF StepsAreTyped, WillMatch, FormsOfCalls
<1>3. todo' = [todo EXCEPT ![t] = <<>>] /\ todo \in [Threads -> Seq(Step)]
  BY <1>1 DEF Ends, StepsAreTyped
<1>4. /\ todo'[t] = <<>> /\ \A u \in Threads : u # t => todo'[u] = todo[u]
      /\ StepsAreTyped' /\ StepsOf(t)' = {}
  <2>1. todo'[t] = <<>> /\ \A u \in Threads : u # t => todo'[u] = todo[u]
    BY <1>1, <1>3
  <2>2. StepsAreTyped'
    <3>1. <<>> \in Seq(Step)
      BY ShortCalls
    <3> HIDE DEF Step
    <3> QED
      BY <1>3, <3>1 DEF StepsAreTyped
  <2> QED
    BY <2>1, <2>2 DEF StepsOf
<1>5. IsCall(todo'[t])
  BY <1>4 DEF IsCall
<1>6. ASSUME NEW x \in StepsOf(t) PROVE x = Arg(t) \/ x.do = "writeJob"
  <2>1. PICK i \in DOMAIN todo[t] : x = todo[t][i]
    BY DEF StepsOf
  <2>2. i \in {1, 2} /\ (i = 2 => Len(todo[t]) = 2)
    BY <1>2, <2>1, RestOfACall
  <2>3. Arg(t).do \notin LaterSteps
    BY DEF CallQueries, LaterSteps
  <2> QED
    BY <1>1, <1>2, <2>1, <2>2, <2>3, RestOfACall DEF LaterSteps
<1>7. Moved(t)
  BY <1>4, <1>6 DEF Moved
<1> QED
  BY <1>4, <1>5, <1>7, QueryMatches

\* A call goes on with a step or two, or with what it has left.
LEMMA NextOfACall ==
    ASSUME IInv, RInv, OneCallAtATime, NEW t \in Callers, todo[t] # <<>>,
           NEW steps \in Seq(Step), Then(t, steps),
           \/ steps = <<>>
           \/ IsCall(steps) /\ Arg(t).do \notin LaterSteps \cup {"requireCamera"}
    PROVE  /\ StepsAreTyped' /\ Moved(t) /\ IsCall(todo'[t]) /\ FormsOfCalls'
           /\ \A u \in Threads : u # t => todo'[u] = todo[u]
           /\ \A i \in DOMAIN steps : steps[i] \in StepsOf(t)'
           /\ \A x \in StepsOf(t)' : x \in StepsOf(t) \/ \E i \in DOMAIN steps : x = steps[i]
           /\ Arg(t).do \notin LaterSteps \cup {"requireCamera"} =>
                 \A x \in StepsOf(t)' : \E i \in DOMAIN steps : x = steps[i]
<1>1. t \in Threads /\ StepsAreTyped /\ WillMatch
  BY ACallIsMade
<1>2. todo[t] \in Seq(Step) /\ IsCall(todo[t])
  BY <1>1 DEF StepsAreTyped, WillMatch, FormsOfCalls
<1>3. /\ StepsAreTyped' /\ Moved(t)
      /\ todo'[t] = steps \o Tail(todo[t])
      /\ \A i \in DOMAIN steps : steps[i] \in StepsOf(t)'
      /\ \A x \in StepsOf(t)' : x \in StepsOf(t) \/ \E i \in DOMAIN steps : x = steps[i]
  BY <1>1, ThenMoves
<1>4. Tail(todo[t]) \in Seq(Step) /\ IsCall(Tail(todo[t]))
  BY <1>2, RestOfACall
<1>5. ASSUME Arg(t).do \notin LaterSteps \cup {"requireCamera"}
      PROVE  todo'[t] = steps
  <2>1. Tail(todo[t]) = <<>>
    BY <1>5, LastOfACall
  <2> QED
    BY <1>3, <2>1
<1>6. IsCall(todo'[t])
  <2>1. CASE steps = <<>>
    <3>1. todo'[t] = Tail(todo[t])
      BY <1>3, <1>4, <2>1
    <3> QED
      BY <1>4, <3>1
  <2>2. CASE IsCall(steps) /\ Arg(t).do \notin LaterSteps \cup {"requireCamera"}
    BY <1>5, <2>2
  <2> QED
    BY <2>1, <2>2
<1>7. FormsOfCalls'
  BY <1>3, <1>6, FormsStay DEF Moved
<1>8. Arg(t).do \notin LaterSteps \cup {"requireCamera"} =>
         \A x \in StepsOf(t)' : \E i \in DOMAIN steps : x = steps[i]
  BY <1>5 DEF StepsOf
<1> QED
  BY <1>3, <1>6, <1>7, <1>8 DEF Moved

\* A query of a call that finds nothing, or finds the database gone.
LEMMA RequireMatches ==
    ASSUME IInv, RInv, OneCallAtATime, NEW t \in Callers, requireCamera(t)
    PROVE  RInv'
<1>1. /\ NothingChanges /\ unsure' = unsure /\ todo[t] # <<>> /\ Arg(t).do = "requireCamera"
      /\ Ends(t) \/ Then(t, <<>>)
  BY DEF requireCamera, Query, NotFound, At, Arg, NothingChanges, rows, process, runtime
<1>2. Arg(t).do \in CallQueries
  BY <1>1 DEF CallQueries
<1>3. CASE Ends(t)
  BY <1>1, <1>2, <1>3, EndOfACall
<1>4. CASE Then(t, <<>>)
  <2>1. <<>> \in Seq(Step) /\ DOMAIN <<>> = {}
    BY ShortCalls
  <2>2. /\ StepsAreTyped' /\ Moved(t) /\ IsCall(todo'[t])
        /\ \A x \in StepsOf(t)' : x \in StepsOf(t)
    BY <1>1, <1>4, <2>1, NextOfACall
  <2> QED
    BY <1>1, <1>2, <2>2, QueryMatches
<1> QED
  BY <1>1, <1>3, <1>4

\* A call whose query throws: if its job's row is written, the client is told.
LEMMA ThrowMatches ==
    ASSUME IInv, RInv, OneCallAtATime, NEW t \in Callers, QueryThrows(t)
    PROVE  RInv'
<1>1. PICK name \in Queries : At(t, name)
  BY DEF QueryThrows
<1>2. /\ NothingChanges /\ Ends(t) /\ todo[t] # <<>> /\ Arg(t).do = name /\ t # Boot
      /\ unsure' = IF name = "fetchCamera" THEN unsure \cup {Arg(t).job} ELSE unsure
  BY <1>1, ThreadAssumption
  DEF QueryThrows, At, Arg, NothingChanges, rows, process, runtime
<1>3. WillMatch /\ Arg(t) \in StepsOf(t) /\ IsCall(todo[t])
  BY <1>2, ACallIsMade DEF WillMatch, FormsOfCalls
<1>4. Arg(t).do \notin BootSteps \cup {"finalize"}
  BY <1>3 DEF IsCall, StepsOf
<1>5. name \in CallQueries \cup {"fetchCamera"}
  BY <1>2, <1>4 DEF Queries, BootSteps, CallQueries
<1> QED
  BY <1>2, <1>5, EndOfACall

\* startStream, restartStream and stopStream look the camera up.
LEMMA GetMatches ==
    ASSUME IInv, RInv, OneCallAtATime, NEW t \in Callers, getCamera(t)
    PROVE  RInv'
<1> DEFINE c == Arg(t).camera
<1>1. /\ NothingChanges /\ unsure' = unsure /\ todo[t] # <<>> /\ Arg(t).do = "getCamera"
      /\ \/ Ends(t)
         \/ /\ camera[c] # None
            /\ Then(t, IF Arg(t).start THEN StartCamera(c, camera[c]) ELSE StopCamera(c))
  BY DEF getCamera, Query, NotFound, At, Arg, NothingChanges, rows, process, runtime
<1>2. Arg(t) \in Step /\ (stage < Done => OnlyStarts(Arg(t))) /\ Arg(t).do \in CallQueries
  BY <1>1, ACallIsMade DEF CallQueries
<1>3. c \in Cameras /\ Arg(t).start \in BOOLEAN
  BY <1>1, <1>2, StepHas
<1>4. CASE Ends(t)
  BY <1>1, <1>2, <1>4, EndOfACall
<1>5. CASE camera[c] # None /\ Then(t, IF Arg(t).start THEN StartCamera(c, camera[c])
                                       ELSE StopCamera(c))
  <2> DEFINE x1 == [do |-> "startStream", camera |-> c, row |-> camera[c]]
             y1 == [do |-> "tellMotion", camera |-> c, row |-> camera[c]]
             x2 == [do |-> "stopStream", camera |-> c]
             y2 == [do |-> "motionOff", camera |-> c]
  <2>1. camera[c] \in Row
    BY <1>3, <1>5 DEF IInv, Typed
  <2>2. {x1, y1, x2, y2} \subseteq Step
    BY <1>3, <2>1, StepsThereAre DEF CameraSteps
  <2>3. \E x, y \in Step :
           /\ Then(t, <<x, y>>) /\ x.do \in LaterSteps
           /\ y.do \in {"tellMotion", "motionOff"}
           /\ IsCurrent(x)' /\ IsCurrent(y)'
           /\ stage < Done => OnlyStarts(x) /\ OnlyStarts(y)
    <3>1. CASE Arg(t).start
      <4>1. Then(t, <<x1, y1>>) /\ camera' = camera
        BY <1>1, <1>5, <3>1 DEF StartCamera, NothingChanges
      <4>2. ASSUME NEW r, r = camera[c], NEW d, d = c
            PROVE  /\ IsCurrent([do |-> "startStream", camera |-> d, row |-> r])'
                   /\ IsCurrent([do |-> "tellMotion", camera |-> d, row |-> r])'
        BY <4>1, <4>2 DEF IsCurrent
      <4>3. x1.do \in LaterSteps /\ y1.do = "tellMotion" /\ OnlyStarts(x1) /\ OnlyStarts(y1)
        BY DEF LaterSteps, OnlyStarts, StartingSteps
      <4>4. PICK r, d : r = camera[c] /\ d = c
        OBVIOUS
      <4> DEFINE x == [do |-> "startStream", camera |-> d, row |-> r]
                 y == [do |-> "tellMotion", camera |-> d, row |-> r]
      <4>5. x = x1 /\ y = y1 /\ IsCurrent(x)' /\ IsCurrent(y)'
        BY <4>2, <4>4
      <4> HIDE DEF x1, y1, x, y
      <4> QED
        BY <2>2, <4>1, <4>3, <4>5
    <3>2. CASE ~Arg(t).start
      <4>1. Then(t, <<x2, y2>>)
        BY <1>5, <3>2 DEF StopCamera
      <4>2. ~(stage < Done)
        BY <1>1, <1>2, <3>2 DEF OnlyStarts
      <4>3. PICK d : d = c
        OBVIOUS
      <4> DEFINE x == [do |-> "stopStream", camera |-> d]
                 y == [do |-> "motionOff", camera |-> d]
      <4>4. x = x2 /\ y = y2 /\ IsCurrent(x)' /\ IsCurrent(y)'
        BY <4>3 DEF IsCurrent
      <4>5. x2.do \in LaterSteps /\ y2.do = "motionOff"
        BY DEF LaterSteps
      <4> HIDE DEF x2, y2, x, y
      <4> QED
        BY <2>2, <4>1, <4>2, <4>4, <4>5
    <3> QED
      BY <1>3, <3>1, <3>2
  <2>4. PICK x \in Step, y \in Step :
           /\ Then(t, <<x, y>>) /\ x.do \in LaterSteps
           /\ y.do \in {"tellMotion", "motionOff"}
           /\ IsCurrent(x)' /\ IsCurrent(y)'
           /\ stage < Done => OnlyStarts(x) /\ OnlyStarts(y)
    BY <2>3
  <2>5. <<x, y>> \in Seq(Step) /\ DOMAIN <<x, y>> = {1, 2} /\ <<x, y>>[1] = x /\ <<x, y>>[2] = y
        /\ IsCall(<<x, y>>) /\ Arg(t).do \notin LaterSteps \cup {"requireCamera"}
    BY <1>1, <2>4, ShortCalls DEF BootSteps, LaterSteps
  <2> DEFINE steps == <<x, y>>
  <2> HIDE DEF steps
  <2>6. /\ StepsAreTyped' /\ Moved(t) /\ IsCall(todo'[t])
        /\ \A z \in StepsOf(t)' : z \in StepsOf(t) \/ z = x \/ z = y
    <3>1. /\ steps \in Seq(Step) /\ DOMAIN steps = {1, 2} /\ steps[1] = x /\ steps[2] = y
          /\ IsCall(steps) /\ Then(t, steps)
      BY <2>4, <2>5 DEF steps
    <3> QED
      BY <1>1, <2>5, <3>1, NextOfACall
  <2> QED
    BY <1>1, <1>2, <2>4, <2>6, QueryMatches
<1> QED
  BY <1>1, <1>4, <1>5

-----------------------------------------------------------------------------
(* Calls that change rows.                                                 *)

\* All that was due is due, and all that was to be listed.
StaysDue ==
    /\ \A c \in Cameras : /\ StreamIsDue(c) => StreamIsDue(c)'
                          /\ MotionIsDue(c) => MotionIsDue(c)'
                          /\ RemovalIsDue(c) => RemovalIsDue(c)'
    /\ \A j \in Jobs : JobIsDue(j) => JobIsDue(j)'
    /\ \A c \in Cameras, j \in Jobs : JobGoes(c, j) => JobGoes(c, j)'
    /\ StreamsToList => StreamsToList'
    /\ JobsToList => JobsToList'

\* A query takes nothing off what is due.
LEMMA AllStaysDue ==
    ASSUME IInv, RInv, OneCallAtATime, NEW t \in Callers, todo[t] # <<>>,
           Arg(t).do \in CallQueries, StepsAreTyped', Moved(t), stage' = stage
    PROVE  StaysDue
<1>1. StepsAreTyped /\ t \in Threads /\ t # Boot /\ Boot \in Threads
  BY ACallIsMade
<1>2. Arg(t).do \notin {"startStream", "cleanupStream", "tellMotion", "removeCamera",
                        "fetchCamera", "applyJob", "removeJob"}
  BY DEF CallQueries
<1>3. /\ \A c \in Cameras : /\ StreamIsDue(c) => StreamIsDue(c)'
                            /\ MotionIsDue(c) => MotionIsDue(c)'
                            /\ RemovalIsDue(c) => RemovalIsDue(c)'
      /\ \A j \in Jobs : JobIsDue(j) => JobIsDue(j)'
      /\ \A c \in Cameras, j \in Jobs : JobGoes(c, j) => JobGoes(c, j)'
  BY <1>1, <1>2, WhatStaysDue
<1>4. StreamsToList => StreamsToList'
  BY <1>1, ListsStay DEF StreamsToList
<1>5. JobsToList => JobsToList'
  BY <1>1, ListsStay DEF JobsToList
<1> QED
  BY <1>3, <1>4, <1>5 DEF StaysDue

\* The row of one camera is another.
LEMMA CameraRowMatches ==
    ASSUME Matches, StaysDue, NEW c \in Cameras, NEW r, camera' = [camera EXCEPT ![c] = r],
           camera \in [Cameras -> Row \cup {None}],
           UNCHANGED <<job, session, group, stage, unsure>>,
           StreamIsDue(c)', MotionIsDue(c)', stage < Done => session[c] = None
    PROVE  Matches'
<1> USE DEF Matches
<1>1. \A d \in Cameras : d # c => camera'[d] = camera[d]
  OBVIOUS
<1>2. JobsAreAtHome'
  BY DEF JobsAreAtHome, Keeps, StaysDue
<1>3. StreamsWillMatch'
  BY <1>1 DEF StreamsWillMatch, StreamMatches, StaysDue
<1>4. GroupsWillMatch'
  BY <1>1 DEF GroupsWillMatch, GroupMatches, StaysDue
<1>5. JobsWillMatch'
  BY DEF JobsWillMatch, Runs, Enabled, StaysDue
<1>6. NothingStale'
  BY <1>1 DEF NothingStale, StreamMatches, Runs, Enabled
<1> QED
  BY <1>2, <1>3, <1>4, <1>5, <1>6

\* The row of one job is another.
LEMMA JobRowMatches ==
    ASSUME Matches, StaysDue, NEW j \in Jobs, NEW r, job' = [job EXCEPT ![j] = r],
           job \in [Jobs -> JobRow \cup {None}],
           UNCHANGED <<camera, session, group, stage, unsure>>, JobIsDue(j)',
           \A d \in Cameras : Keeps(d, j) =>
              (r # None /\ r.camera = d) \/ JobGoes(d, j)' \/ RemovalIsDue(d)',
           stage < Done => \A d \in Cameras : Runs(d, j) => r = [camera |-> d, enabled |-> TRUE]
    PROVE  Matches'
<1> USE DEF Matches
<1>1. job'[j] = r /\ \A k \in Jobs : k # j => job'[k] = job[k]
  OBVIOUS
<1>2. \A d \in Cameras, k \in Jobs : Keeps(d, k)' <=> Keeps(d, k)
  BY DEF Keeps
<1>3. \A d \in Cameras, k \in Jobs : Runs(d, k)' <=> Runs(d, k)
  BY DEF Runs
<1>4. JobsAreAtHome'
  BY <1>1, <1>2 DEF JobsAreAtHome, StaysDue
<1>5. StreamsWillMatch' /\ GroupsWillMatch'
  BY DEF StreamsWillMatch, StreamMatches, GroupsWillMatch, GroupMatches, StaysDue
<1>6. JobsWillMatch'
  BY <1>1, <1>3 DEF JobsWillMatch, Enabled, StaysDue
<1>7. NothingStale'
  <2>1. \A d \in Cameras : StreamMatches(d)' <=> StreamMatches(d)
    BY DEF StreamMatches
  <2> QED
    BY <1>1, <1>3, <2>1 DEF NothingStale, Enabled
<1> QED
  BY <1>4, <1>5, <1>6, <1>7

\* Whatever the start-up thread has to do.
LEMMA BootsSteps ==
    ASSUME IInv
    PROVE  \A x \in StepsOf(Boot) :
              /\ x \in Step
              /\ x.do \in {"listOrphans", "finalize", "listCameras", "startStream", "tellMotion",
                           "listJobs", "fetchCamera", "applyJob", "stageDone"}
<1>1. Boot \in Threads /\ StepsAreTyped
  BY DEF Threads, IInv, ThreadsAreInOrder
<1>2. StepsOf(Boot) \subseteq Step
  BY <1>1, WhatAThreadHas
<1> QED
  BY <1>2 DEF IInv, ThreadsAreInOrder, BootKeepsToItsStage, Belongs, StepsOf

\* Copies stay current if those of the start-up thread do, and the call goes on
\* with current ones.
LEMMA CallersCopies ==
    ASSUME IInv, RInv, OneCallAtATime, NEW t \in Callers, todo[t] # <<>>, stage' = stage,
           \A u \in Threads : u # t => todo'[u] = todo[u],
           \A x \in StepsOf(t)' : IsCurrent(x)' /\ (stage < Done => OnlyStarts(x)),
           stage < Done => \A x \in StepsOf(Boot) : IsCurrent(x) /\ BootsOwn(x) => IsCurrent(x)'
    PROVE  CopiesAreCurrent'
<1>1. /\ WillMatch /\ t \in Threads /\ t # Boot /\ Boot \in Threads
      /\ \A u \in Threads : u = t \/ u = Boot
      /\ stage = Done => StepsOf(Boot) = {}
  BY ACallIsMade
<1>2. StepsOf(Boot)' = StepsOf(Boot) /\ Callers \subseteq Threads
  BY <1>1 DEF StepsOf, Threads
<1>3. stage \in 1 .. Done
  BY DEF IInv, Typed
<1>4. stage < Done \/ stage = Done
  BY <1>3 DEF Done
<1>5. \A x \in StepsOf(Boot) : IsCurrent(x)'
  BY <1>1, <1>4 DEF WillMatch, CopiesAreCurrent
<1>6. \A u \in Threads : \A x \in StepsOf(u)' : IsCurrent(x)'
  BY <1>1, <1>2, <1>5
<1>7. \A u \in Callers : stage' < Done => \A x \in StepsOf(u)' : OnlyStarts(x)
  BY ThreadAssumption DEF OneCallAtATime
<1>8. \A x \in StepsOf(Boot)' : BootsOwn(x)
  BY <1>1, <1>2 DEF WillMatch, CopiesAreCurrent
<1> QED
  BY <1>6, <1>7, <1>8 DEF CopiesAreCurrent

\* The camera's row is written, and its stream is started from it.
LEMMA CameraIsWritten ==
    ASSUME IInv, RInv, OneCallAtATime, NEW t \in Callers, todo[t] # <<>>,
           Arg(t).do \in {"createCamera", "putCamera"},
           NEW c \in Cameras, NEW r \in Row, camera' = [camera EXCEPT ![c] = r],
           Then(t, StartCamera(c, r)),
           UNCHANGED <<job, used, session, group, stage, life, unsure>>,
           stage < Done => camera[c] = None /\ session[c] = None
    PROVE  RInv'
<1>1. life = "up" /\ WillMatch
  BY ACallIsMade
<1>2. /\ camera \in [Cameras -> Row \cup {None}] /\ camera'[c] = r
      /\ \A d \in Cameras : d # c => camera'[d] = camera[d]
  BY DEF IInv, Typed
<1>3. r # None
  BY NoneAssumption
<1> DEFINE x == [do |-> "startStream", camera |-> c, row |-> r]
           y == [do |-> "tellMotion", camera |-> c, row |-> r]
           steps == <<x, y>>
<1>4. /\ x \in Step /\ y \in Step /\ IsCurrent(x)' /\ IsCurrent(y)' /\ OnlyStarts(x)
      /\ OnlyStarts(y) /\ x.do = "startStream" /\ y.do = "tellMotion" /\ x.camera = c
      /\ y.camera = c
  BY <1>2, StepsThereAre DEF IsCurrent, OnlyStarts, StartingSteps
<1>5. Then(t, steps)
  BY DEF StartCamera
<1> HIDE DEF x, y
<1>6. /\ steps \in Seq(Step) /\ DOMAIN steps = {1, 2} /\ steps[1] = x /\ steps[2] = y
      /\ IsCall(steps)
  BY <1>4, ShortCalls DEF LaterSteps, BootSteps
<1> HIDE DEF steps
<1>7. Arg(t).do \in CallQueries /\ Arg(t).do \notin LaterSteps \cup {"requireCamera"}
  BY DEF CallQueries, LaterSteps
<1>8. /\ StepsAreTyped' /\ Moved(t) /\ FormsOfCalls'
      /\ \A u \in Threads : u # t => todo'[u] = todo[u]
      /\ x \in StepsOf(t)' /\ y \in StepsOf(t)'
      /\ \A z \in StepsOf(t)' : z = x \/ z = y
  <2>1. /\ StepsAreTyped' /\ Moved(t) /\ FormsOfCalls'
        /\ \A u \in Threads : u # t => todo'[u] = todo[u]
        /\ \A i \in DOMAIN steps : steps[i] \in StepsOf(t)'
        /\ \A z \in StepsOf(t)' : \E i \in DOMAIN steps : z = steps[i]
    BY <1>5, <1>6, <1>7, NextOfACall
  <2> QED
    BY <1>6, <2>1
<1>9. StaysDue
  BY <1>7, <1>8, AllStaysDue
<1>10. StreamIsDue(c)' /\ MotionIsDue(c)'
  BY <1>4, <1>8 DEF StreamIsDue, MotionIsDue, Threads
<1>11. Matches'
  BY <1>1, <1>2, <1>9, <1>10, CameraRowMatches DEF WillMatch
<1>12. CopiesAreCurrent'
  <2>1. ASSUME stage < Done, NEW z \in StepsOf(Boot), IsCurrent(z) PROVE IsCurrent(z)'
    <3>1. /\ z \in Step
          /\ z.do \in {"listOrphans", "finalize", "listCameras", "startStream", "tellMotion",
                       "listJobs", "fetchCamera", "applyJob", "stageDone"}
      BY BootsSteps
    <3>2. z.do \in {"startStream", "tellMotion", "applyJob"} =>
             z.camera \in Cameras /\ camera[z.camera] = z.row /\ z.row \in Row
      BY <2>1, <3>1, StepHas DEF IsCurrent
    <3>3. z.do \in {"startStream", "tellMotion", "applyJob"} => camera'[z.camera] = z.row
      BY <1>2, <2>1, <3>2, NoneAssumption
    <3> QED
      BY <2>1, <3>1, <3>3 DEF IsCurrent
  <2> QED
    BY <1>4, <1>8, <2>1, CallersCopies
<1>13. JobsHaveCameras'
  BY <1>2, <1>3 DEF RInv, JobsHaveCameras, IInv, Typed, JobRow
<1>14. group' \in [Cameras -> Group \cup {None}]
  BY DEF RInv
<1> QED
  BY <1>1, <1>8, <1>11, <1>12, <1>13, <1>14, Together

\* createCamera: a camera that is new has no stream yet.
LEMMA CreateMatches ==
    ASSUME IInv, RInv, OneCallAtATime, NEW t \in Callers, createCamera(t)
    PROVE  RInv'
<1> DEFINE c == Arg(t).camera
           r == Arg(t).row
<1>1. /\ t \in Threads /\ At(t, "createCamera") /\ todo[t] # <<>> /\ Arg(t).do = "createCamera"
      /\ camera' = [camera EXCEPT ![c] = r] /\ Then(t, StartCamera(c, r))
      /\ UNCHANGED <<job, used, session, group, stage, life, unsure>>
  BY DEF createCamera, Query, At, Arg, Threads, runtime, process
<1>2. Arg(t) \in Step /\ c \in Creates(t)
  BY <1>1, NextStep DEF IInv
<1>3. c \in Cameras /\ r \in Row
  BY <1>1, <1>2, StepHas
<1>4. camera[c] = None /\ session[c] = None
  BY <1>1, <1>2, <1>3 DEF IInv, ThreadsAreInOrder, CamerasAreMadeOnce, Unmade, Traceless
<1> HIDE DEF c, r
<1> QED
  BY <1>1, <1>3, <1>4, CameraIsWritten

\* updateCamera: the stream restarts from the row that was written.
LEMMA PutMatches ==
    ASSUME IInv, RInv, OneCallAtATime, NEW t \in Callers, putCamera(t)
    PROVE  RInv'
<1> DEFINE c == Arg(t).camera
           r == [version |-> camera[c].version + 1, motion |-> Arg(t).motion]
<1>1. /\ todo[t] # <<>> /\ Arg(t).do = "putCamera" /\ UNCHANGED <<stage, life, unsure>>
      /\ UNCHANGED <<session, group>>
      /\ \/ Ends(t) /\ NothingChanges
         \/ /\ camera[c] # None /\ camera' = [camera EXCEPT ![c] = r]
            /\ Then(t, StartCamera(c, r)) /\ UNCHANGED <<job, used>>
  BY DEF putCamera, Query, NotFound, At, Arg, runtime, process, rows, NothingChanges
<1>2. Arg(t) \in Step /\ (stage < Done => OnlyStarts(Arg(t)))
  BY <1>1, ACallIsMade
<1>3. c \in Cameras /\ Arg(t).motion \in BOOLEAN /\ ~(stage < Done)
  BY <1>1, <1>2, StepHas DEF OnlyStarts, StartingSteps
<1>4. CASE Ends(t) /\ NothingChanges
  BY <1>1, <1>4, EndOfACall DEF CallQueries
<1>5. CASE camera[c] # None /\ camera' = [camera EXCEPT ![c] = r]
           /\ Then(t, StartCamera(c, r)) /\ UNCHANGED <<job, used>>
  <2>1. camera[c] \in Row
    BY <1>3, <1>5 DEF IInv, Typed
  <2>2. r \in Row
    BY <1>3, <2>1 DEF Row
  <2> HIDE DEF c, r
  <2> QED
    BY <1>1, <1>3, <1>5, <2>2, CameraIsWritten
<1> QED
  BY <1>1, <1>4, <1>5

\* The fields of a job's row.
LEMMA JobRowHas ==
    \A d \in Cameras, b \in BOOLEAN :
        /\ [camera |-> d, enabled |-> b] \in JobRow /\ [camera |-> d, enabled |-> b] # None
        /\ [camera |-> d, enabled |-> b].camera = d /\ [camera |-> d, enabled |-> b].enabled = b
<1>1. \A d \in Cameras, b \in BOOLEAN :
         /\ [camera |-> d, enabled |-> b] \in JobRow
         /\ [camera |-> d, enabled |-> b].camera = d /\ [camera |-> d, enabled |-> b].enabled = b
  BY DEF JobRow
<1>2. None \notin JobRow
  BY NoneAssumption
<1> QED
  BY <1>1, <1>2

\* What an enabled job's row says.
LEMMA EnabledIs ==
    ASSUME NEW d \in Cameras, NEW j \in Jobs, Enabled(d, j)
    PROVE  job[j] # None /\ job[j].camera = d /\ job[j].enabled
<1> DEFINE e == [camera |-> d, enabled |-> TRUE]
<1>1. e # None /\ e.camera = d /\ e.enabled = TRUE
  BY JobRowHas
<1>2. job[j] = e
  BY DEF Enabled
<1> HIDE DEF e
<1> QED
  BY <1>1, <1>2

\* The rows of a camera's jobs go with its own.
LEMMA DeleteMatches ==
    ASSUME IInv, RInv, OneCallAtATime, NEW t \in Callers, deleteCamera(t)
    PROVE  RInv'
<1>1. PICK c : c = Arg(t).camera
  OBVIOUS
<1>2. /\ todo[t] # <<>> /\ Arg(t).do = "deleteCamera" /\ UNCHANGED <<stage, life, unsure>>
      /\ UNCHANGED <<session, group, used>>
      /\ \/ Ends(t) /\ NothingChanges
         \/ /\ camera' = [camera EXCEPT ![c] = None] /\ Then(t, DropCamera(c))
            /\ job' = [j \in Jobs |->
                  IF job[j] # None /\ job[j].camera = c THEN None ELSE job[j]]
  BY <1>1 DEF deleteCamera, Query, NotFound, At, Arg, runtime, process, rows, NothingChanges
<1>3. Arg(t) \in Step /\ (stage < Done => OnlyStarts(Arg(t))) /\ life = "up" /\ WillMatch
      /\ t \in Threads
  BY <1>2, ACallIsMade
<1>4. c \in Cameras /\ ~(stage < Done)
  BY <1>1, <1>2, <1>3, StepHas DEF OnlyStarts, StartingSteps, CameraSteps
<1>5. CASE Ends(t) /\ NothingChanges
  BY <1>2, <1>5, EndOfACall DEF CallQueries
<1>6. CASE /\ camera' = [camera EXCEPT ![c] = None] /\ Then(t, DropCamera(c))
           /\ job' = [j \in Jobs |->
                 IF job[j] # None /\ job[j].camera = c THEN None ELSE job[j]]
  <2>1. /\ camera'[c] = None /\ \A d \in Cameras : d # c => camera'[d] = camera[d]
        /\ \A j \in Jobs : job'[j] = IF job[j] # None /\ job[j].camera = c THEN None ELSE job[j]
    BY <1>4, <1>6 DEF IInv, Typed
  <2> DEFINE x == [do |-> "cleanupStream", camera |-> c]
             y == [do |-> "removeCamera", camera |-> c]
             steps == <<x, y>>
  <2>2. /\ x \in Step /\ y \in Step /\ IsCurrent(x)' /\ IsCurrent(y)'
        /\ x.do = "cleanupStream" /\ y.do = "removeCamera" /\ x.camera = c /\ y.camera = c
    BY <1>4, <2>1, StepsThereAre DEF IsCurrent, CameraSteps
  <2>3. Then(t, steps)
    BY <1>6 DEF DropCamera, TakenDown
  <2> HIDE DEF x, y
  <2>4. /\ steps \in Seq(Step) /\ DOMAIN steps = {1, 2} /\ steps[1] = x /\ steps[2] = y
        /\ IsCall(steps)
    BY <2>2, ShortCalls DEF LaterSteps, BootSteps
  <2> HIDE DEF steps
  <2>5. Arg(t).do \in CallQueries /\ Arg(t).do \notin LaterSteps \cup {"requireCamera"}
    BY <1>2 DEF CallQueries, LaterSteps
  <2>6. /\ StepsAreTyped' /\ Moved(t) /\ FormsOfCalls'
        /\ \A u \in Threads : u # t => todo'[u] = todo[u]
        /\ \A i \in DOMAIN steps : steps[i] \in StepsOf(t)'
        /\ \A z \in StepsOf(t)' : \E i \in DOMAIN steps : z = steps[i]
    BY <1>2, <2>3, <2>4, <2>5, NextOfACall
  <2>7. x \in StepsOf(t)' /\ y \in StepsOf(t)' /\ \A z \in StepsOf(t)' : z = x \/ z = y
    BY <2>4, <2>6
  <2>8. StaysDue
    BY <1>2, <2>5, <2>6, AllStaysDue
  <2>9. StreamIsDue(c)' /\ MotionIsDue(c)' /\ RemovalIsDue(c)'
    BY <1>3, <2>2, <2>7 DEF StreamIsDue, MotionIsDue, RemovalIsDue
  <2>10. Matches'
    <3> USE DEF Matches, WillMatch
    <3>1. \A d \in Cameras, j \in Jobs : /\ Keeps(d, j)' <=> Keeps(d, j)
                                         /\ Runs(d, j)' <=> Runs(d, j)
      BY <1>2 DEF Keeps, Runs
    <3>2. JobsAreAtHome'
      <4> SUFFICES ASSUME NEW d \in Cameras, NEW j \in Jobs, Keeps(d, j), ~RemovalIsDue(d)'
                   PROVE  (job'[j] # None /\ job'[j].camera = d) \/ JobGoes(d, j)'
        BY <3>1 DEF JobsAreAtHome
      <4>1. d # c /\ ~RemovalIsDue(d)
        BY <2>8, <2>9 DEF StaysDue
      <4>2. (job[j] # None /\ job[j].camera = d) \/ JobGoes(d, j)
        BY <1>3, <4>1 DEF JobsAreAtHome
      <4> QED
        BY <2>1, <2>8, <4>1, <4>2 DEF StaysDue
    <3>3. StreamsWillMatch'
      BY <1>2, <1>3, <2>1, <2>8, <2>9 DEF StreamsWillMatch, StreamMatches, StaysDue
    <3>4. GroupsWillMatch'
      BY <1>2, <1>3, <2>1, <2>8, <2>9 DEF GroupsWillMatch, GroupMatches, StaysDue
    <3>5. JobsWillMatch'
      <4>1. \A d \in Cameras, j \in Jobs : d # c => (Enabled(d, j)' <=> Enabled(d, j))
        <5> SUFFICES ASSUME NEW d \in Cameras, NEW j \in Jobs, d # c
                     PROVE  Enabled(d, j)' <=> Enabled(d, j)
          OBVIOUS
        <5> DEFINE e == [camera |-> d, enabled |-> TRUE]
        <5>1. e # None /\ e.camera = d
          BY JobRowHas
        <5>2. Enabled(d, j) <=> job[j] = e
          BY DEF Enabled
        <5>3. Enabled(d, j)' <=> job'[j] = e
          BY DEF Enabled
        <5> HIDE DEF e
        <5> QED
          BY <2>1, <5>1, <5>2, <5>3
      <4> QED
        BY <1>2, <1>3, <2>8, <2>9, <3>1, <4>1 DEF JobsWillMatch, StaysDue
    <3>6. NothingStale'
      BY <1>2, <1>4 DEF NothingStale
    <3> QED
      BY <3>2, <3>3, <3>4, <3>5, <3>6
  <2>11. CopiesAreCurrent'
    BY <1>2, <1>4, <2>2, <2>6, <2>7, CallersCopies
  <2>12. JobsHaveCameras'
    BY <1>2, <2>1 DEF RInv, JobsHaveCameras, IInv, Typed, JobRow
  <2>13. group' \in [Cameras -> Group \cup {None}]
    BY <1>2 DEF RInv
  <2> QED
    BY <1>2, <1>3, <2>6, <2>10, <2>11, <2>12, <2>13, Together
<1> QED
  BY <1>2, <1>5, <1>6

\* The job's row is written, and something is done about the job.
LEMMA JobIsWritten ==
    ASSUME IInv, RInv, OneCallAtATime, NEW t \in Callers, todo[t] # <<>>,
           Arg(t).do \in {"writeJob", "setJobEnabled", "deleteJob"},
           NEW j \in Jobs, NEW r, job' = [job EXCEPT ![j] = r],
           UNCHANGED <<camera, used, session, group, stage, life, unsure>>,
           r # None => r \in JobRow /\ camera[r.camera] # None /\ j \in used,
           NEW x \in Step, Then(t, <<x>>), IsCurrent(x)',
           x.do \in {"fetchCamera", "removeJob"}, x.job = j,
           stage < Done => /\ OnlyStarts(x)
                           /\ job[j] = None \/ r = job[j] \/ ~job[j].enabled
                           /\ job[j] # None => r = [camera |-> job[j].camera, enabled |-> TRUE],
           \A d \in Cameras : job[j] # None /\ job[j].camera = d =>
              (r # None /\ r.camera = d) \/ (x.do = "removeJob" /\ x.camera = d)
    PROVE  RInv'
<1>1. life = "up" /\ WillMatch /\ t \in Threads
  BY ACallIsMade
<1>2. /\ job \in [Jobs -> JobRow \cup {None}] /\ job'[j] = r
      /\ \A k \in Jobs : k # j => job'[k] = job[k]
  BY DEF IInv, Typed
<1> DEFINE steps == <<x>>
<1>3. steps \in Seq(Step) /\ DOMAIN steps = {1} /\ steps[1] = x /\ IsCall(steps) /\ Then(t, steps)
  BY ShortCalls DEF BootSteps
<1> HIDE DEF steps
<1>4. Arg(t).do \in CallQueries /\ Arg(t).do \notin LaterSteps \cup {"requireCamera"}
  BY DEF CallQueries, LaterSteps
<1>5. /\ StepsAreTyped' /\ Moved(t) /\ FormsOfCalls'
      /\ \A u \in Threads : u # t => todo'[u] = todo[u]
      /\ \A i \in DOMAIN steps : steps[i] \in StepsOf(t)'
      /\ \A z \in StepsOf(t)' : \E i \in DOMAIN steps : z = steps[i]
  BY <1>3, <1>4, NextOfACall
<1>6. x \in StepsOf(t)' /\ \A z \in StepsOf(t)' : z = x
  BY <1>3, <1>5
<1>7. StaysDue
  BY <1>4, <1>5, AllStaysDue
<1>8. JobIsDue(j)' /\ \A d \in Cameras : x.do = "removeJob" /\ x.camera = d => JobGoes(d, j)'
  BY <1>1, <1>6 DEF JobIsDue, JobGoes
<1>9. ASSUME NEW d \in Cameras, Keeps(d, j)
      PROVE  (r # None /\ r.camera = d) \/ JobGoes(d, j)' \/ RemovalIsDue(d)'
  BY <1>1, <1>7, <1>8, <1>9 DEF WillMatch, Matches, JobsAreAtHome, StaysDue
<1>10. ASSUME stage < Done, NEW d \in Cameras, Runs(d, j)
       PROVE  r = [camera |-> d, enabled |-> TRUE]
  <2>1. job[j] = [camera |-> d, enabled |-> TRUE]
    BY <1>1, <1>10 DEF WillMatch, Matches, NothingStale, Enabled
  <2>2. job[j] # None /\ job[j].camera = d
    BY <2>1, JobRowHas
  <2> QED
    BY <1>10, <2>2
<1>11. Matches'
  BY <1>1, <1>2, <1>7, <1>8, <1>9, <1>10, JobRowMatches DEF WillMatch
<1>12. CopiesAreCurrent'
  <2>1. ASSUME stage < Done, NEW z \in StepsOf(Boot), IsCurrent(z), BootsOwn(z)
        PROVE  IsCurrent(z)'
    <3>1. /\ z \in Step
          /\ z.do \in {"listOrphans", "finalize", "listCameras", "startStream", "tellMotion",
                       "listJobs", "fetchCamera", "applyJob", "stageDone"}
      BY BootsSteps
    <3>2. CASE z.do = "fetchCamera"
      <4>1. z.job \in Jobs /\ job[z.job] = z.row /\ z.row.enabled /\ z.row \in JobRow
        BY <2>1, <3>1, <3>2, StepHas DEF IsCurrent, BootsOwn
      <4>2. z.job = j => r = z.row
        BY <2>1, <4>1, NoneAssumption
      <4> QED
        BY <1>2, <3>2, <4>1, <4>2 DEF IsCurrent
    <3>3. CASE z.do = "applyJob"
      <4>1. /\ z.job \in Jobs /\ z.camera \in Cameras /\ z.enabled = TRUE
            /\ job[z.job] = [camera |-> z.camera, enabled |-> z.enabled]
            /\ camera[z.camera] = z.row
        BY <2>1, <3>1, <3>3, StepHas DEF IsCurrent, BootsOwn
      <4>2. z.job = j => r = job[j]
        <5>1. PICK d \in Cameras : d = z.camera
          BY <4>1
        <5>2. job[z.job] = [camera |-> d, enabled |-> TRUE]
          BY <4>1, <5>1
        <5>3. job[z.job] # None /\ job[z.job].camera = d /\ job[z.job].enabled = TRUE
          BY <5>2, JobRowHas
        <5> QED
          BY <2>1, <5>2, <5>3
      <4> QED
        BY <1>2, <3>3, <4>1, <4>2 DEF IsCurrent
    <3>4. CASE z.do \notin {"fetchCamera", "applyJob"}
      BY <2>1, <3>1, <3>4 DEF IsCurrent
    <3> QED
      BY <3>2, <3>3, <3>4
  <2> QED
    BY <1>5, <1>6, <2>1, CallersCopies
<1>13. JobsHaveCameras'
  BY <1>2 DEF RInv, JobsHaveCameras
<1>14. group' \in [Cameras -> Group \cup {None}]
  BY DEF RInv
<1> QED
  BY <1>1, <1>5, <1>11, <1>12, <1>13, <1>14, Together

\* syncToManager carries the row as it was written.
LEMMA SyncIsCurrent ==
    ASSUME NEW j \in Jobs, NEW r \in JobRow, job'[j] = r
    PROVE  \E x \in Step : /\ SyncJob(j, r) = <<x>> /\ IsCurrent(x)' /\ OnlyStarts(x)
                            /\ x.do = "fetchCamera" /\ x.job = j
<1> DEFINE x == [do |-> "fetchCamera", job |-> j, row |-> r]
<1>1. /\ x \in Step /\ SyncJob(j, r) = <<x>> /\ IsCurrent(x)' /\ OnlyStarts(x)
      /\ x.do = "fetchCamera" /\ x.job = j
  BY StepsThereAre DEF IsCurrent, OnlyStarts, StartingSteps, SyncJob
<1> HIDE DEF x
<1> QED
  BY <1>1

\* AiManager::removeJob is called for jobs that are gone or disabled.
LEMMA RemoveIsCurrent ==
    ASSUME NEW j \in Jobs, NEW d \in Cameras,
           job'[j] \in {None, [camera |-> d, enabled |-> FALSE]}
    PROVE  \E x \in Step : /\ RemoveJob(j, d) = <<x>> /\ IsCurrent(x)'
                            /\ x.do = "removeJob" /\ x.job = j /\ x.camera = d
<1> DEFINE x == [do |-> "removeJob", job |-> j, camera |-> d]
<1>1. /\ x \in Step /\ RemoveJob(j, d) = <<x>> /\ IsCurrent(x)'
      /\ x.do = "removeJob" /\ x.job = j /\ x.camera = d
  BY StepsThereAre DEF IsCurrent, RemoveJob
<1> HIDE DEF x
<1> QED
  BY <1>1

\* createAiJob, updateAiJob: the job stays with its camera.
LEMMA WriteJobMatches ==
    ASSUME IInv, RInv, OneCallAtATime, NEW t \in Callers, writeJob(t)
    PROVE  RInv'
<1> DEFINE j == Arg(t).job
           r == Arg(t).row
<1>1. /\ todo[t] # <<>> /\ Arg(t).do = "writeJob" /\ UNCHANGED <<stage, life, unsure>>
      /\ UNCHANGED <<session, group>>
      /\ \/ Ends(t) /\ NothingChanges
         \/ /\ camera[r.camera] # None /\ job' = [job EXCEPT ![j] = r]
            /\ Then(t, SyncJob(j, r)) /\ UNCHANGED <<camera, used>>
  BY DEF writeJob, Query, At, Arg, runtime, process, rows, NothingChanges
<1>2. /\ Arg(t) \in Step /\ IsCurrent(Arg(t)) /\ (stage < Done => OnlyStarts(Arg(t)))
      /\ todo[t] # <<>>
  BY <1>1, ACallIsMade
<1>3. j \in Jobs /\ r \in JobRow /\ Arg(t).new \in BOOLEAN
  BY <1>1, <1>2 DEF Step, CameraSteps, BootSteps
<1>4. CASE Ends(t) /\ NothingChanges
  BY <1>1, <1>4, EndOfACall DEF CallQueries
<1>5. CASE /\ camera[r.camera] # None /\ job' = [job EXCEPT ![j] = r]
           /\ Then(t, SyncJob(j, r)) /\ UNCHANGED <<camera, used>>
  <2>1. /\ j \in used
        /\ Arg(t).new => job[j] = None
        /\ ~Arg(t).new => job[j] # None /\ job[j].camera = r.camera
    BY <1>1, <1>2, <1>3 DEF IsCurrent
  <2>2. stage < Done => Arg(t).new
    BY <1>1, <1>2 DEF OnlyStarts
  <2>3. job'[j] = r /\ r # None
    BY <1>3, <1>5, NoneAssumption DEF IInv, Typed
  <2> HIDE DEF j, r
  <2>4. PICK x \in Step : /\ SyncJob(j, r) = <<x>> /\ IsCurrent(x)' /\ OnlyStarts(x)
                          /\ x.do = "fetchCamera" /\ x.job = j
    BY <1>3, <2>3, SyncIsCurrent
  <2>5. Then(t, <<x>>)
    BY <1>5, <2>4
  <2>6. (stage < Done => job[j] = None) /\ (job[j] # None => job[j].camera = r.camera)
    BY <1>3, <2>1, <2>2
  <2>7. /\ todo[t] # <<>> /\ Arg(t).do \in {"writeJob", "setJobEnabled", "deleteJob"}
        /\ x.do \in {"fetchCamera", "removeJob"} /\ job' = [job EXCEPT ![j] = r]
        /\ UNCHANGED <<camera, used, session, group, stage, life, unsure>>
        /\ r # None => r \in JobRow /\ camera[r.camera] # None /\ j \in used
    BY <1>1, <1>3, <1>5, <2>1, <2>4
  <2>8. \A f \in Cameras : job[j] # None /\ job[j].camera = f =>
              (r # None /\ r.camera = f) \/ (x.do = "removeJob" /\ x.camera = f)
    BY <2>3, <2>6
  <2> QED
    BY <1>3, <2>4, <2>5, <2>6, <2>7, <2>8, JobIsWritten
<1> QED
  BY <1>1, <1>4, <1>5

\* startAiJob, stopAiJob.
LEMMA EnableMatches ==
    ASSUME IInv, RInv, OneCallAtATime, NEW t \in Callers, setJobEnabled(t)
    PROVE  RInv'
<1> DEFINE j == Arg(t).job
           e == Arg(t).enabled
           r == [job[j] EXCEPT !.enabled = e]
<1>1. /\ todo[t] # <<>> /\ Arg(t).do = "setJobEnabled" /\ UNCHANGED <<stage, life, unsure>>
      /\ UNCHANGED <<session, group>>
      /\ \/ Ends(t) /\ NothingChanges
         \/ /\ job[j] # None /\ job' = [job EXCEPT ![j] = r]
            /\ Then(t, IF r.enabled THEN SyncJob(j, r) ELSE RemoveJob(j, r.camera))
            /\ UNCHANGED <<camera, used>>
  BY DEF setJobEnabled, Query, NotFound, At, Arg, runtime, process, rows, NothingChanges
<1>2. Arg(t) \in Step /\ (stage < Done => OnlyStarts(Arg(t)))
  BY <1>1, ACallIsMade
<1>3. j \in Jobs /\ e \in BOOLEAN /\ (stage < Done => e)
  BY <1>1, <1>2, StepHas DEF OnlyStarts
<1>4. CASE Ends(t) /\ NothingChanges
  BY <1>1, <1>4, EndOfACall DEF CallQueries
<1>5. CASE /\ job[j] # None /\ job' = [job EXCEPT ![j] = r]
           /\ Then(t, IF r.enabled THEN SyncJob(j, r) ELSE RemoveJob(j, r.camera))
           /\ UNCHANGED <<camera, used>>
  <2>1. job[j] \in JobRow
    BY <1>3, <1>5 DEF IInv, Typed
  <2>2. PICK d \in Cameras, b \in BOOLEAN : job[j] = [camera |-> d, enabled |-> b]
    BY <2>1 DEF JobRow
  <2>3. /\ r = [camera |-> d, enabled |-> e] /\ r \in JobRow /\ r # None /\ r.camera = d
        /\ (r.enabled <=> e) /\ job[j].camera = d /\ job[j].enabled = b
    BY <1>3, <2>2, JobRowHas
  <2>4. camera[r.camera] # None /\ j \in used /\ job'[j] = r
    BY <1>3, <1>5, <2>3 DEF RInv, JobsHaveCameras, IInv, Typed
  <2>5. stage < Done => (r = job[j] \/ ~job[j].enabled) /\ r = [camera |-> d, enabled |-> TRUE]
    BY <1>3, <2>2, <2>3
  <2>6. ~e => r = [camera |-> d, enabled |-> FALSE]
    BY <1>3, <2>3
  <2> HIDE DEF j, e, r
  <2>7. \E x \in Step :
           /\ Then(t, <<x>>) /\ IsCurrent(x)' /\ x.do \in {"fetchCamera", "removeJob"}
           /\ x.job = j /\ (stage < Done => OnlyStarts(x))
    <3>1. CASE e
      <4>1. Then(t, SyncJob(j, r))
        BY <1>5, <2>3, <3>1
      <4> QED
        BY <1>3, <2>3, <2>4, <4>1, SyncIsCurrent
    <3>2. CASE ~e
      <4>1. Then(t, RemoveJob(j, d))
        BY <1>5, <2>3, <3>2
      <4> QED
        BY <1>3, <2>4, <2>6, <3>2, <4>1, RemoveIsCurrent
    <3> QED
      BY <3>1, <3>2
  <2>8. PICK x \in Step :
           /\ Then(t, <<x>>) /\ IsCurrent(x)' /\ x.do \in {"fetchCamera", "removeJob"}
           /\ x.job = j /\ (stage < Done => OnlyStarts(x))
    BY <2>7
  <2> QED
    BY <1>1, <1>3, <1>5, <2>3, <2>4, <2>5, <2>8, JobIsWritten
<1> QED
  BY <1>1, <1>4, <1>5

\* deleteAiJob.
LEMMA DeleteJobMatches ==
    ASSUME IInv, RInv, OneCallAtATime, NEW t \in Callers, deleteJob(t)
    PROVE  RInv'
<1> DEFINE j == Arg(t).job
<1>1. /\ todo[t] # <<>> /\ Arg(t).do = "deleteJob" /\ UNCHANGED <<stage, life, unsure>>
      /\ UNCHANGED <<session, group>>
      /\ \/ Ends(t) /\ NothingChanges
         \/ /\ job[j] # None /\ job' = [job EXCEPT ![j] = None]
            /\ Then(t, RemoveJob(j, job[j].camera)) /\ UNCHANGED <<camera, used>>
  BY DEF deleteJob, Query, NotFound, At, Arg, runtime, process, rows, NothingChanges
<1>2. Arg(t) \in Step /\ (stage < Done => OnlyStarts(Arg(t)))
  BY <1>1, ACallIsMade
<1>3. j \in Jobs /\ ~(stage < Done)
  BY <1>1, <1>2, StepHas DEF OnlyStarts, StartingSteps
<1>4. CASE Ends(t) /\ NothingChanges
  BY <1>1, <1>4, EndOfACall DEF CallQueries
<1>5. CASE /\ job[j] # None /\ job' = [job EXCEPT ![j] = None]
           /\ Then(t, RemoveJob(j, job[j].camera)) /\ UNCHANGED <<camera, used>>
  <2>1. PICK d \in Cameras : d = job[j].camera
    BY <1>3, <1>5 DEF IInv, Typed, JobRow
  <2>2. job'[j] = None
    BY <1>3, <1>5 DEF IInv, Typed
  <2> HIDE DEF j
  <2>3. PICK x \in Step : /\ RemoveJob(j, d) = <<x>> /\ IsCurrent(x)'
                          /\ x.do = "removeJob" /\ x.job = j /\ x.camera = d
    BY <1>3, <2>2, RemoveIsCurrent
  <2>4. Then(t, <<x>>)
    BY <1>5, <2>1, <2>3
  <2>5. PICK r : r = None
    OBVIOUS
  <2>6. job' = [job EXCEPT ![j] = r] /\ UNCHANGED <<camera, used>>
    BY <1>5, <2>5
  <2>7. /\ todo[t] # <<>> /\ Arg(t).do \in {"writeJob", "setJobEnabled", "deleteJob"}
        /\ j \in Jobs /\ x.do \in {"fetchCamera", "removeJob"}
        /\ UNCHANGED <<camera, used, session, group, stage, life, unsure>>
        /\ r # None => r \in JobRow /\ camera[r.camera] # None /\ j \in used
    BY <1>1, <1>3, <2>3, <2>5, <2>6
  <2>8. \A f \in Cameras : job[j] # None /\ job[j].camera = f =>
              (r # None /\ r.camera = f) \/ (x.do = "removeJob" /\ x.camera = f)
    BY <2>1, <2>3
  <2> QED
    BY <1>3, <2>3, <2>4, <2>6, <2>7, <2>8, JobIsWritten
<1> QED
  BY <1>1, <1>4, <1>5

-----------------------------------------------------------------------------
(* Calls into the runtime.                                                 *)

\* The step a thread is at is current, and may be taken at this stage.
LEMMA AThreadsStep ==
    ASSUME IInv, RInv, life = "up", NEW t \in Threads, todo[t] # <<>>
    PROVE  /\ WillMatch /\ StepsAreTyped /\ Arg(t) \in StepsOf(t) /\ Arg(t) \in Step
           /\ IsCurrent(Arg(t))
           /\ t \in Callers /\ stage < Done => OnlyStarts(Arg(t))
           /\ t = Boot => BootsOwn(Arg(t)) /\ stage < Done
<1>1. WillMatch /\ StepsAreTyped /\ BootKeepsToItsStage
  BY DEF RInv, IInv, ThreadsAreInOrder
<1>2. StepsOf(t) \subseteq Step /\ Arg(t) \in StepsOf(t)
  BY <1>1, WhatAThreadHas
<1> QED
  BY <1>1, <1>2 DEF WillMatch, CopiesAreCurrent, BootKeepsToItsStage

\* The start-up thread has gone on: what it has to do holds no list any more.
LEMMA NoListIsLeft ==
    ASSUME FormsOfCalls, StepsAreTyped, Boot \in Threads, todo[Boot] # <<>>,
           NEW steps \in Seq(Step), Then(Boot, steps),
           \A i \in DOMAIN steps : steps[i].do \notin Lists
    PROVE  \A i \in DOMAIN todo'[Boot] : todo'[Boot][i].do \notin Lists
<1> DEFINE s == todo[Boot]
           q == steps \o Tail(s)
<1>1. s \in Seq(Step) /\ todo \in [Threads -> Seq(Step)]
  BY DEF StepsAreTyped
<1>2. todo'[Boot] = q
  BY <1>1 DEF Then
<1> HIDE DEF q
<1>3. \A i \in DOMAIN q : \/ i \in DOMAIN steps /\ q[i] = steps[i]
                          \/ i - Len(steps) + 1 \in 2 .. Len(s) /\ q[i] = s[i - Len(steps) + 1]
  BY <1>1, Prepending DEF q
<1>4. \A i \in 2 .. Len(s) : s[i].do \notin Lists
  <2>1. \A i \in 2 .. Len(s) : i \in DOMAIN s /\ 1 \in DOMAIN s /\ i # 1
    BY <1>1
  <2> QED
    BY <2>1 DEF FormsOfCalls
<1> QED
  BY <1>2, <1>3, <1>4

\* A call into the runtime is done.
LEMMA TaskDone ==
    ASSUME IInv, RInv, life = "up", NEW t \in Threads, todo[t] # <<>>,
           NEW steps \in Seq(Step), Then(t, steps),
           \/ steps = <<>>
           \/ \E m \in Step : /\ steps = <<m>> /\ m.do = "motionOff" /\ t \in Callers
                              /\ ~(stage < Done),
           Arg(t).do \notin Lists, UNCHANGED <<camera, job, used, stage>>
    PROVE  /\ StepsAreTyped' /\ Moved(t) /\ CopiesAreCurrent' /\ FormsOfCalls' /\ JobsHaveCameras'
           /\ StreamsToList => StreamsToList'
           /\ JobsToList => JobsToList'
<1>1. /\ WillMatch /\ StepsAreTyped /\ Arg(t) \in Step /\ Boot \in Threads
      /\ todo[t] \in Seq(Step)
  BY AThreadsStep DEF Threads, StepsAreTyped
<1>2. /\ StepsAreTyped' /\ Moved(t) /\ todo'[t] = steps \o Tail(todo[t])
      /\ \A x \in StepsOf(t)' : x \in StepsOf(t) \/ \E i \in DOMAIN steps : x = steps[i]
  BY <1>1, ThenMoves
<1>3. CopiesAreCurrent'
  <2>1. ASSUME NEW i \in DOMAIN steps
        PROVE  steps[i].do = "motionOff" /\ t \in Callers /\ ~(stage < Done)
    <3>1. steps # <<>>
      BY ShortCalls
    <3>2. PICK m \in Step : /\ steps = <<m>> /\ m.do = "motionOff" /\ t \in Callers
                            /\ ~(stage < Done)
      BY <3>1
    <3> QED
      BY <3>2, ShortCalls
  <2>2. \A u \in Threads : u # t => todo'[u] = todo[u]
    BY <1>2 DEF Moved
  <2>3. ASSUME NEW x, x.do = "motionOff" PROVE IsCurrent(x)' /\ BootsOwn(x)
    BY <2>3 DEF IsCurrent, BootsOwn
  <2> QED
    BY <1>1, <1>2, <2>1, <2>2, <2>3, CopiesStay DEF WillMatch
<1>4. FormsOfCalls'
  <2>1. CASE t = Boot
    <3>1. \A i \in DOMAIN steps : FALSE
      BY <2>1, ThreadAssumption, ShortCalls
    <3>2. FormsOfCalls
      BY <1>1 DEF WillMatch
    <3>3. \A i \in DOMAIN todo'[Boot] : todo'[Boot][i].do \notin Lists
      BY <1>1, <2>1, <3>1, <3>2, NoListIsLeft
    <3>4. \A u \in Callers : todo'[u] = todo[u]
      BY <1>2, <2>1, ThreadAssumption DEF Moved, Threads
    <3> QED
      BY <1>1, <3>3, <3>4 DEF FormsOfCalls, WillMatch
  <2>2. CASE t # Boot
    <3>1. t \in Callers
      BY <2>2 DEF Threads
    <3>2. IsCall(todo[t])
      BY <1>1, <3>1 DEF WillMatch, FormsOfCalls
    <3>3. IsCall(todo'[t])
      <4>1. /\ Tail(todo[t]) \in Seq(Step) /\ IsCall(Tail(todo[t]))
            /\ \A x \in Step : x.do \in LaterSteps => IsCall(<<x>> \o Tail(todo[t]))
        BY <1>1, <3>2, RestOfACall
      <4>2. CASE steps = <<>>
        <5>1. todo'[t] = Tail(todo[t])
          BY <1>2, <4>1, <4>2
        <5> QED
          BY <4>1, <5>1
      <4>3. CASE steps # <<>>
        <5>1. PICK m \in Step : steps = <<m>> /\ m.do = "motionOff"
          BY <4>3
        <5>2. m.do \in LaterSteps
          BY <5>1 DEF LaterSteps
        <5> QED
          BY <1>2, <4>1, <5>1, <5>2
      <4> QED
        BY <4>2, <4>3
    <3>4. \A u \in Threads : u # t => todo'[u] = todo[u]
      BY <1>2 DEF Moved
    <3> QED
      BY <1>1, <2>2, <3>3, <3>4 DEF FormsOfCalls, WillMatch, Threads
  <2> QED
    BY <2>1, <2>2
<1>5. JobsHaveCameras'
  BY DEF RInv, JobsHaveCameras
<1>6. Arg(t).do # "listCameras" /\ Arg(t).do # "listJobs"
  BY DEF Lists
<1>7. StreamsToList => StreamsToList'
  BY <1>1, <1>2, <1>6, ListsStay DEF StreamsToList
<1>8. JobsToList => JobsToList'
  BY <1>1, <1>2, <1>6, ListsStay DEF JobsToList
<1> QED
  BY <1>2, <1>3, <1>4, <1>5, <1>7, <1>8

\* While the process is stopped nothing has to match.
LEMMA ClosingMatches ==
    ASSUME RInv, life # "up", life' = life, UNCHANGED <<camera, job, used>>,
           \A u \in Callers : todo'[u] = todo[u], group' \in [Cameras -> Group \cup {None}],
           group' = group \/ life # "down"
    PROVE  RInv'
<1>1. JobsHaveCameras' /\ CallersAreDone'
  BY DEF RInv, JobsHaveCameras, CallersAreDone
<1> QED
  BY <1>1 DEF RInv

\* A stream has been started or stopped.
LEMMA StreamMatchesAgain ==
    ASSUME IInv, RInv, life = "up", NEW t \in Threads, todo[t] # <<>>,
           Arg(t).do \in {"startStream", "stopStream", "cleanupStream"},
           NEW steps \in Seq(Step), Then(t, steps),
           \/ steps = <<>>
           \/ \E m \in Step : /\ steps = <<m>> /\ m.do = "motionOff" /\ t \in Callers
                              /\ ~(stage < Done),
           UNCHANGED <<camera, job, used, stage, life, group, unsure>>,
           NEW c \in Cameras, c = Arg(t).camera, NEW s, session' = [session EXCEPT ![c] = s],
           \/ StreamMatches(c)'
           \/ Arg(t).do = "stopStream" /\ ~(stage < Done) /\ (StreamMatches(c) => StreamMatches(c)')
    PROVE  RInv'
<1>1. WillMatch /\ session \in [Cameras -> Session \cup {None}]
  BY AThreadsStep DEF IInv, Typed
<1>2. Arg(t).do \notin Lists
  BY DEF Lists
<1>3. /\ Moved(t) /\ CopiesAreCurrent' /\ FormsOfCalls' /\ JobsHaveCameras'
      /\ StreamsToList => StreamsToList'
      /\ JobsToList => JobsToList'
  BY <1>2, TaskDone
<1>4. /\ \A d \in Cameras : /\ StreamIsDue(d) => StreamIsDue(d)' \/ (d = c /\ StreamMatches(c)')
                            /\ MotionIsDue(d) => MotionIsDue(d)'
                            /\ RemovalIsDue(d) => RemovalIsDue(d)'
      /\ \A j \in Jobs : JobIsDue(j) => JobIsDue(j)'
      /\ \A d \in Cameras, j \in Jobs : JobGoes(d, j) => JobGoes(d, j)'
  BY <1>3, WhatStaysDue
<1>5. \A d \in Cameras : d # c => session'[d] = session[d]
  BY <1>1
<1>6. \A d \in Cameras : d # c => (StreamMatches(d)' <=> StreamMatches(d))
  BY <1>5 DEF StreamMatches
<1>7. \A d \in Cameras, j \in Jobs : /\ Keeps(d, j)' <=> Keeps(d, j)
                                     /\ Runs(d, j)' <=> Runs(d, j)
                                     /\ Enabled(d, j)' <=> Enabled(d, j)
  BY DEF Keeps, Runs, Enabled
<1>8. JobsAreAtHome'
  BY <1>1, <1>4, <1>7 DEF WillMatch, Matches, JobsAreAtHome
<1>9. StreamsWillMatch'
  <2> SUFFICES ASSUME NEW d \in Cameras
               PROVE  (StreamMatches(d) \/ StreamIsDue(d) \/ StreamsToList)'
    BY DEF StreamsWillMatch
  <2>1. StreamMatches(d) \/ StreamIsDue(d) \/ StreamsToList
    BY <1>1 DEF WillMatch, Matches, StreamsWillMatch
  <2> QED
    BY <1>3, <1>4, <1>6, <2>1
<1>10. GroupsWillMatch'
  BY <1>1, <1>4 DEF WillMatch, Matches, GroupsWillMatch, GroupMatches
<1>11. JobsWillMatch'
  BY <1>1, <1>3, <1>4, <1>7 DEF WillMatch, Matches, JobsWillMatch
<1>12. NothingStale'
  <2> SUFFICES ASSUME stage < Done, NEW d \in Cameras
               PROVE  /\ session'[d] # None => StreamMatches(d)'
                      /\ \A j \in Jobs : Runs(d, j) => Enabled(d, j)
    BY <1>7 DEF NothingStale
  <2> QED
    BY <1>1, <1>5, <1>6 DEF WillMatch, Matches, NothingStale
<1>13. life' = "up" /\ group' \in [Cameras -> Group \cup {None}]
  BY DEF RInv
<1> QED
  BY <1>3, <1>8, <1>9, <1>10, <1>11, <1>12, <1>13, Together DEF Matches

\* startCamera: the stream plays what the row says.
LEMMA StartMatches ==
    ASSUME IInv, RInv, NEW t \in Threads, startStream(t)
    PROVE  RInv'
<1>1. PICK c, r : c = Arg(t).camera /\ r = Arg(t).row
  OBVIOUS
<1>2. /\ todo[t] # <<>> /\ Arg(t).do = "startStream" /\ Then(t, <<>>)
      /\ UNCHANGED <<camera, job, used, stage, life, group, unsure>>
      /\ session' = [session EXCEPT ![c] = [version |-> r.version, on |-> TRUE]]
  BY <1>1 DEF startStream, Direct, At, Arg, rows, process
<1>3. Then(t, <<>>) /\ <<>> \in Seq(Step)
  BY <1>2, ShortCalls
<1>4. CASE life = "up"
  <2>1. Arg(t) \in Step /\ IsCurrent(Arg(t))
    BY <1>2, <1>4, AThreadsStep
  <2>2. c \in Cameras /\ r \in Row /\ camera[c] = r
    BY <1>1, <1>2, <2>1, StepHas DEF IsCurrent
  <2> DEFINE s == [version |-> r.version, on |-> TRUE]
  <2>3. s \in Session /\ s.version = r.version /\ s # None /\ r # None
    <3>1. s \in Session /\ s.version = r.version
      BY <2>2 DEF Session, Row
    <3> HIDE DEF s
    <3> QED
      BY <2>2, <3>1, NoneAssumption
  <2> HIDE DEF s
  <2>4. session' = [session EXCEPT ![c] = s] /\ session'[c] = s
    BY <1>2, <2>2 DEF s, IInv, Typed
  <2>5. StreamMatches(c)'
    BY <1>2, <2>2, <2>3, <2>4 DEF StreamMatches
  <2> QED
    BY <1>1, <1>2, <1>3, <1>4, <2>2, <2>4, <2>5, StreamMatchesAgain
<1>5. CASE life # "up"
  <2>1. \A u \in Callers : todo[u] = <<>> /\ u \in Threads /\ u # Boot
    BY <1>5, ThreadAssumption DEF RInv, CallersAreDone, Threads
  <2>2. \A u \in Threads : u # t => todo'[u] = todo[u]
    BY <1>2 DEF Then, IInv, ThreadsAreInOrder, StepsAreTyped
  <2>3. \A u \in Callers : todo'[u] = todo[u]
    BY <1>2, <2>1, <2>2
  <2>4. group' \in [Cameras -> Group \cup {None}]
    BY <1>2 DEF RInv
  <2> QED
    BY <1>2, <1>5, <2>3, <2>4, ClosingMatches
<1> QED
  BY <1>4, <1>5

\* stopCamera: the session stays as the row says, switched off.
LEMMA StopMatches ==
    ASSUME IInv, RInv, NEW t \in Callers, stopStream(t)
    PROVE  RInv'
<1>1. PICK c : c = Arg(t).camera
  OBVIOUS
<1> DEFINE s == IF session[c] = None THEN None ELSE [session[c] EXCEPT !.on = FALSE]
<1>2. /\ todo[t] # <<>> /\ Arg(t).do = "stopStream" /\ Then(t, <<>>)
      /\ UNCHANGED <<camera, job, used, stage, life, group, unsure>>
      /\ session' = [session EXCEPT ![c] = s]
  BY <1>1 DEF stopStream, Direct, At, Arg, rows, process
<1>3. t \in Threads /\ life = "up" /\ <<>> \in Seq(Step)
  BY <1>2, ShortCalls DEF RInv, CallersAreDone, Threads
<1>4. Arg(t) \in Step /\ (stage < Done => OnlyStarts(Arg(t)))
  BY <1>2, <1>3, AThreadsStep
<1>5. c \in Cameras /\ ~(stage < Done)
  BY <1>1, <1>2, <1>4, StepHas DEF OnlyStarts, StartingSteps, CameraSteps
<1>6. /\ session[c] \in Session \cup {None} /\ session'[c] = s
      /\ session \in [Cameras -> Session \cup {None}]
  BY <1>2, <1>5 DEF IInv, Typed
<1>7. session[c] # None => s # None /\ s.version = session[c].version
  <2> SUFFICES ASSUME session[c] # None PROVE s # None /\ s.version = session[c].version
    OBVIOUS
  <2>1. s = [session[c] EXCEPT !.on = FALSE] /\ session[c] \in Session
    BY <1>6
  <2>2. s \in Session /\ s.version = session[c].version
    BY <2>1 DEF Session
  <2> HIDE DEF s
  <2> QED
    BY <2>2, NoneAssumption
<1>8. session[c] = None => s = None
  OBVIOUS
<1> HIDE DEF s
<1>9. StreamMatches(c) => StreamMatches(c)'
  BY <1>2, <1>6, <1>7, <1>8 DEF StreamMatches
<1> QED
  BY <1>1, <1>2, <1>3, <1>5, <1>9, StreamMatchesAgain

\* cleanupCamera: the camera is gone, and so is its stream.
LEMMA CleanupMatches ==
    ASSUME IInv, RInv, NEW t \in Callers, cleanupStream(t)
    PROVE  RInv'
<1>1. PICK c : c = Arg(t).camera
  OBVIOUS
<1> DEFINE m == [do |-> "motionOff", camera |-> c]
<1>2. /\ todo[t] # <<>> /\ Arg(t).do = "cleanupStream"
      /\ Then(t, <<>>) \/ Then(t, <<m>>)
      /\ UNCHANGED <<camera, job, used, stage, life, group, unsure>>
      /\ session' = [session EXCEPT ![c] = None]
  BY <1>1 DEF cleanupStream, Direct, At, Arg, rows, process
<1>3. t \in Threads /\ life = "up" /\ <<>> \in Seq(Step)
  BY <1>2, ShortCalls DEF RInv, CallersAreDone, Threads
<1>4. Arg(t) \in Step /\ IsCurrent(Arg(t)) /\ (stage < Done => OnlyStarts(Arg(t)))
  BY <1>2, <1>3, AThreadsStep
<1>5. c \in Cameras /\ ~(stage < Done) /\ camera[c] = None
  BY <1>1, <1>2, <1>4, StepHas DEF OnlyStarts, StartingSteps, CameraSteps, IsCurrent
<1>6. session'[c] = None
  BY <1>2, <1>5 DEF IInv, Typed
<1>7. StreamMatches(c)'
  BY <1>2, <1>5, <1>6 DEF StreamMatches
<1>8. m \in Step /\ m.do = "motionOff"
  BY <1>5, StepsThereAre DEF CameraSteps
<1> HIDE DEF m
<1>9. PICK steps \in Seq(Step) : /\ Then(t, steps)
                                 /\ \/ steps = <<>>
                                    \/ steps = <<m>>
  <2>1. <<m>> \in Seq(Step)
    BY <1>8, ShortCalls
  <2> QED
    BY <1>2, <1>3, <2>1
<1> QED
  BY <1>1, <1>2, <1>3, <1>5, <1>7, <1>8, <1>9, StreamMatchesAgain

-----------------------------------------------------------------------------
(* Calls into the AI runtime.                                              *)

Wish == [id : Jobs, enabled : BOOLEAN]

\* What setCameraMotion makes of a group.
LEMMA GroupsThereAre ==
    \A g \in Group \cup {None}, r \in Row :
        /\ DesiredJobs(g) \in SUBSET Wish
        /\ MotionOn(g, r) \in Group /\ MotionOn(g, r) # None
        /\ MotionOn(g, r).version = r.version /\ DesiredJobs(MotionOn(g, r)) = DesiredJobs(g)
        /\ MotionOff(g) \in Group \cup {None} /\ DesiredJobs(MotionOff(g)) = DesiredJobs(g)
        /\ MotionOff(g) # None => g # None /\ ~MotionOff(g).motion
<1> SUFFICES ASSUME NEW g \in Group \cup {None}, NEW r \in Row
             PROVE  /\ DesiredJobs(g) \in SUBSET Wish
                    /\ MotionOn(g, r) \in Group /\ MotionOn(g, r) # None
                    /\ MotionOn(g, r).version = r.version
                    /\ DesiredJobs(MotionOn(g, r)) = DesiredJobs(g)
                    /\ MotionOff(g) \in Group \cup {None}
                    /\ DesiredJobs(MotionOff(g)) = DesiredJobs(g)
                    /\ MotionOff(g) # None => g # None /\ ~MotionOff(g).motion
  OBVIOUS
<1>1. None \notin Group
  BY NoneAssumption
<1>2. DesiredJobs(g) \in SUBSET Wish
  BY DEF DesiredJobs, Group, Wish
<1> DEFINE on == [version |-> r.version, motion |-> TRUE, jobs |-> DesiredJobs(g)]
<1>3. on \in Group /\ on.version = r.version /\ on.jobs = DesiredJobs(g) /\ MotionOn(g, r) = on
  BY <1>2 DEF MotionOn, Group, Row, Wish
<1> HIDE DEF on
<1>4. /\ MotionOn(g, r) \in Group /\ MotionOn(g, r) # None
      /\ MotionOn(g, r).version = r.version /\ DesiredJobs(MotionOn(g, r)) = DesiredJobs(g)
  <2>1. on # None
    BY <1>1, <1>3
  <2>2. DesiredJobs(on) = on.jobs
    BY <2>1 DEF DesiredJobs
  <2> QED
    BY <1>3, <2>1, <2>2
<1>5. /\ MotionOff(g) \in Group \cup {None} /\ DesiredJobs(MotionOff(g)) = DesiredJobs(g)
      /\ MotionOff(g) # None => g # None /\ ~MotionOff(g).motion
  <2>1. CASE g = None \/ ~g.motion
    BY <2>1 DEF MotionOff
  <2>2. CASE ~(g = None \/ ~g.motion) /\ g.jobs = {}
    BY <2>2 DEF MotionOff, DesiredJobs
  <2>3. CASE ~(g = None \/ ~g.motion) /\ g.jobs # {}
    <3> DEFINE off == [g EXCEPT !.motion = FALSE]
    <3>1. g \in Group /\ MotionOff(g) = off
      BY <2>3 DEF MotionOff
    <3>2. off \in Group /\ off.jobs = g.jobs /\ off.motion = FALSE
      BY <3>1 DEF Group
    <3> HIDE DEF off
    <3>3. off # None
      BY <1>1, <3>2
    <3> QED
      BY <2>3, <3>1, <3>2, <3>3 DEF DesiredJobs
  <2> QED
    BY <2>1, <2>2, <2>3
<1> QED
  BY <1>2, <1>4, <1>5

\* What becomes of a job in what a group is to run.
LEMMA WishesChange ==
    ASSUME NEW wishes \in SUBSET Wish, NEW j \in Jobs, NEW e \in BOOLEAN
    PROVE  LET left == Without(wishes, j)
               new == left \cup {[id |-> j, enabled |-> e]}
           IN  /\ left \in SUBSET Wish /\ new \in SUBSET Wish
               /\ \A k \in Jobs : k # j =>
                     /\ [id |-> k, enabled |-> TRUE] \in left
                            <=> [id |-> k, enabled |-> TRUE] \in wishes
                     /\ [id |-> k, enabled |-> TRUE] \in new
                            <=> [id |-> k, enabled |-> TRUE] \in wishes
                     /\ (\E x \in new : x.id = k) => \E x \in wishes : x.id = k
               /\ \A k \in Jobs : (\E x \in left : x.id = k) => \E x \in wishes : x.id = k
               /\ \A x \in left : x.id # j
               /\ [id |-> j, enabled |-> TRUE] \in new <=> e
<1> DEFINE left == Without(wishes, j)
           wish == [id |-> j, enabled |-> e]
           Enabled1(k) == [id |-> k, enabled |-> TRUE]
<1>1. wish \in Wish /\ wish.id = j /\ wish.enabled = e
  BY DEF Wish
<1>2. \A k \in Jobs : Enabled1(k) \in Wish /\ Enabled1(k).id = k /\ Enabled1(k).enabled = TRUE
  BY DEF Wish
<1>3. \A x : x \in left <=> x \in wishes /\ x.id # j
  BY DEF Without
<1>4. Enabled1(j) = wish <=> e
  <2>1. e => Enabled1(j) = wish
    BY Zenon
  <2> HIDE DEF wish, Enabled1
  <2>2. Enabled1(j) = wish => e
    BY <1>1, <1>2
  <2> QED
    BY <2>1, <2>2
<1> HIDE DEF left, wish, Enabled1
<1>5. /\ left \in SUBSET Wish /\ left \cup {wish} \in SUBSET Wish
      /\ \A k \in Jobs : k # j =>
            /\ Enabled1(k) \in left <=> Enabled1(k) \in wishes
            /\ Enabled1(k) \in left \cup {wish} <=> Enabled1(k) \in wishes
            /\ (\E x \in left \cup {wish} : x.id = k) => \E x \in wishes : x.id = k
      /\ \A k \in Jobs : (\E x \in left : x.id = k) => \E x \in wishes : x.id = k
      /\ \A x \in left : x.id # j
      /\ Enabled1(j) \in left \cup {wish} <=> e
  BY <1>1, <1>2, <1>3, <1>4
<1> QED
  BY <1>5 DEF left, wish, Enabled1

\* What a group keeps and runs is in its desired jobs, ...
LEMMA WhatGroupsRun ==
    \A c, k : /\ Runs(c, k) <=> [id |-> k, enabled |-> TRUE] \in DesiredJobs(group[c])
              /\ Keeps(c, k) <=> \E x \in DesiredJobs(group[c]) : x.id = k
  BY DEF Runs, Keeps, DesiredJobs

\* ... in the next state too.
LEMMA WhatGroupsRunNext ==
    \A c, k : /\ Runs(c, k)' <=> [id |-> k, enabled |-> TRUE] \in DesiredJobs(group'[c])
              /\ Keeps(c, k)' <=> \E x \in DesiredJobs(group'[c]) : x.id = k
  BY DEF Runs, Keeps, DesiredJobs

\* Whose job a thread is about to see to.
ItsJob(t, j) == Arg(t).do \in {"applyJob", "removeJob"} /\ Arg(t).job = j

\* What a group keeps and runs of each job after a step of a thread.
JobsFollow(t, c) ==
    \A k \in Jobs :
        /\ Keeps(c, k)' => \/ Keeps(c, k) /\ Arg(t).do # "removeCamera"
                           \/ job[k] # None /\ job[k].camera = c
        /\ Arg(t).do = "removeJob" /\ Arg(t).job = k => ~Keeps(c, k)'
        /\ \/ ~ItsJob(t, k) /\ Arg(t).do # "removeCamera" /\ (Runs(c, k)' <=> Runs(c, k))
           \/ Runs(c, k)' <=> Enabled(c, k)
        /\ ItsJob(t, k) /\ job[k] # None => job[k].camera = c
        /\ k \in unsure => k \in unsure' \/ ItsJob(t, k)

\* A call of AiManager changes one group, and leaves the others' jobs alone.
LEMMA GroupMatchesAgain ==
    ASSUME IInv, RInv, life = "up", NEW t \in Threads, todo[t] # <<>>, Then(t, <<>>),
           Arg(t).do \in {"tellMotion", "motionOff", "applyJob", "removeJob", "removeCamera"},
           UNCHANGED <<camera, job, used, stage, life, session>>,
           NEW c \in Cameras, c = Arg(t).camera,
           NEW g \in Group \cup {None}, group' = [group EXCEPT ![c] = g],
           \/ GroupMatches(c)'
           \/ /\ Arg(t).do \in {"motionOff", "applyJob", "removeJob"}
              /\ GroupMatches(c) => GroupMatches(c)',
           JobsFollow(t, c)
    PROVE  RInv'
<1> USE DEF JobsFollow
<1>1. WillMatch /\ group \in [Cameras -> Group \cup {None}]
  BY AThreadsStep DEF RInv
<1>2. Arg(t).do \notin Lists /\ <<>> \in Seq(Step)
  BY ShortCalls DEF Lists
<1>3. /\ Moved(t) /\ CopiesAreCurrent' /\ FormsOfCalls' /\ JobsHaveCameras'
      /\ StreamsToList => StreamsToList'
      /\ JobsToList => JobsToList'
  BY <1>2, TaskDone
<1>4. /\ \A d \in Cameras : /\ StreamIsDue(d) => StreamIsDue(d)'
                            /\ MotionIsDue(d) =>
                                  \/ MotionIsDue(d)'
                                  \/ d = c /\ Arg(t).do \in {"tellMotion", "removeCamera"}
                            /\ RemovalIsDue(d) => \/ RemovalIsDue(d)'
                                                  \/ d = c /\ Arg(t).do = "removeCamera"
      /\ \A j \in Jobs : JobIsDue(j) => JobIsDue(j)' \/ ItsJob(t, j)
      /\ \A d \in Cameras, j \in Jobs : JobGoes(d, j) =>
            JobGoes(d, j)' \/ (d = c /\ Arg(t).do = "removeJob" /\ Arg(t).job = j)
  BY <1>3, WhatStaysDue DEF ItsJob
<1>5. group'[c] = g /\ \A d \in Cameras : d # c => group'[d] = group[d]
  BY <1>1
<1>6. \A d \in Cameras : StreamMatches(d)' <=> StreamMatches(d)
  BY DEF StreamMatches
<1>7. \A d \in Cameras : d # c => /\ GroupMatches(d)' <=> GroupMatches(d)
                                  /\ \A j \in Jobs : /\ Keeps(d, j)' <=> Keeps(d, j)
                                                     /\ Runs(d, j)' <=> Runs(d, j)
  BY <1>5 DEF GroupMatches, Keeps, Runs
<1>8. \A d \in Cameras, j \in Jobs : Enabled(d, j)' <=> Enabled(d, j)
  BY DEF Enabled
<1>9. JobsAreAtHome'
  <2> SUFFICES ASSUME NEW d \in Cameras, NEW j \in Jobs, Keeps(d, j)'
               PROVE  (job[j] # None /\ job[j].camera = d) \/ JobGoes(d, j)' \/ RemovalIsDue(d)'
    BY DEF JobsAreAtHome
  <2>1. \/ job[j] # None /\ job[j].camera = d
        \/ Keeps(d, j) /\ (d = c => Arg(t).do # "removeCamera")
    BY <1>7
  <2>2. Keeps(d, j) => (job[j] # None /\ job[j].camera = d) \/ JobGoes(d, j) \/ RemovalIsDue(d)
    BY <1>1 DEF WillMatch, Matches, JobsAreAtHome
  <2> QED
    BY <1>4, <2>1, <2>2
<1>10. StreamsWillMatch'
  BY <1>1, <1>3, <1>4, <1>6 DEF WillMatch, Matches, StreamsWillMatch
<1>11. GroupsWillMatch'
  BY <1>1, <1>4, <1>7 DEF WillMatch, Matches, GroupsWillMatch
<1>12. JobsWillMatch'
  <2> SUFFICES ASSUME NEW d \in Cameras, NEW k \in Jobs, k \notin unsure'
               PROVE  (\/ Runs(d, k) <=> Enabled(d, k)
                       \/ JobIsDue(k) \/ RemovalIsDue(d) \/ JobsToList)'
    BY DEF JobsWillMatch
  <2>1. CASE ItsJob(t, k) /\ d # c
    <3>1. ~Enabled(d, k)
      BY <2>1, EnabledIs
    <3>2. Runs(d, k) => Keeps(d, k)
      <4>1. [id |-> k, enabled |-> TRUE].id = k
        OBVIOUS
      <4> QED
        BY <4>1 DEF Runs, Keeps
    <3>3. Runs(d, k) => JobGoes(d, k) \/ RemovalIsDue(d)
      BY <1>1, <2>1, <3>2 DEF WillMatch, Matches, JobsAreAtHome
    <3>4. JobGoes(d, k)' => JobIsDue(k)'
      BY DEF JobGoes, JobIsDue
    <3> QED
      BY <1>4, <1>7, <1>8, <2>1, <3>1, <3>3, <3>4
  <2>2. CASE ItsJob(t, k) /\ d = c
    BY <1>8, <2>2
  <2>3. CASE ~ItsJob(t, k)
    <3>1. (Runs(d, k) <=> Enabled(d, k)) \/ JobIsDue(k) \/ RemovalIsDue(d) \/ JobsToList
      BY <1>1, <2>3 DEF WillMatch, Matches, JobsWillMatch
    <3> QED
      BY <1>3, <1>4, <1>7, <1>8, <2>3, <3>1
  <2> QED
    BY <2>1, <2>2, <2>3
<1>13. NothingStale'
  <2> SUFFICES ASSUME stage < Done, NEW d \in Cameras
               PROVE  /\ session[d] # None => StreamMatches(d)'
                      /\ \A j \in Jobs : Runs(d, j)' => Enabled(d, j)
    BY <1>8 DEF NothingStale
  <2>1. /\ session[d] # None => StreamMatches(d)
        /\ \A j \in Jobs : Runs(d, j) => Enabled(d, j)
    BY <1>1 DEF WillMatch, Matches, NothingStale
  <2> QED
    BY <1>6, <1>7, <2>1
<1>14. life' = "up" /\ group' \in [Cameras -> Group \cup {None}]
  BY <1>1
<1> QED
  BY <1>3, <1>9, <1>10, <1>11, <1>12, <1>13, <1>14, Together DEF Matches

\* What every call of AiManager does.
LEMMA AiCallIs ==
    ASSUME IInv, RInv, NEW t \in Threads, NEW name, NEW newGroup, NEW settled,
           AiCall(t, name, newGroup, settled)
    PROVE  /\ todo[t] # <<>> /\ Arg(t) \in Step /\ Arg(t).do = name /\ Then(t, <<>>)
           /\ UNCHANGED <<camera, job, used, stage, life, session>>
           /\ unsure' = unsure \ settled
           /\ group' = [group EXCEPT ![Arg(t).camera] =
                           IF life = "aiStopped" THEN group[Arg(t).camera] ELSE newGroup]
           /\ group \in [Cameras -> Group \cup {None}]
<1>1. At(t, name) /\ Then(t, <<>>) /\ unsure' = unsure \ settled
      /\ UNCHANGED <<camera, job, used, stage, life, session>>
      /\ group' = [group EXCEPT ![Arg(t).camera] =
                      IF life = "aiStopped" THEN group[Arg(t).camera] ELSE newGroup]
  BY DEF AiCall, Direct, rows, process
<1> QED
  BY <1>1, NextStep DEF IInv, RInv

\* Once the process is asked to stop, its calls need not match.
LEMMA AiCallWhenClosing ==
    ASSUME IInv, RInv, life # "up", NEW t \in Threads, NEW name, NEW newGroup, NEW settled,
           AiCall(t, name, newGroup, settled), newGroup \in Group \cup {None}
    PROVE  RInv'
<1>1. /\ todo[t] # <<>> /\ Then(t, <<>>) /\ UNCHANGED <<camera, job, used, stage, life, session>>
      /\ group' = [group EXCEPT ![Arg(t).camera] =
                      IF life = "aiStopped" THEN group[Arg(t).camera] ELSE newGroup]
      /\ group \in [Cameras -> Group \cup {None}]
  BY AiCallIs
<1>2. \A u \in Callers : todo[u] = <<>> /\ u \in Threads
  BY DEF RInv, CallersAreDone, Threads
<1>3. \A u \in Threads : u # t => todo'[u] = todo[u]
  BY <1>1 DEF Then, IInv, ThreadsAreInOrder, StepsAreTyped
<1>4. \A u \in Callers : todo'[u] = todo[u]
  BY <1>1, <1>2, <1>3
<1>5. t = Boot /\ life # "down"
  BY <1>1, <1>2 DEF Threads, IInv, ThreadsAreInOrder, NothingRunsYet
<1>6. group' \in [Cameras -> Group \cup {None}]
  <2>1. CASE Arg(t).camera \in Cameras
    BY <1>1, <2>1
  <2>2. CASE Arg(t).camera \notin Cameras
    BY <1>1, <2>2
  <2> QED
    BY <2>1, <2>2
<1> QED
  BY <1>1, <1>4, <1>5, <1>6, ClosingMatches

\* setCameraMotion, after a stream has started.
LEMMA TellMatches ==
    ASSUME IInv, RInv, NEW t \in Threads, tellMotion(t)
    PROVE  RInv'
<1>1. PICK c, r, g : /\ c = Arg(t).camera /\ r = Arg(t).row
                     /\ g = IF r.motion THEN MotionOn(group[c], r) ELSE MotionOff(group[c])
  OBVIOUS
<1>2. AiCall(t, "tellMotion", g, {})
  BY <1>1 DEF tellMotion
<1>3. /\ todo[t] # <<>> /\ Arg(t) \in Step /\ Arg(t).do = "tellMotion" /\ Then(t, <<>>)
      /\ UNCHANGED <<camera, job, used, stage, life, session>> /\ unsure' = unsure \ {}
      /\ group' = [group EXCEPT ![c] = IF life = "aiStopped" THEN group[c] ELSE g]
      /\ group \in [Cameras -> Group \cup {None}]
  BY <1>1, <1>2, AiCallIs
<1>4. c \in Cameras /\ r \in Row /\ group[c] \in Group \cup {None} /\ r # None
      /\ r.motion \in BOOLEAN
  BY <1>1, <1>3, StepHas, NoneAssumption DEF Row
<1>5. /\ g \in Group \cup {None} /\ DesiredJobs(g) = DesiredJobs(group[c])
      /\ r.motion => g.version = r.version
      /\ ~r.motion => (g # None => ~g.motion)
  BY <1>1, <1>4, GroupsThereAre
<1>6. CASE life = "up"
  <2>1. group' = [group EXCEPT ![c] = g] /\ group'[c] = g /\ unsure' = unsure
    BY <1>3, <1>4, <1>6
  <2>2. camera[c] = r
    BY <1>1, <1>3, <1>6, AThreadsStep DEF IsCurrent
  <2>3. GroupMatches(c)'
    BY <1>3, <1>4, <1>5, <2>1, <2>2 DEF GroupMatches
  <2>4. \A k \in Jobs : /\ Keeps(c, k)' <=> Keeps(c, k)
                        /\ Runs(c, k)' <=> Runs(c, k)
                        /\ ~ItsJob(t, k)
    BY <1>3, <1>5, <2>1, WhatGroupsRun, WhatGroupsRunNext DEF ItsJob
  <2>5. JobsFollow(t, c)
    BY <1>3, <2>1, <2>4 DEF JobsFollow
  <2> QED
    BY <1>1, <1>3, <1>4, <1>5, <1>6, <2>1, <2>3, <2>5, GroupMatchesAgain
<1>7. CASE life # "up"
  BY <1>2, <1>5, <1>7, AiCallWhenClosing
<1> QED
  BY <1>6, <1>7

\* setCameraMotion, after a stream has stopped.
LEMMA MotionOffMatches ==
    ASSUME IInv, RInv, NEW t \in Callers, motionOff(t)
    PROVE  RInv'
<1>1. PICK c, g : c = Arg(t).camera /\ g = MotionOff(group[c])
  OBVIOUS
<1>2. AiCall(t, "motionOff", g, {}) /\ t \in Threads
  BY <1>1 DEF motionOff, Threads
<1>3. /\ todo[t] # <<>> /\ Arg(t) \in Step /\ Arg(t).do = "motionOff" /\ Then(t, <<>>)
      /\ UNCHANGED <<camera, job, used, stage, life, session>> /\ unsure' = unsure \ {}
      /\ group' = [group EXCEPT ![c] = IF life = "aiStopped" THEN group[c] ELSE g]
      /\ group \in [Cameras -> Group \cup {None}]
  BY <1>1, <1>2, AiCallIs
<1>4. c \in Cameras /\ group[c] \in Group \cup {None} /\ life = "up"
  BY <1>1, <1>3, StepHas DEF CameraSteps, RInv, CallersAreDone
<1>5. \E r : r \in Row
  <2>1. [version |-> 0, motion |-> TRUE] \in Row
    BY DEF Row
  <2> QED
    BY <2>1
<1>6. /\ g \in Group \cup {None} /\ DesiredJobs(g) = DesiredJobs(group[c])
      /\ g # None => group[c] # None /\ ~g.motion
  BY <1>1, <1>4, <1>5, GroupsThereAre
<1>7. group' = [group EXCEPT ![c] = g] /\ group'[c] = g /\ unsure' = unsure
  BY <1>3, <1>4
<1>8. GroupMatches(c) => GroupMatches(c)'
  BY <1>3, <1>6, <1>7 DEF GroupMatches
<1>9. \A k \in Jobs : /\ Keeps(c, k)' <=> Keeps(c, k)
                      /\ Runs(c, k)' <=> Runs(c, k)
                      /\ ~ItsJob(t, k)
  BY <1>3, <1>6, <1>7, WhatGroupsRun, WhatGroupsRunNext DEF ItsJob
<1>10. JobsFollow(t, c)
  BY <1>3, <1>7, <1>9 DEF JobsFollow
<1> QED
  BY <1>1, <1>2, <1>3, <1>4, <1>6, <1>7, <1>8, <1>10, GroupMatchesAgain

\* AiManager::removeCamera, at the end of deleteCamera.
LEMMA RemoveCameraMatches ==
    ASSUME IInv, RInv, NEW t \in Callers, removeCamera(t)
    PROVE  RInv'
<1>1. PICK c, g : c = Arg(t).camera /\ g = None
  OBVIOUS
<1>2. AiCall(t, "removeCamera", g, {}) /\ t \in Threads
  BY <1>1 DEF removeCamera, Threads
<1>3. /\ todo[t] # <<>> /\ Arg(t) \in Step /\ Arg(t).do = "removeCamera" /\ Then(t, <<>>)
      /\ UNCHANGED <<camera, job, used, stage, life, session>> /\ unsure' = unsure \ {}
      /\ group' = [group EXCEPT ![c] = IF life = "aiStopped" THEN group[c] ELSE g]
      /\ group \in [Cameras -> Group \cup {None}]
  BY <1>1, <1>2, AiCallIs
<1>4. c \in Cameras /\ life = "up"
  BY <1>1, <1>3, StepHas DEF CameraSteps, RInv, CallersAreDone
<1>5. camera[c] = None
  BY <1>1, <1>2, <1>3, <1>4, AThreadsStep DEF IsCurrent
<1>6. group' = [group EXCEPT ![c] = g] /\ group'[c] = None /\ unsure' = unsure
  BY <1>1, <1>3, <1>4
<1>7. GroupMatches(c)'
  BY <1>6 DEF GroupMatches
<1>8. \A k \in Jobs : ~Keeps(c, k)' /\ ~Runs(c, k)' /\ ~ItsJob(t, k)
  BY <1>3, <1>6 DEF Keeps, Runs, ItsJob
<1>9. \A k \in Jobs : ~Enabled(c, k)
  BY <1>4, <1>5, EnabledIs DEF RInv, JobsHaveCameras
<1>10. JobsFollow(t, c)
  BY <1>3, <1>6, <1>8, <1>9 DEF JobsFollow
<1> QED
  BY <1>1, <1>2, <1>3, <1>4, <1>6, <1>7, <1>10, GroupMatchesAgain

\* AiManager::applyJob: the job runs if and only if its row is enabled.
LEMMA ApplyMatches ==
    ASSUME IInv, RInv, NEW t \in Threads, applyJob(t)
    PROVE  RInv'
<1>1. PICK c, r, j, e : c = Arg(t).camera /\ r = Arg(t).row /\ j = Arg(t).job /\ e = Arg(t).enabled
  OBVIOUS
<1> DEFINE new == Without(DesiredJobs(group[c]), j) \cup {[id |-> j, enabled |-> e]}
           motion == group[c] # None /\ group[c].motion
<1>2. PICK g : g = [version |-> r.version, motion |-> motion, jobs |-> new]
  OBVIOUS
<1>3. AiCall(t, "applyJob", g, {j})
  BY <1>1, <1>2 DEF applyJob
<1>4. /\ todo[t] # <<>> /\ Arg(t) \in Step /\ Arg(t).do = "applyJob" /\ Then(t, <<>>)
      /\ UNCHANGED <<camera, job, used, stage, life, session>> /\ unsure' = unsure \ {j}
      /\ group' = [group EXCEPT ![c] = IF life = "aiStopped" THEN group[c] ELSE g]
      /\ group \in [Cameras -> Group \cup {None}]
  BY <1>1, <1>3, AiCallIs
<1>5. /\ c \in Cameras /\ r \in Row /\ j \in Jobs /\ e \in BOOLEAN
      /\ group[c] \in Group \cup {None} /\ r # None
  BY <1>1, <1>4, StepHas, NoneAssumption
<1>6. DesiredJobs(group[c]) \in SUBSET Wish
  BY <1>5, GroupsThereAre
<1>7. /\ new \in SUBSET Wish
      /\ \A k \in Jobs : k # j =>
            /\ [id |-> k, enabled |-> TRUE] \in new
                  <=> [id |-> k, enabled |-> TRUE] \in DesiredJobs(group[c])
            /\ (\E x \in new : x.id = k) => \E x \in DesiredJobs(group[c]) : x.id = k
      /\ [id |-> j, enabled |-> TRUE] \in new <=> e
  BY <1>5, <1>6, WishesChange
<1>8. motion \in BOOLEAN /\ (motion => group[c] # None /\ group[c].motion)
  BY <1>5 DEF Group
<1> HIDE DEF new, motion
<1>9. g \in Group /\ g # None /\ g.version = r.version /\ g.motion = motion /\ g.jobs = new
  <2>1. g \in Group /\ g.version = r.version /\ g.motion = motion /\ g.jobs = new
    BY <1>2, <1>5, <1>7, <1>8 DEF Group, Row, Wish
  <2> QED
    BY <2>1, NoneAssumption
<1>10. CASE life = "up"
  <2>1. group' = [group EXCEPT ![c] = g] /\ group'[c] = g
    BY <1>4, <1>5, <1>10
  <2>2. camera[c] = r /\ job[j] = [camera |-> c, enabled |-> e]
    BY <1>1, <1>4, <1>10, AThreadsStep DEF IsCurrent
  <2>3. job[j] # None /\ job[j].camera = c
    BY <1>5, <2>2, JobRowHas
  <2>4. e <=> Enabled(c, j)
    <3>1. e => Enabled(c, j)
      BY <1>5, <2>2 DEF Enabled
    <3>2. ~e => ~Enabled(c, j)
      <4> SUFFICES ASSUME ~e, Enabled(c, j) PROVE FALSE
        OBVIOUS
      <4>1. [camera |-> c, enabled |-> TRUE] = [camera |-> c, enabled |-> FALSE]
        BY <1>5, <2>2 DEF Enabled
      <4>2. [camera |-> c, enabled |-> TRUE].enabled = [camera |-> c, enabled |-> FALSE].enabled
        BY <4>1
      <4> QED
        BY <4>2
    <3> QED
      BY <3>1, <3>2
  <2>5. GroupMatches(c) => GroupMatches(c)'
    BY <1>4, <1>5, <1>8, <1>9, <2>1, <2>2 DEF GroupMatches
  <2>6. DesiredJobs(group'[c]) = new
    BY <1>9, <2>1 DEF DesiredJobs
  <2>7. \A k \in Jobs : k # j => /\ Keeps(c, k)' => Keeps(c, k)
                                 /\ Runs(c, k)' <=> Runs(c, k)
                                 /\ ~ItsJob(t, k)
    BY <1>1, <1>7, <2>6, WhatGroupsRun, WhatGroupsRunNext DEF ItsJob
  <2>8. Runs(c, j)' <=> Enabled(c, j)
    BY <1>7, <2>4, <2>6, WhatGroupsRunNext
  <2>9. JobsFollow(t, c)
    <3> SUFFICES ASSUME NEW k \in Jobs
        PROVE /\ Keeps(c, k)' => \/ Keeps(c, k) /\ Arg(t).do # "removeCamera"
                                 \/ job[k] # None /\ job[k].camera = c
              /\ Arg(t).do = "removeJob" /\ Arg(t).job = k => ~Keeps(c, k)'
              /\ \/ ~ItsJob(t, k) /\ Arg(t).do # "removeCamera" /\ (Runs(c, k)' <=> Runs(c, k))
                 \/ Runs(c, k)' <=> Enabled(c, k)
              /\ ItsJob(t, k) /\ job[k] # None => job[k].camera = c
              /\ k \in unsure => k \in unsure' \/ ItsJob(t, k)
      BY DEF JobsFollow
    <3>1. CASE k = j
      BY <1>1, <1>4, <2>3, <2>8, <3>1 DEF ItsJob
    <3>2. CASE k # j
      BY <1>4, <2>7, <3>2
    <3> QED
      BY <3>1, <3>2
  <2>10. Arg(t).do \in {"motionOff", "applyJob", "removeJob"}
    BY <1>4
  <2> QED
    BY <1>1, <1>4, <1>5, <1>9, <1>10, <2>1, <2>5, <2>9, <2>10, GroupMatchesAgain
<1>11. CASE life # "up"
  BY <1>3, <1>9, <1>11, AiCallWhenClosing
<1> QED
  BY <1>10, <1>11

\* AiManager::removeJob: the job no longer runs, and others do.
LEMMA RemoveJobMatches ==
    ASSUME IInv, RInv, NEW t \in Callers, removeJob(t)
    PROVE  RInv'
<1>1. PICK c, j : c = Arg(t).camera /\ j = Arg(t).job
  OBVIOUS
<1> DEFINE left == Without(DesiredJobs(group[c]), j)
<1>2. PICK g : g = IF group[c] = None \/ left = {} THEN None ELSE [group[c] EXCEPT !.jobs = left]
  OBVIOUS
<1>3. AiCall(t, "removeJob", g, {j}) /\ t \in Threads
  BY <1>1, <1>2 DEF removeJob, Threads
<1>4. /\ todo[t] # <<>> /\ Arg(t) \in Step /\ Arg(t).do = "removeJob" /\ Then(t, <<>>)
      /\ UNCHANGED <<camera, job, used, stage, life, session>> /\ unsure' = unsure \ {j}
      /\ group' = [group EXCEPT ![c] = IF life = "aiStopped" THEN group[c] ELSE g]
      /\ group \in [Cameras -> Group \cup {None}]
  BY <1>1, <1>3, AiCallIs
<1>5. /\ c \in Cameras /\ j \in Jobs /\ group[c] \in Group \cup {None} /\ life = "up"
  BY <1>1, <1>4, StepHas DEF RInv, CallersAreDone
<1>6. /\ left \in SUBSET Wish /\ \A x \in left : x.id # j
      /\ \A k \in Jobs : (\E x \in left : x.id = k) => \E x \in DesiredJobs(group[c]) : x.id = k
      /\ \A k \in Jobs : k # j =>
            ([id |-> k, enabled |-> TRUE] \in left
                <=> [id |-> k, enabled |-> TRUE] \in DesiredJobs(group[c]))
  <2>1. \E r : r \in Row
    <3>1. [version |-> 0, motion |-> TRUE] \in Row
      BY DEF Row
    <3> QED
      BY <3>1
  <2>2. DesiredJobs(group[c]) \in SUBSET Wish /\ TRUE \in BOOLEAN
    BY <1>5, <2>1, GroupsThereAre
  <2> QED
    BY <1>5, <2>2, WishesChange
<1> HIDE DEF left
<1>7. /\ g \in Group \cup {None} /\ DesiredJobs(g) = left
      /\ g # None => /\ group[c] # None /\ g.version = group[c].version
                     /\ g.motion = group[c].motion
  <2>1. CASE group[c] = None
    <3>1. left = {}
      BY <2>1 DEF left, DesiredJobs, Without
    <3> QED
      BY <1>2, <2>1, <3>1 DEF DesiredJobs
  <2>2. CASE group[c] # None /\ left = {}
    BY <1>2, <2>2 DEF DesiredJobs
  <2>3. CASE group[c] # None /\ left # {}
    <3>1. group[c] \in Group /\ g = [group[c] EXCEPT !.jobs = left]
      BY <1>2, <1>5, <2>3
    <3>2. /\ g \in Group /\ g.version = group[c].version /\ g.motion = group[c].motion
          /\ g.jobs = left
      BY <1>6, <3>1 DEF Group, Wish
    <3>3. g # None
      BY <3>2, NoneAssumption
    <3> QED
      BY <2>3, <3>2, <3>3 DEF DesiredJobs
  <2> QED
    BY <2>1, <2>2, <2>3
<1>8. group' = [group EXCEPT ![c] = g] /\ group'[c] = g
  BY <1>4, <1>5
<1>9. job[j] \in {None, [camera |-> c, enabled |-> FALSE]}
  BY <1>1, <1>3, <1>4, <1>5, AThreadsStep DEF IsCurrent
<1>10. (job[j] # None => job[j].camera = c) /\ ~Enabled(c, j)
  <2>1. job[j] # None => job[j].camera = c /\ job[j].enabled = FALSE
    BY <1>5, <1>9, JobRowHas
  <2>2. [camera |-> c, enabled |-> TRUE] # None /\ [camera |-> c, enabled |-> TRUE].enabled = TRUE
    BY <1>5, JobRowHas
  <2>3. ~Enabled(c, j)
    <3> SUFFICES ASSUME Enabled(c, j) PROVE FALSE
      OBVIOUS
    <3>1. job[j] = [camera |-> c, enabled |-> TRUE]
      BY DEF Enabled
    <3>2. job[j] # None /\ job[j].enabled = TRUE
      BY <2>2, <3>1
    <3> QED
      BY <2>1, <3>2
  <2> QED
    BY <2>1, <2>3
<1>11. GroupMatches(c) => GroupMatches(c)'
  BY <1>4, <1>7, <1>8 DEF GroupMatches
<1>12. \A k \in Jobs : k # j => /\ Keeps(c, k)' => Keeps(c, k)
                                /\ Runs(c, k)' <=> Runs(c, k)
                                /\ ~ItsJob(t, k)
  BY <1>1, <1>6, <1>7, <1>8, WhatGroupsRun, WhatGroupsRunNext DEF ItsJob
<1>13. ~Keeps(c, j)' /\ ~Runs(c, j)'
  <2> DEFINE wish == [id |-> j, enabled |-> TRUE]
  <2>1. wish.id = j
    OBVIOUS
  <2>2. Runs(c, j)' <=> wish \in left
    BY <1>7, <1>8, WhatGroupsRunNext
  <2>3. Keeps(c, j)' => \E x \in left : x.id = j
    <3>1. DesiredJobs(group'[c]) = left
      BY <1>7, <1>8
    <3>2. Keeps(c, j)' => \E x \in DesiredJobs(group'[c]) : x.id = j
      BY WhatGroupsRunNext
    <3> QED
      BY <3>1, <3>2
  <2> HIDE DEF wish
  <2> QED
    BY <1>6, <2>1, <2>2, <2>3
<1>14. JobsFollow(t, c)
  <2> SUFFICES ASSUME NEW k \in Jobs
      PROVE /\ Keeps(c, k)' => \/ Keeps(c, k) /\ Arg(t).do # "removeCamera"
                               \/ job[k] # None /\ job[k].camera = c
            /\ Arg(t).do = "removeJob" /\ Arg(t).job = k => ~Keeps(c, k)'
            /\ \/ ~ItsJob(t, k) /\ Arg(t).do # "removeCamera" /\ (Runs(c, k)' <=> Runs(c, k))
               \/ Runs(c, k)' <=> Enabled(c, k)
            /\ ItsJob(t, k) /\ job[k] # None => job[k].camera = c
            /\ k \in unsure => k \in unsure' \/ ItsJob(t, k)
    BY DEF JobsFollow
  <2>1. CASE k = j
    BY <1>1, <1>4, <1>10, <1>13, <2>1 DEF ItsJob
  <2>2. CASE k # j
    BY <1>1, <1>4, <1>12, <2>2
  <2> QED
    BY <2>1, <2>2
<1>15. Arg(t).do \in {"motionOff", "applyJob", "removeJob"}
  BY <1>4
<1> QED
  BY <1>1, <1>3, <1>4, <1>5, <1>7, <1>8, <1>11, <1>14, <1>15, GroupMatchesAgain

-----------------------------------------------------------------------------
(* The start-up thread.                                                    *)

\* While the process is stopped, its work changes nothing of the rows' runtime.
LEMMA BootWhenClosing ==
    ASSUME IInv, RInv, life # "up", life' = life, UNCHANGED <<camera, job, used, group>>,
           NEW s, todo' = [todo EXCEPT ![Boot] = s]
    PROVE  RInv'
<1>1. \A u \in Callers : todo'[u] = todo[u]
  BY ThreadAssumption DEF IInv, ThreadsAreInOrder, StepsAreTyped, Threads
<1>2. group' \in [Cameras -> Group \cup {None}]
  BY DEF RInv
<1> QED
  BY <1>1, <1>2, ClosingMatches

\* Its steps go on with current copies, and what a list had to show is due now.
LEMMA BootGoesOn ==
    ASSUME IInv, RInv, todo[Boot] # <<>>, NEW steps \in Seq(Step), Then(Boot, steps),
           NothingChanges, UNCHANGED unsure,
           \A x \in Step : (\E i \in DOMAIN steps : x = steps[i]) =>
              x.do \notin Lists /\ IsCurrent(x)' /\ BootsOwn(x),
           Arg(Boot).do \in {"listOrphans", "finalize", "fetchCamera", "listCameras", "listJobs"},
           life = "up" =>
              /\ Arg(Boot).do = "fetchCamera" => \A j \in Jobs : Arg(Boot).job = j => JobIsDue(j)'
              /\ Arg(Boot).do = "listCameras" =>
                    \A c \in Cameras : StreamMatches(c) \/ StreamIsDue(c)'
              /\ Arg(Boot).do = "listJobs" =>
                    \A c \in Cameras, j \in Jobs : (Runs(c, j) <=> Enabled(c, j)) \/ JobIsDue(j)'
    PROVE  RInv'
<1>1. CASE life # "up"
  BY <1>1, BootWhenClosing DEF Then, NothingChanges
<1>2. CASE life = "up"
  <2>1. Boot \in Threads /\ WillMatch /\ StepsAreTyped
    BY <1>2, AThreadsStep DEF Threads
  <2>2. /\ StepsAreTyped' /\ Moved(Boot)
        /\ \A i \in DOMAIN steps : steps[i] \in StepsOf(Boot)'
        /\ \A x \in StepsOf(Boot)' : x \in StepsOf(Boot) \/ \E i \in DOMAIN steps : x = steps[i]
    BY <2>1, ThenMoves
  <2>3. \A u \in Threads : u # Boot => todo'[u] = todo[u]
    BY <2>2 DEF Moved
  <2>4. FormsOfCalls'
    <3>1. \A i \in DOMAIN todo'[Boot] : todo'[Boot][i].do \notin Lists
      <4>1. \A i \in DOMAIN steps : steps[i] \in Step
        OBVIOUS
      <4>2. \A i \in DOMAIN steps : steps[i].do \notin Lists
        BY <4>1
      <4> QED
        BY <2>1, <4>2, NoListIsLeft DEF WillMatch
    <3>2. \A u \in Callers : todo'[u] = todo[u]
      BY <2>3, ThreadAssumption DEF Threads
    <3> QED
      BY <2>1, <3>1, <3>2 DEF FormsOfCalls, WillMatch
  <2>5. CopiesAreCurrent'
    <3>1. \A i \in DOMAIN steps : steps[i] \in Step
      OBVIOUS
    <3>2. \A x \in StepsOf(Boot)' : x \in StepsOf(Boot) \/ (IsCurrent(x)' /\ BootsOwn(x))
      BY <2>2, <3>1
    <3> QED
      BY <2>1, <2>3, <3>2, ThreadAssumption, CopiesStay DEF WillMatch, NothingChanges
  <2>6. /\ \A c \in Cameras : /\ StreamIsDue(c) => StreamIsDue(c)'
                              /\ MotionIsDue(c) => MotionIsDue(c)'
                              /\ RemovalIsDue(c) => RemovalIsDue(c)'
        /\ \A j \in Jobs : JobIsDue(j) => JobIsDue(j)'
        /\ \A c \in Cameras, j \in Jobs : JobGoes(c, j) => JobGoes(c, j)'
    <3>1. Arg(Boot).do \notin {"startStream", "cleanupStream", "tellMotion", "removeCamera",
                               "applyJob", "removeJob"}
      OBVIOUS
    <3>2. Arg(Boot).do = "fetchCamera" => \A j \in Jobs : Arg(Boot).job = j => JobIsDue(j)'
      BY <1>2
    <3>3. \A c \in Cameras : /\ StreamIsDue(c) => StreamIsDue(c)'
                             /\ MotionIsDue(c) => MotionIsDue(c)'
                             /\ RemovalIsDue(c) => RemovalIsDue(c)'
      BY <2>1, <2>2, <3>1, WhatStaysDue
    <3>4. \A j \in Jobs : JobIsDue(j) => JobIsDue(j)'
      <4>1. \A j \in Jobs : JobIsDue(j) =>
               JobIsDue(j)' \/ (Arg(Boot).do = "fetchCamera" /\ Arg(Boot).job = j)
        BY <2>1, <2>2, <3>1, WhatStaysDue
      <4> QED
        BY <3>2, <4>1
    <3>5. \A c \in Cameras, j \in Jobs : JobGoes(c, j) => JobGoes(c, j)'
      BY <2>1, <2>2, <3>1, WhatStaysDue
    <3> QED
      BY <3>3, <3>4, <3>5
  <2>7. /\ Arg(Boot).do # "listCameras" /\ StreamsToList => StreamsToList'
        /\ Arg(Boot).do # "listJobs" /\ JobsToList => JobsToList'
    <3>1. ASSUME Arg(Boot).do # "listCameras", StreamsToList PROVE StreamsToList'
      BY <2>1, <2>2, <3>1, ListsStay DEF StreamsToList, NothingChanges
    <3>2. ASSUME Arg(Boot).do # "listJobs", JobsToList PROVE JobsToList'
      BY <2>1, <2>2, <3>2, ListsStay DEF JobsToList, NothingChanges
    <3> QED
      BY <3>1, <3>2
  <2>8. \A c \in Cameras : /\ StreamMatches(c)' <=> StreamMatches(c)
                           /\ GroupMatches(c)' <=> GroupMatches(c)
                           /\ \A j \in Jobs : /\ Keeps(c, j)' <=> Keeps(c, j)
                                              /\ Runs(c, j)' <=> Runs(c, j)
                                              /\ Enabled(c, j)' <=> Enabled(c, j)
    BY DEF StreamMatches, GroupMatches, Keeps, Runs, Enabled, NothingChanges
  <2>9. JobsAreAtHome' /\ GroupsWillMatch'
    BY <2>1, <2>6, <2>8
    DEF WillMatch, Matches, JobsAreAtHome, GroupsWillMatch, NothingChanges
  <2>10. StreamsWillMatch'
    <3> SUFFICES ASSUME NEW c \in Cameras
                 PROVE  (StreamMatches(c) \/ StreamIsDue(c) \/ StreamsToList)'
      BY DEF StreamsWillMatch
    <3>1. StreamMatches(c) \/ StreamIsDue(c) \/ StreamsToList
      BY <2>1 DEF WillMatch, Matches, StreamsWillMatch
    <3> QED
      BY <1>2, <2>6, <2>7, <2>8, <3>1
  <2>11. JobsWillMatch'
    <3> SUFFICES ASSUME NEW c \in Cameras, NEW j \in Jobs, j \notin unsure'
                 PROVE  (\/ Runs(c, j) <=> Enabled(c, j)
                         \/ JobIsDue(j) \/ RemovalIsDue(c) \/ JobsToList)'
      BY DEF JobsWillMatch
    <3>1. (Runs(c, j) <=> Enabled(c, j)) \/ JobIsDue(j) \/ RemovalIsDue(c) \/ JobsToList
      BY <2>1 DEF WillMatch, Matches, JobsWillMatch
    <3> QED
      BY <1>2, <2>6, <2>7, <2>8, <3>1
  <2>12. NothingStale'
    BY <2>1, <2>8 DEF WillMatch, Matches, NothingStale, NothingChanges
  <2>13. Matches'
    BY <2>9, <2>10, <2>11, <2>12 DEF Matches
  <2> QED
    BY <1>2, <2>4, <2>5, <2>13, QuietlyTogether
<1> QED
  BY <1>1, <1>2

\* The first stage touches footage only.
LEMMA ListOrphansMatches ==
    ASSUME IInv, RInv, listOrphans
    PROVE  RInv'
<1> DEFINE ids == SetToSeq(Orphans)
           steps == [i \in DOMAIN ids |-> [do |-> "finalize", segment |-> ids[i]]]
<1>1. Then(Boot, steps) /\ todo[Boot] # <<>> /\ Arg(Boot).do = "listOrphans"
      /\ NothingChanges /\ UNCHANGED unsure
  BY DEF listOrphans, Listed, Query, At, Arg, NothingChanges, rows, process, runtime
<1>2. ids \in Seq(Orphans) /\ Orphans \subseteq Segments
  <2>1. IsFiniteSet(Segments) /\ Orphans \subseteq Segments
    BY BoundsAssumption, FS_Interval DEF Segments, Orphans
  <2>2. IsFiniteSet(Orphans)
    BY <2>1, FS_Subset
  <2> QED
    BY <2>1, <2>2, SetToSeqIs
<1>3. ASSUME NEW s \in Orphans
      PROVE  [do |-> "finalize", segment |-> s] \in Step
  BY <1>2, StepsThereAre
<1> HIDE DEF ids
<1>4. \A i \in DOMAIN steps : steps[i] \in Step /\ steps[i].do = "finalize"
  BY <1>2, <1>3
<1>5. steps \in Seq(Step)
  <2>1. DOMAIN steps = 1 .. Len(ids) /\ Len(ids) \in Nat
    BY <1>2
  <2>2. steps \in [1 .. Len(ids) -> Step]
    BY <1>4, <2>1
  <2> HIDE DEF steps
  <2> QED
    BY <2>1, <2>2
<1> HIDE DEF steps
<1>6. ASSUME NEW x, x.do = "finalize"
      PROVE  x.do \notin Lists /\ IsCurrent(x)' /\ BootsOwn(x)
  BY <1>6 DEF Lists, IsCurrent, BootsOwn
<1>7. \A x \in Step : (\E i \in DOMAIN steps : x = steps[i]) =>
         x.do \notin Lists /\ IsCurrent(x)' /\ BootsOwn(x)
  BY <1>4, <1>6
<1> QED
  BY <1>1, <1>5, <1>7, BootGoesOn

\* So does what it finds.
LEMMA FinalizeMatches ==
    ASSUME IInv, RInv, finalizeOrphan
    PROVE  RInv'
<1>1. Then(Boot, <<>>) /\ todo[Boot] # <<>> /\ Arg(Boot).do = "finalize"
      /\ NothingChanges /\ UNCHANGED unsure
  BY DEF finalizeOrphan, Query, At, Arg, NothingChanges, rows, process, runtime
<1>2. PICK steps : steps = <<>>
  OBVIOUS
<1>3. steps \in Seq(Step) /\ DOMAIN steps = {} /\ Then(Boot, steps)
  BY <1>1, <1>2, ShortCalls
<1> QED
  BY <1>1, <1>3, BootGoesOn

\* The camera of a job is looked up again, and is there.
LEMMA FetchGoesOn ==
    ASSUME IInv, RInv, life = "up", NEW t \in Threads, fetchCamera(t)
    PROVE  \E x \in Step :
              /\ Then(t, <<x>>) /\ x.do = "applyJob" /\ x.job = Arg(t).job
              /\ x.enabled = Arg(t).row.enabled /\ IsCurrent(x)' /\ OnlyStarts(x)
<1>1. PICK j, r, c : j = Arg(t).job /\ r = Arg(t).row /\ c = r.camera
  OBVIOUS
<1>2. PICK w : w = camera[c]
  OBVIOUS
<1>3. /\ todo[t] # <<>> /\ Arg(t).do = "fetchCamera" /\ UNCHANGED <<camera, job>>
      /\ Then(t, IF w = None THEN <<>>
                 ELSE << [do |-> "applyJob", job |-> j, camera |-> c, row |-> w,
                          enabled |-> r.enabled] >>)
  BY <1>1, <1>2 DEF fetchCamera, Query, At, Arg, rows
<1>4. Arg(t) \in Step /\ IsCurrent(Arg(t))
  BY <1>3, AThreadsStep
<1>5. j \in Jobs /\ r \in JobRow /\ job[j] = r
  BY <1>1, <1>3, <1>4, StepHas DEF IsCurrent
<1>6. PICK d \in Cameras, e \in BOOLEAN : r = [camera |-> d, enabled |-> e]
  BY <1>5 DEF JobRow
<1>7. c = d /\ r.enabled = e /\ r # None
  BY <1>1, <1>5, <1>6, NoneAssumption
<1>8. w # None
  BY <1>1, <1>2, <1>5, <1>7 DEF RInv, JobsHaveCameras
<1>9. w \in Row
  BY <1>2, <1>6, <1>7, <1>8 DEF IInv, Typed
<1> DEFINE x == [do |-> "applyJob", job |-> j, camera |-> d, row |-> w, enabled |-> e]
<1>10. x \in Step /\ x.do = "applyJob" /\ x.job = j /\ x.enabled = e /\ OnlyStarts(x)
  BY <1>5, <1>6, <1>9, StepsThereAre DEF OnlyStarts, StartingSteps
<1>11. IsCurrent(x)'
  <2>1. job'[j] = [camera |-> d, enabled |-> e] /\ camera'[d] = w
    BY <1>2, <1>3, <1>5, <1>6, <1>7
  <2> QED
    BY <2>1 DEF IsCurrent
<1>12. Then(t, <<x>>)
  BY <1>3, <1>7, <1>8
<1> HIDE DEF x
<1> QED
  BY <1>1, <1>7, <1>10, <1>11, <1>12

\* fetchCamera, in a call or at start-up.
LEMMA FetchMatches ==
    ASSUME IInv, RInv, OneCallAtATime, NEW t \in Threads, fetchCamera(t)
    PROVE  RInv'
<1>1. /\ todo[t] # <<>> /\ Arg(t).do = "fetchCamera" /\ NothingChanges /\ UNCHANGED unsure
      /\ \E s : Then(t, s)
  BY DEF fetchCamera, Query, At, Arg, NothingChanges, rows, process, runtime
<1>2. CASE life = "up"
  <2>1. PICK x \in Step :
           /\ Then(t, <<x>>) /\ x.do = "applyJob" /\ x.job = Arg(t).job
           /\ x.enabled = Arg(t).row.enabled /\ IsCurrent(x)' /\ OnlyStarts(x)
    BY <1>2, FetchGoesOn
  <2>2. PICK steps : steps = <<x>>
    OBVIOUS
  <2>3. /\ steps \in Seq(Step) /\ DOMAIN steps = {1} /\ steps[1] = x /\ Then(t, steps)
        /\ IsCall(steps)
    BY <2>1, <2>2, ShortCalls DEF BootSteps
  <2>4. /\ StepsAreTyped /\ (t = Boot => BootsOwn(Arg(t)))
    BY <1>1, <1>2, AThreadsStep
  <2>5. \A j \in Jobs : Arg(t).job = j => JobIsDue(j)'
    <3>1. x \in StepsOf(t)'
      BY <1>1, <2>3, <2>4, ThenMoves
    <3> QED
      BY <2>1, <3>1 DEF JobIsDue
  <2>6. CASE t = Boot
    <3>1. BootsOwn(x) /\ x.do \notin Lists
      BY <1>1, <2>1, <2>4, <2>6 DEF BootsOwn, Lists
    <3>2. \A z \in Step : (\E i \in DOMAIN steps : z = steps[i]) =>
             z.do \notin Lists /\ IsCurrent(z)' /\ BootsOwn(z)
      BY <2>1, <2>3, <3>1
    <3> QED
      BY <1>1, <2>3, <2>5, <2>6, <3>2, BootGoesOn
  <2>7. CASE t # Boot
    <3>1. t \in Callers /\ Arg(t).do \notin LaterSteps \cup {"requireCamera"}
      BY <1>1, <2>7 DEF Threads, LaterSteps
    <3>2. /\ StepsAreTyped' /\ Moved(t) /\ IsCall(todo'[t])
          /\ \A z \in StepsOf(t)' : \E i \in DOMAIN steps : z = steps[i]
      BY <1>1, <2>3, <3>1, NextOfACall
    <3>3. \A z \in StepsOf(t)' : \/ z \in StepsOf(t)
                                 \/ IsCurrent(z)' /\ (stage < Done => OnlyStarts(z))
      BY <2>1, <2>3, <3>2
    <3> QED
      BY <1>1, <2>5, <3>1, <3>2, <3>3, QueryMatches
  <2> QED
    BY <2>6, <2>7
<1>3. CASE life # "up"
  <2>1. t = Boot
    BY <1>1, <1>3 DEF RInv, CallersAreDone, Threads
  <2> QED
    BY <1>1, <1>3, <2>1, BootWhenClosing DEF Then, NothingChanges
<1> QED
  BY <1>2, <1>3

\* Every camera there is gets its stream, from its row.
LEMMA ListStreamsMatches ==
    ASSUME IInv, RInv, startAllStreams
    PROVE  RInv'
<1> DEFINE found == {c \in Cameras : camera[c] # None}
           Good == {x \in Step : x.do \in {"startStream", "tellMotion"} /\ camera[x.camera] = x.row}
<1>1. PICK ids : ids = SetToSeq(found)
  OBVIOUS
<1>2. PICK each : each = [i \in DOMAIN ids |-> StartCamera(ids[i], camera[ids[i]])]
  OBVIOUS
<1>3. PICK steps : steps = FlattenSeq(each)
  OBVIOUS
<1>4. /\ Then(Boot, steps) /\ todo[Boot] # <<>> /\ Arg(Boot).do = "listCameras"
      /\ NothingChanges /\ UNCHANGED unsure
  BY <1>1, <1>2, <1>3
  DEF startAllStreams, Listed, Query, At, Arg, NothingChanges, rows, process, runtime
<1>5. ids \in Seq(found) /\ \A c \in found : \E i \in DOMAIN ids : ids[i] = c
  <2>1. IsFiniteSet(found)
    BY IdsAssumption, FS_Subset
  <2> HIDE DEF found
  <2> QED
    BY <1>1, <2>1, SetToSeqIs
<1>6. ASSUME NEW c \in found
      PROVE  \E x, y \in Good : /\ StartCamera(c, camera[c]) = <<x, y>>
                                /\ x.do = "startStream" /\ x.camera = c
  <2>1. camera[c] \in Row
    BY DEF IInv, Typed
  <2> DEFINE x == [do |-> "startStream", camera |-> c, row |-> camera[c]]
             y == [do |-> "tellMotion", camera |-> c, row |-> camera[c]]
  <2>2. x \in Good /\ y \in Good /\ x.do = "startStream" /\ x.camera = c
        /\ StartCamera(c, camera[c]) = <<x, y>>
    BY <2>1, StepsThereAre DEF StartCamera
  <2> HIDE DEF x, y, Good
  <2> QED
    BY <2>2
<1>7. Good \subseteq Step
  OBVIOUS
<1>8. ASSUME NEW x \in Good PROVE x.do \notin Lists /\ IsCurrent(x)' /\ BootsOwn(x)
  BY <1>4 DEF Lists, IsCurrent, BootsOwn, NothingChanges
<1>9. \A c \in Cameras : c \in found <=> camera[c] # None
  OBVIOUS
<1> HIDE DEF found, Good
<1>10. ASSUME NEW i \in DOMAIN ids
       PROVE  /\ each[i] \in Seq(Good) /\ 1 \in DOMAIN each[i]
              /\ each[i][1].do = "startStream" /\ each[i][1].camera = ids[i]
  <2>1. ids[i] \in found /\ each[i] = StartCamera(ids[i], camera[ids[i]])
    BY <1>2, <1>5
  <2>2. PICK x, y \in Good : /\ StartCamera(ids[i], camera[ids[i]]) = <<x, y>>
                             /\ x.do = "startStream" /\ x.camera = ids[i]
    BY <1>6, <2>1
  <2>3. <<x, y>> \in Seq(Good) /\ 1 \in DOMAIN <<x, y>> /\ <<x, y>>[1] = x
    OBVIOUS
  <2> QED
    BY <2>1, <2>2, <2>3
<1>11. each \in Seq(Seq(Good)) /\ DOMAIN each = DOMAIN ids
  <2>1. DOMAIN each = 1 .. Len(ids) /\ Len(ids) \in Nat /\ DOMAIN ids = 1 .. Len(ids)
    BY <1>2, <1>5
  <2>2. each \in [1 .. Len(ids) -> Seq(Good)]
    BY <1>2, <1>10, <2>1
  <2> QED
    BY <2>1, <2>2
<1>12. steps \in Seq(Good)
  BY <1>3, <1>11, FlattenIsSeq
<1>13. steps \in Seq(Step) /\ \A i \in DOMAIN steps : steps[i] \in Good
  BY <1>7, <1>12
<1>14. \A x \in Step : (\E i \in DOMAIN steps : x = steps[i]) =>
          x.do \notin Lists /\ IsCurrent(x)' /\ BootsOwn(x)
  BY <1>8, <1>13
<1>15. ASSUME life = "up", NEW c \in Cameras PROVE StreamMatches(c) \/ StreamIsDue(c)'
  <2>1. StepsAreTyped /\ Boot \in Threads /\ WillMatch /\ stage < Done
    BY <1>4, <1>15, AThreadsStep DEF Threads
  <2>2. CASE camera[c] = None
    <3>1. session[c] = None
      BY <2>1, <2>2 DEF WillMatch, Matches, NothingStale, StreamMatches
    <3> QED
      BY <2>2, <3>1 DEF StreamMatches
  <2>3. CASE camera[c] # None
    <3>1. PICK i \in DOMAIN ids : ids[i] = c
      BY <1>5, <1>9, <2>3
    <3>2. i \in DOMAIN each /\ 1 \in DOMAIN each[i]
      BY <1>10, <1>11, <3>1
    <3>3. PICK m \in DOMAIN steps : steps[m] = each[i][1]
      BY <1>3, <1>11, <3>2, FlattenHas
    <3>4. steps[m] \in StepsOf(Boot)'
      BY <1>4, <1>13, <2>1, <3>3, ThenMoves
    <3>5. steps[m].do = "startStream" /\ steps[m].camera = c
      BY <1>10, <3>1, <3>3
    <3> QED
      BY <2>1, <3>4, <3>5 DEF StreamIsDue
  <2> QED
    BY <2>2, <2>3
<1> QED
  BY <1>4, <1>13, <1>14, <1>15, BootGoesOn

\* Every job that is enabled is looked up, and none that is not runs yet.
LEMMA ListJobsMatches ==
    ASSUME IInv, RInv, startAllJobs
    PROVE  RInv'
<1> DEFINE found == {j \in Jobs : job[j] # None /\ job[j].enabled}
           Good == {x \in Step : /\ x.do = "fetchCamera" /\ job[x.job] = x.row
                                 /\ x.row.enabled}
<1>1. PICK ids : ids = SetToSeq(found)
  OBVIOUS
<1>2. PICK each : each = [i \in DOMAIN ids |-> SyncJob(ids[i], job[ids[i]])]
  OBVIOUS
<1>3. PICK steps : steps = FlattenSeq(each)
  OBVIOUS
<1>4. /\ Then(Boot, steps) /\ todo[Boot] # <<>> /\ Arg(Boot).do = "listJobs"
      /\ NothingChanges /\ UNCHANGED unsure
  BY <1>1, <1>2, <1>3
  DEF startAllJobs, Listed, Query, At, Arg, NothingChanges, rows, process, runtime
<1>5. ids \in Seq(found) /\ \A j \in found : \E i \in DOMAIN ids : ids[i] = j
  <2>1. IsFiniteSet(found)
    BY IdsAssumption, FS_Subset
  <2> HIDE DEF found
  <2> QED
    BY <1>1, <2>1, SetToSeqIs
<1>6. ASSUME NEW j \in found
      PROVE  \E x \in Good : SyncJob(j, job[j]) = <<x>> /\ x.do = "fetchCamera" /\ x.job = j
  <2>1. job[j] \in JobRow /\ j \in Jobs /\ job[j].enabled
    BY DEF IInv, Typed
  <2> DEFINE x == [do |-> "fetchCamera", job |-> j, row |-> job[j]]
  <2>2. x \in Good /\ x.do = "fetchCamera" /\ x.job = j /\ SyncJob(j, job[j]) = <<x>>
    BY <2>1, StepsThereAre DEF SyncJob
  <2> HIDE DEF x, Good
  <2> QED
    BY <2>2
<1>7. Good \subseteq Step
  OBVIOUS
<1>8. ASSUME NEW x \in Good PROVE x.do \notin Lists /\ IsCurrent(x)' /\ BootsOwn(x)
  BY <1>4 DEF Lists, IsCurrent, BootsOwn, NothingChanges
<1>9. \A c \in Cameras, j \in Jobs : Enabled(c, j) => j \in found
  BY EnabledIs
<1> HIDE DEF found, Good
<1>10. ASSUME NEW i \in DOMAIN ids
       PROVE  /\ each[i] \in Seq(Good) /\ 1 \in DOMAIN each[i]
              /\ each[i][1].do = "fetchCamera" /\ each[i][1].job = ids[i]
  <2>1. ids[i] \in found /\ each[i] = SyncJob(ids[i], job[ids[i]])
    BY <1>2, <1>5
  <2>2. PICK x \in Good : /\ SyncJob(ids[i], job[ids[i]]) = <<x>>
                          /\ x.do = "fetchCamera" /\ x.job = ids[i]
    BY <1>6, <2>1
  <2>3. <<x>> \in Seq(Good) /\ 1 \in DOMAIN <<x>> /\ <<x>>[1] = x
    OBVIOUS
  <2> QED
    BY <2>1, <2>2, <2>3
<1>11. each \in Seq(Seq(Good)) /\ DOMAIN each = DOMAIN ids
  <2>1. DOMAIN each = 1 .. Len(ids) /\ Len(ids) \in Nat /\ DOMAIN ids = 1 .. Len(ids)
    BY <1>2, <1>5
  <2>2. each \in [1 .. Len(ids) -> Seq(Good)]
    BY <1>2, <1>10, <2>1
  <2> QED
    BY <2>1, <2>2
<1>12. steps \in Seq(Good)
  BY <1>3, <1>11, FlattenIsSeq
<1>13. steps \in Seq(Step) /\ \A i \in DOMAIN steps : steps[i] \in Good
  BY <1>7, <1>12
<1>14. \A x \in Step : (\E i \in DOMAIN steps : x = steps[i]) =>
          x.do \notin Lists /\ IsCurrent(x)' /\ BootsOwn(x)
  BY <1>8, <1>13
<1>15. ASSUME life = "up", NEW c \in Cameras, NEW j \in Jobs
       PROVE  (Runs(c, j) <=> Enabled(c, j)) \/ JobIsDue(j)'
  <2>1. StepsAreTyped /\ Boot \in Threads /\ WillMatch /\ stage < Done
    BY <1>4, <1>15, AThreadsStep DEF Threads
  <2>2. CASE ~Enabled(c, j)
    BY <2>1, <2>2 DEF WillMatch, Matches, NothingStale
  <2>3. CASE Enabled(c, j)
    <3>1. PICK i \in DOMAIN ids : ids[i] = j
      BY <1>5, <1>9, <2>3
    <3>2. i \in DOMAIN each /\ 1 \in DOMAIN each[i]
      BY <1>10, <1>11, <3>1
    <3>3. PICK m \in DOMAIN steps : steps[m] = each[i][1]
      BY <1>3, <1>11, <3>2, FlattenHas
    <3>4. steps[m] \in StepsOf(Boot)'
      BY <1>4, <1>13, <2>1, <3>3, ThenMoves
    <3>5. steps[m].do = "fetchCamera" /\ steps[m].job = j
      BY <1>10, <3>1, <3>3
    <3> QED
      BY <2>1, <3>4, <3>5 DEF JobIsDue
  <2> QED
    BY <2>2, <2>3
<1> QED
  BY <1>4, <1>13, <1>14, <1>15, BootGoesOn

\* The start-up thread begins a stage, or has to begin it again.
LEMMA BootIsReplaced ==
    ASSUME IInv, RInv, NEW s \in Seq(Step), todo' = [todo EXCEPT ![Boot] = s],
           NothingChanges, UNCHANGED unsure,
           \A i \in DOMAIN s : s[i].do \in Lists \cup {"stageDone"},
           \A i, k \in DOMAIN s : s[i].do \in Lists /\ k # i => i = 1 /\ s[k].do = "stageDone",
           stage = 2 => s = <<>> \/ \E i \in DOMAIN s : s[i].do = "listCameras",
           stage = 3 => s = <<>> \/ \E i \in DOMAIN s : s[i].do = "listJobs",
           \A x \in StepsOf(Boot) : /\ x.do \notin {"startStream", "tellMotion"}
                                    /\ x.do \in {"fetchCamera", "applyJob"} => stage = 3,
           \A x \in StepsOf(Boot) : x.do \in {"fetchCamera", "applyJob"} => s = <<>>
    PROVE  RInv'
<1>1. CASE life # "up"
  BY <1>1, BootWhenClosing DEF NothingChanges
<1>2. CASE life = "up"
  <2>1. Boot \in Threads /\ Callers \subseteq Threads /\ Boot \notin Callers
    BY ThreadAssumption DEF Threads
  <2>2. WillMatch /\ StepsAreTyped
    BY <1>2 DEF RInv, IInv, ThreadsAreInOrder
  <2>3. todo'[Boot] = s /\ \A u \in Threads : u # Boot => todo'[u] = todo[u]
    BY <2>1, <2>2 DEF StepsAreTyped
  <2>4. \A u \in Threads : u # Boot => StepsOf(u)' = StepsOf(u)
    BY <2>3 DEF StepsOf
  <2>5. \A x \in StepsOf(Boot) :
           x.do \notin {"startStream", "cleanupStream", "tellMotion", "removeCamera", "removeJob"}
    BY BootsSteps
  <2>6. CopiesAreCurrent'
    <3>1. ASSUME NEW x \in StepsOf(Boot)' PROVE IsCurrent(x)' /\ BootsOwn(x)
      <4>1. x.do \in Lists \cup {"stageDone"}
        BY <2>3, <3>1 DEF StepsOf
      <4> QED
        BY <4>1 DEF IsCurrent, BootsOwn, Lists
    <3> QED
      BY <2>1, <2>2, <2>3, <3>1, CopiesStay DEF WillMatch, NothingChanges
  <2>7. FormsOfCalls'
    BY <2>1, <2>2, <2>3 DEF FormsOfCalls, WillMatch
  <2>8. /\ \A c \in Cameras : /\ StreamIsDue(c) => StreamIsDue(c)'
                              /\ MotionIsDue(c) => MotionIsDue(c)'
                              /\ RemovalIsDue(c) => RemovalIsDue(c)'
        /\ \A c \in Cameras, j \in Jobs : JobGoes(c, j) => JobGoes(c, j)'
    <3>1. ASSUME NEW u \in Threads, NEW x \in StepsOf(u),
                 x.do \in {"startStream", "cleanupStream", "tellMotion", "removeCamera",
                           "removeJob"}
          PROVE  x \in StepsOf(u)'
      BY <2>4, <2>5, <3>1
    <3> QED
      BY <3>1 DEF StreamIsDue, MotionIsDue, RemovalIsDue, JobGoes
  <2>9. \A j \in Jobs : JobIsDue(j) => JobIsDue(j)' \/ JobsToList'
    <3>1. ASSUME NEW u \in Threads, NEW x \in StepsOf(u),
                 x.do \in {"fetchCamera", "applyJob", "removeJob"}
          PROVE  x \in StepsOf(u)' \/ JobsToList'
      <4>1. CASE u # Boot
        BY <2>4, <4>1
      <4>2. CASE u = Boot
        <5>1. stage' = 3 /\ todo'[Boot] = <<>>
          BY <2>3, <2>5, <3>1, <4>2 DEF NothingChanges
        <5> QED
          BY <5>1 DEF JobsToList, ToList
      <4> QED
        BY <4>1, <4>2
    <3> QED
      BY <3>1 DEF JobIsDue
  <2>10. /\ StreamsToList => StreamsToList'
         /\ JobsToList => JobsToList'
    <3>1. ASSUME NEW name, NEW n, ToList(name, n),
                 stage = n => s = <<>> \/ \E i \in DOMAIN s : s[i].do = name
          PROVE  ToList(name, n)'
      BY <2>3, <3>1 DEF ToList, StepsOf, NothingChanges
    <3> QED
      BY <3>1 DEF StreamsToList, JobsToList
  <2>11. Matches'
    BY <2>2, <2>8, <2>9, <2>10, MatchesStay DEF WillMatch, NothingChanges
  <2> QED
    BY <1>2, <2>6, <2>7, <2>11, QuietlyTogether
<1> QED
  BY <1>1, <1>2

\* A stage begins with its list, which is still to be read.
LEMMA BeginMatches ==
    ASSUME IInv, RInv, BeginStage
    PROVE  RInv'
<1>1. PICK x, y, s : /\ x = [do |-> StageSteps[stage]] /\ y = [do |-> "stageDone"]
                     /\ s = <<x, y>>
  OBVIOUS
<1>2. /\ todo[Boot] = <<>> /\ stage < Done /\ todo' = [todo EXCEPT ![Boot] = s]
      /\ NothingChanges /\ UNCHANGED unsure
  BY <1>1 DEF BeginStage, NothingChanges, rows, process, runtime
<1>3. stage \in 1 .. 3
  BY <1>2 DEF IInv, Typed, Done
<1>4. /\ x.do \in Lists /\ y.do = "stageDone"
      /\ stage = 2 => x.do = "listCameras"
      /\ stage = 3 => x.do = "listJobs"
  BY <1>1, <1>3 DEF StageSteps, Stages, Lists
<1>5. x \in Step /\ y \in Step
  <2>1. x.do \in BootSteps /\ x = [do |-> x.do] /\ "stageDone" \in BootSteps
    BY <1>1, <1>4 DEF Lists, BootSteps
  <2> QED
    BY <1>1, <2>1, StepsThereAre
<1>6. s \in Seq(Step) /\ DOMAIN s = {1, 2} /\ s[1] = x /\ s[2] = y
  BY <1>1, <1>5, ShortCalls
<1>7. StepsOf(Boot) = {}
  BY <1>2 DEF StepsOf
<1>8. "stageDone" \notin Lists
  BY DEF Lists
<1> QED
  BY <1>2, <1>4, <1>6, <1>7, <1>8, BootIsReplaced

\* The database is gone: the stage begins again, and with it the list.
LEMMA BootThrowMatches ==
    ASSUME IInv, RInv, QueryThrows(Boot)
    PROVE  RInv'
<1>1. PICK name \in Queries : At(Boot, name)
  BY DEF QueryThrows
<1>2. PICK s : s = <<>>
  OBVIOUS
<1>3. /\ todo[Boot] # <<>> /\ Arg(Boot).do = name /\ todo' = [todo EXCEPT ![Boot] = s]
      /\ NothingChanges /\ UNCHANGED unsure
  BY <1>1, <1>2 DEF QueryThrows, Ends, At, Arg, NothingChanges, rows, process, runtime
<1>4. s \in Seq(Step) /\ DOMAIN s = {}
  BY <1>2, ShortCalls
<1>5. CASE life # "up"
  BY <1>3, <1>5, BootWhenClosing DEF NothingChanges
<1>6. CASE life = "up"
  <2>1. Boot \in Threads /\ StepsAreTyped /\ FormsOfCalls /\ BootKeepsToItsStage
    BY <1>6 DEF Threads, RInv, WillMatch, IInv, ThreadsAreInOrder
  <2>2. 1 \in DOMAIN todo[Boot] /\ Arg(Boot) = todo[Boot][1]
    <3>1. todo[Boot] \in Seq(Step)
      BY <2>1 DEF StepsAreTyped
    <3> QED
      BY <1>3, <3>1 DEF Arg
  <2>3. stage = 2 => name \in Lists
    <3>1. Belongs(name, stage)
      BY <1>3, <2>1, <2>2 DEF BootKeepsToItsStage
    <3> QED
      BY <3>1 DEF Belongs, Lists, Queries
  <2>4. ASSUME NEW x \in StepsOf(Boot)
        PROVE  /\ x.do \notin {"startStream", "tellMotion"}
               /\ x.do \in {"fetchCamera", "applyJob"} => stage = 3
    <3>1. PICK k \in DOMAIN todo[Boot] : x = todo[Boot][k]
      BY DEF StepsOf
    <3>2. Belongs(x.do, stage)
      BY <2>1, <3>1 DEF BootKeepsToItsStage
    <3>3. stage = 2 => x.do \in Lists \cup {"stageDone"}
      BY <1>3, <2>1, <2>2, <2>3, <3>1 DEF FormsOfCalls
    <3> QED
      BY <3>2, <3>3 DEF Belongs, Lists
  <2> QED
    BY <1>2, <1>3, <1>4, <2>4, BootIsReplaced
<1> QED
  BY <1>5, <1>6

\* A stage ends with its last step: nothing of it is left to list.
LEMMA EndStageMatches ==
    ASSUME IInv, RInv, EndStage
    PROVE  RInv'
<1>1. PICK steps : steps = <<>>
  OBVIOUS
<1>2. /\ todo[Boot] # <<>> /\ Arg(Boot).do = "stageDone" /\ Then(Boot, steps)
      /\ stage' = stage + 1 /\ steps \in Seq(Step) /\ DOMAIN steps = {}
      /\ UNCHANGED <<camera, job, used, session, group, life, unsure>>
  BY <1>1, ShortCalls DEF EndStage, At, Arg, rows, runtime
<1>3. /\ Boot \in Threads /\ Callers \subseteq Threads /\ Boot \notin Callers
      /\ StepsAreTyped /\ BootKeepsToItsStage /\ stage \in Nat /\ stage < Done
  BY <1>2, ThreadAssumption DEF Threads, IInv, Typed, ThreadsAreInOrder, BootKeepsToItsStage
<1>4. /\ StepsAreTyped' /\ Moved(Boot) /\ todo'[Boot] = steps \o Tail(todo[Boot])
      /\ \A x \in StepsOf(Boot)' : x \in StepsOf(Boot)
  BY <1>2, <1>3, ThenMoves
<1>5. todo'[Boot] = <<>> /\ StepsOf(Boot) = {Arg(Boot)}
  <2>1. todo[Boot] \in Seq(Step) /\ 1 \in DOMAIN todo[Boot] /\ todo[Boot][1] = Arg(Boot)
    <3>1. todo[Boot] \in Seq(Step)
      BY <1>3 DEF StepsAreTyped
    <3> QED
      BY <1>2, <3>1 DEF Arg
  <2>2. Len(todo[Boot]) = 1
    BY <1>2, <1>3, <2>1 DEF BootKeepsToItsStage
  <2>3. StepsOf(Boot) = {Arg(Boot)} /\ Tail(todo[Boot]) = <<>>
    BY <1>3, <2>2, WhatAThreadHas
  <2> QED
    BY <1>1, <1>4, <2>3
<1>6. \A u \in Threads : u # Boot => todo'[u] = todo[u]
  BY <1>4 DEF Moved
<1>7. CASE life # "up"
  <2>1. (\A u \in Callers : todo'[u] = todo[u]) /\ group' \in [Cameras -> Group \cup {None}]
    BY <1>2, <1>3, <1>6 DEF RInv
  <2> QED
    BY <1>2, <1>7, <2>1, ClosingMatches
<1>8. CASE life = "up"
  <2>1. WillMatch
    BY <1>8 DEF RInv
  <2>2. CopiesAreCurrent'
    <3>1. \A u \in Threads : \A x \in StepsOf(u)' : x \in StepsOf(u)
      <4>1. \A u \in Threads : u # Boot => StepsOf(u)' = StepsOf(u)
        BY <1>6 DEF StepsOf
      <4> QED
        BY <1>4, <4>1
    <3>2. \A x : IsCurrent(x) => IsCurrent(x)'
      BY <1>2 DEF IsCurrent
    <3>3. stage' < Done => stage < Done
      BY <1>3
    <3> QED
      BY <1>3, <2>1, <3>1, <3>2, <3>3 DEF CopiesAreCurrent, WillMatch
  <2>3. FormsOfCalls'
    <3>1. \A u \in Callers : todo'[u] = todo[u]
      BY <1>3, <1>6
    <3> QED
      BY <1>5, <2>1, <3>1 DEF FormsOfCalls, WillMatch
  <2>4. /\ \A c \in Cameras : /\ StreamIsDue(c) => StreamIsDue(c)'
                              /\ MotionIsDue(c) => MotionIsDue(c)'
                              /\ RemovalIsDue(c) => RemovalIsDue(c)'
        /\ \A j \in Jobs : JobIsDue(j) => JobIsDue(j)'
        /\ \A c \in Cameras, j \in Jobs : JobGoes(c, j) => JobGoes(c, j)'
    BY <1>2, <1>3, <1>4, WhatStaysDue
  <2>5. /\ StreamsToList => StreamsToList'
        /\ JobsToList => JobsToList'
    <3>1. ASSUME NEW name \in {"listCameras", "listJobs"}, NEW n \in Nat, ToList(name, n)
          PROVE  ToList(name, n)'
      <4>1. stage < n
        BY <1>2, <1>5, <3>1 DEF ToList
      <4>2. stage' = n \/ stage' < n
        BY <1>2, <1>3, <4>1
      <4> QED
        BY <1>5, <4>2 DEF ToList
    <3> QED
      BY <3>1 DEF StreamsToList, JobsToList
  <2>6. Matches'
    BY <1>2, <1>3, <2>1, <2>4, <2>5, MatchesStay DEF WillMatch
  <2>7. JobsHaveCameras' /\ group' \in [Cameras -> Group \cup {None}] /\ life' = "up"
    BY <1>2, <1>8 DEF RInv, JobsHaveCameras
  <2> QED
    BY <2>2, <2>3, <2>6, <2>7, Together
<1> QED
  BY <1>7, <1>8

-----------------------------------------------------------------------------
(* Clients, and the process.                                               *)

\* A client calls: the steps it gets are current, and early ones only start.
LEMMA CallMatches ==
    ASSUME IInv, RInv, OneCallAtATime, NEW t \in Callers, NEW kind, NEW id, NEW steps \in Seq(Step),
           Calls(t, kind, id, steps), IsCall(steps),
           \A x \in Step : (\E i \in DOMAIN steps : x = steps[i]) =>
              IsCurrent(x)' /\ (stage < Done => OnlyStarts(x))
    PROVE  RInv'
<1>1. /\ life = "up" /\ todo[t] = <<>> /\ todo' = [todo EXCEPT ![t] = steps]
      /\ used' = used \cup {id} /\ UNCHANGED <<camera, job, session, group, stage, life, unsure>>
  BY DEF Calls, Clients, process, runtime
<1>2. /\ t \in Threads /\ t # Boot /\ Boot \in Threads /\ Callers \subseteq Threads
      /\ WillMatch /\ StepsAreTyped
  BY <1>1, ThreadAssumption DEF Threads, RInv, IInv, ThreadsAreInOrder
<1>3. todo'[t] = steps /\ \A u \in Threads : u # t => todo'[u] = todo[u]
  BY <1>1, <1>2 DEF StepsAreTyped
<1>4. /\ \A u \in Threads : StepsOf(u) \subseteq StepsOf(u)'
      /\ StepsOf(t)' = {steps[i] : i \in DOMAIN steps}
  <2>1. StepsOf(t) = {}
    BY <1>1 DEF StepsOf
  <2>2. \A u \in Threads : u # t => StepsOf(u)' = StepsOf(u)
    BY <1>3 DEF StepsOf
  <2> QED
    BY <1>3, <2>1, <2>2 DEF StepsOf
<1>5. CopiesAreCurrent'
  <2>1. \A x \in StepsOf(t)' : IsCurrent(x)' /\ (stage < Done => OnlyStarts(x))
    <3>1. \A i \in DOMAIN steps : steps[i] \in Step
      OBVIOUS
    <3> QED
      BY <1>4, <3>1
  <2> QED
    BY <1>1, <1>2, <1>3, <2>1, CopiesStay DEF WillMatch
<1>6. FormsOfCalls'
  <2>1. \A u \in Callers : IsCall(todo'[u])
    BY <1>2, <1>3 DEF WillMatch, FormsOfCalls
  <2> QED
    BY <1>2, <1>3, <2>1 DEF WillMatch, FormsOfCalls
<1>7. /\ \A c \in Cameras : /\ StreamIsDue(c) => StreamIsDue(c)'
                            /\ MotionIsDue(c) => MotionIsDue(c)'
                            /\ RemovalIsDue(c) => RemovalIsDue(c)'
      /\ \A j \in Jobs : JobIsDue(j) => JobIsDue(j)'
      /\ \A c \in Cameras, j \in Jobs : JobGoes(c, j) => JobGoes(c, j)'
  BY <1>4 DEF StreamIsDue, MotionIsDue, RemovalIsDue, JobIsDue, JobGoes
<1>8. /\ StreamsToList => StreamsToList'
      /\ JobsToList => JobsToList'
  BY <1>1, <1>2, <1>3 DEF StreamsToList, JobsToList, ToList, StepsOf
<1>9. Matches'
  BY <1>1, <1>2, <1>7, <1>8, MatchesStay DEF WillMatch
<1>10. JobsHaveCameras' /\ group' \in [Cameras -> Group \cup {None}]
  BY <1>1 DEF RInv, JobsHaveCameras
<1> QED
  BY <1>1, <1>5, <1>6, <1>9, <1>10, Together

\* Calls about cameras.
LEMMA CameraCallMatches ==
    ASSUME IInv, RInv, OneCallAtATime, NEW t \in Callers, CameraCall(t)
    PROVE  RInv'
<1>1. PICK c \in Cameras, b \in BOOLEAN :
         \/ Calls(t, "create", c, << [do |-> "createCamera", camera |-> c,
                                      row |-> [version |-> 1, motion |-> b]] >>)
         \/ Calls(t, "put", c, << [do |-> "putCamera", camera |-> c, motion |-> b] >>)
         \/ Calls(t, IF b THEN "start" ELSE "stop", c,
                  << [do |-> "getCamera", camera |-> c, start |-> b] >>)
         \/ Calls(t, "delete", c, << [do |-> "deleteCamera", camera |-> c] >>)
  BY DEF CameraCall
<1>2. \E kind, x : /\ Calls(t, kind, c, <<x>>) /\ x \in Step
                   /\ x.do \in {"createCamera", "putCamera", "getCamera", "deleteCamera"}
                   /\ kind \in StartingCalls => OnlyStarts(x)
  <2> DEFINE w == [do |-> "createCamera", camera |-> c, row |-> [version |-> 1, motion |-> b]]
             x == [do |-> "putCamera", camera |-> c, motion |-> b]
             y == [do |-> "getCamera", camera |-> c, start |-> b]
             z == [do |-> "deleteCamera", camera |-> c]
  <2>1. {w, x, y, z} \subseteq Step
    <3>1. [version |-> 1, motion |-> b] \in Row
      BY DEF Row
    <3> QED
      BY <3>1, StepsThereAre DEF CameraSteps
  <2>2. /\ w.do = "createCamera" /\ x.do = "putCamera" /\ z.do = "deleteCamera"
        /\ y.do = "getCamera" /\ OnlyStarts(w) /\ (b => OnlyStarts(y))
    BY DEF OnlyStarts, StartingSteps
  <2>3. /\ "put" \notin StartingCalls /\ "delete" \notin StartingCalls
        /\ (IF b THEN "start" ELSE "stop") \in StartingCalls => b
    BY DEF StartingCalls
  <2> HIDE DEF w, x, y, z
  <2>4. \/ Calls(t, "create", c, <<w>>) \/ Calls(t, "put", c, <<x>>)
        \/ Calls(t, IF b THEN "start" ELSE "stop", c, <<y>>)
        \/ Calls(t, "delete", c, <<z>>)
    BY <1>1 DEF w, x, y, z
  <2> QED
    BY <2>1, <2>2, <2>3, <2>4
<1>3. PICK kind, x : /\ Calls(t, kind, c, <<x>>) /\ x \in Step
                     /\ x.do \in {"createCamera", "putCamera", "getCamera", "deleteCamera"}
                     /\ kind \in StartingCalls => OnlyStarts(x)
  BY <1>2
<1>4. PICK steps : steps = <<x>>
  OBVIOUS
<1>5. steps \in Seq(Step) /\ DOMAIN steps = {1} /\ steps[1] = x /\ IsCall(steps)
      /\ Calls(t, kind, c, steps)
  BY <1>3, <1>4, ShortCalls DEF BootSteps
<1>6. IsCurrent(x)'
  BY <1>3 DEF IsCurrent
<1>7. stage < Done => OnlyStarts(x)
  BY <1>3 DEF Calls, Clients, Done, OneCallAtATime
<1> QED
  BY <1>5, <1>6, <1>7, CallMatches

\* Calls about jobs, none of which moves one.
LEMMA JobCallMatches ==
    ASSUME IInv, RInv, OneCallAtATime, NEW t \in Callers, JobCall(t)
    PROVE  RInv'
<1> DEFINE Write(j, c, b, new) == [do |-> "writeJob", job |-> j, new |-> new,
                                   row |-> [camera |-> c, enabled |-> b]]
           Exists(c) == [do |-> "requireCamera", camera |-> c]
           Enable(j, b) == [do |-> "setJobEnabled", job |-> j, enabled |-> b]
           Delete(j) == [do |-> "deleteJob", job |-> j]
<1>1. PICK j \in Jobs, c \in Cameras, b \in BOOLEAN :
         \/ j \notin used /\ Calls(t, "createJob", j, <<Exists(c), Write(j, c, b, TRUE)>>)
         \/ /\ job[j] # None /\ c = job[j].camera
            /\ \/ Calls(t, "updateJob", j, <<Exists(c), Write(j, c, b, FALSE)>>)
               \/ Calls(t, "updateJob", j, <<Write(j, c, b, FALSE)>>)
         \/ Calls(t, IF b THEN "startJob" ELSE "stopJob", j, <<Enable(j, b)>>)
         \/ Calls(t, "deleteJob", j, <<Delete(j)>>)
  BY DEF JobCall, OneCallAtATime
<1>2. PICK n, o, e, a, d : /\ n = Write(j, c, b, TRUE) /\ o = Write(j, c, b, FALSE)
                           /\ e = Exists(c) /\ a = Enable(j, b) /\ d = Delete(j)
  OBVIOUS
<1>3. {n, o, e, a, d} \subseteq Step
  <2>1. PICK r \in JobRow : r = [camera |-> c, enabled |-> b]
    BY DEF JobRow
  <2>2. TRUE \in BOOLEAN /\ FALSE \in BOOLEAN /\ "requireCamera" \in CameraSteps
    BY DEF CameraSteps
  <2>3. /\ n = [do |-> "writeJob", job |-> j, new |-> TRUE, row |-> r]
        /\ o = [do |-> "writeJob", job |-> j, new |-> FALSE, row |-> r]
        /\ e = [do |-> "requireCamera", camera |-> c]
        /\ a = [do |-> "setJobEnabled", job |-> j, enabled |-> b]
        /\ d = [do |-> "deleteJob", job |-> j]
    BY <1>2, <2>1
  <2>4. n \in Step /\ o \in Step
    BY <2>1, <2>2, <2>3, StepsThereAre
  <2>5. e \in Step /\ a \in Step /\ d \in Step
    BY <2>2, <2>3, StepsThereAre
  <2> QED
    BY <2>4, <2>5
<1>4. /\ n.do = "writeJob" /\ o.do = "writeJob" /\ e.do = "requireCamera"
      /\ a.do = "setJobEnabled" /\ d.do = "deleteJob"
      /\ n.job = j /\ n.new = TRUE /\ o.job = j /\ o.new = FALSE /\ o.row.camera = c
      /\ OnlyStarts(n) /\ OnlyStarts(e) /\ (b => OnlyStarts(a))
  BY <1>2 DEF OnlyStarts, StartingSteps
<1>5. /\ "updateJob" \notin StartingCalls /\ "deleteJob" \notin StartingCalls
      /\ (IF b THEN "startJob" ELSE "stopJob") \in StartingCalls => b
  BY DEF StartingCalls
<1>6. \/ j \notin used /\ Calls(t, "createJob", j, <<e, n>>)
      \/ /\ job[j] # None /\ c = job[j].camera
         /\ \/ Calls(t, "updateJob", j, <<e, o>>)
            \/ Calls(t, "updateJob", j, <<o>>)
      \/ Calls(t, IF b THEN "startJob" ELSE "stopJob", j, <<a>>)
      \/ Calls(t, "deleteJob", j, <<d>>)
  BY <1>1, <1>2
<1> HIDE DEF Write, Exists, Enable, Delete
<1>7. \A kind, steps : Calls(t, kind, j, steps) =>
         /\ stage < Done => kind \in StartingCalls
         /\ UNCHANGED job /\ j \in used'
  BY DEF Calls, Clients, Done, OneCallAtATime
<1>8. IsCurrent(e)' /\ IsCurrent(a)' /\ IsCurrent(d)'
  BY <1>4 DEF IsCurrent
<1>9. /\ j \notin used /\ UNCHANGED job /\ j \in used' => IsCurrent(n)'
      /\ job[j] # None /\ c = job[j].camera /\ UNCHANGED job /\ j \in used' => IsCurrent(o)'
  BY <1>4 DEF IsCurrent, RInv, JobsHaveCameras
<1> DEFINE Goal(kind, steps) ==
              /\ Calls(t, kind, j, steps) /\ steps \in Seq(Step) /\ IsCall(steps)
              /\ \A x \in Step : (\E i \in DOMAIN steps : x = steps[i]) =>
                    IsCurrent(x)' /\ (stage < Done => OnlyStarts(x))
<1>10. \E kind, steps : Goal(kind, steps)
  <2>1. ASSUME NEW kind, NEW x \in Step, Calls(t, kind, j, <<x>>), IsCurrent(x)',
               kind \in StartingCalls => OnlyStarts(x), x.do \notin BootSteps \cup {"finalize"}
        PROVE  \E k, steps : Goal(k, steps)
    <3>1. PICK steps : steps = <<x>>
      OBVIOUS
    <3>2. steps \in Seq(Step) /\ DOMAIN steps = {1} /\ steps[1] = x /\ IsCall(steps)
      BY <2>1, <3>1, ShortCalls
    <3> QED
      BY <1>7, <2>1, <3>1, <3>2
  <2>2. ASSUME NEW kind, NEW y \in Step, Calls(t, kind, j, <<e, y>>), IsCurrent(y)',
               kind \in StartingCalls => OnlyStarts(y), y.do = "writeJob"
        PROVE  \E k, steps : Goal(k, steps)
    <3>1. PICK steps : steps = <<e, y>>
      OBVIOUS
    <3>2. /\ steps \in Seq(Step) /\ DOMAIN steps = {1, 2} /\ steps[1] = e /\ steps[2] = y
          /\ IsCall(steps)
      BY <1>3, <1>4, <2>2, <3>1, ShortCalls DEF BootSteps
    <3> QED
      BY <1>4, <1>7, <1>8, <2>2, <3>1, <3>2
  <2> HIDE DEF Goal
  <2>3. CASE j \notin used /\ Calls(t, "createJob", j, <<e, n>>)
    BY <1>3, <1>4, <1>7, <1>9, <2>2, <2>3
  <2>4. CASE /\ job[j] # None /\ c = job[j].camera
             /\ \/ Calls(t, "updateJob", j, <<e, o>>)
                \/ Calls(t, "updateJob", j, <<o>>)
    <3>1. o.do \notin BootSteps \cup {"finalize"}
      BY <1>4 DEF BootSteps
    <3>2. IsCurrent(o)' /\ o \in Step /\ o.do = "writeJob"
      BY <1>3, <1>4, <1>7, <1>9, <2>4
    <3>3. CASE Calls(t, "updateJob", j, <<e, o>>)
      BY <1>5, <2>2, <3>2, <3>3
    <3>4. CASE Calls(t, "updateJob", j, <<o>>)
      BY <1>5, <2>1, <3>1, <3>2, <3>4
    <3> QED
      BY <2>4, <3>3, <3>4
  <2>5. CASE \/ Calls(t, IF b THEN "startJob" ELSE "stopJob", j, <<a>>)
             \/ Calls(t, "deleteJob", j, <<d>>)
    <3>1. {a.do, d.do} \cap (BootSteps \cup {"finalize"}) = {}
      BY <1>4 DEF BootSteps
    <3> QED
      BY <1>3, <1>4, <1>5, <1>8, <2>1, <2>5, <3>1
  <2> QED
    BY <1>6, <2>3, <2>4, <2>5
<1>11. PICK kind : \E steps : Goal(kind, steps)
  BY <1>10
<1>12. PICK steps : Goal(kind, steps)
  BY <1>11
<1> QED
  BY <1>12, CallMatches

\* Recording, outages, and the steps that leave all this alone.
Unaffected == UNCHANGED <<camera, job, used, session, group, todo, stage, life, unsure>>

\* Neither recording nor an outage changes what is due or runs.
LEMMA UnaffectedMatches ==
    ASSUME IInv, RInv, Unaffected
    PROVE  RInv'
<1>1. UNCHANGED <<camera, job, used, session, group, todo, stage, life, unsure>>
  BY DEF Unaffected
<1>2. Boot \in Threads /\ \A t : StepsOf(t)' = StepsOf(t)
  BY <1>1 DEF StepsOf, Threads
<1>3. CASE life # "up"
  <2>1. group' \in [Cameras -> Group \cup {None}]
    BY <1>1 DEF RInv
  <2> QED
    BY <1>1, <1>3, <2>1, ClosingMatches
<1>4. CASE life = "up"
  <2>1. WillMatch
    BY <1>4 DEF RInv
  <2>2. CopiesAreCurrent'
    BY <1>1, <1>2, <2>1, CopiesStay DEF WillMatch
  <2>3. FormsOfCalls'
    BY <1>1, <2>1 DEF WillMatch, FormsOfCalls
  <2>4. Matches'
    <3>1. /\ \A c \in Cameras : /\ StreamIsDue(c) => StreamIsDue(c)'
                                /\ MotionIsDue(c) => MotionIsDue(c)'
                                /\ RemovalIsDue(c) => RemovalIsDue(c)'
          /\ \A j \in Jobs : JobIsDue(j) => JobIsDue(j)'
          /\ \A c \in Cameras, j \in Jobs : JobGoes(c, j) => JobGoes(c, j)'
      BY <1>2 DEF StreamIsDue, MotionIsDue, RemovalIsDue, JobIsDue, JobGoes
    <3>2. /\ StreamsToList => StreamsToList'
          /\ JobsToList => JobsToList'
      BY <1>1, <1>2 DEF StreamsToList, JobsToList, ToList
    <3> QED
      BY <1>1, <2>1, <3>1, <3>2, MatchesStay DEF WillMatch
  <2> QED
    BY <1>1, <1>4, <2>2, <2>3, <2>4, QuietlyTogether DEF NothingChanges
<1> QED
  BY <1>3, <1>4

\* Where nothing runs and nobody calls, everything is to be listed.
NothingIsStarted ==
    /\ \A t \in Threads : todo[t] = <<>>
    /\ \A c \in Cameras : session[c] = None /\ group[c] = None
    /\ stage = 1

LEMMA NothingRunsMatches == NothingIsStarted => WillMatch
<1> SUFFICES ASSUME NothingIsStarted PROVE WillMatch
  OBVIOUS
<1> USE DEF NothingIsStarted
<1>1. \A t \in Threads : StepsOf(t) = {}
  BY DEF StepsOf
<1>2. Boot \in Threads /\ Callers \subseteq Threads
  BY DEF Threads
<1>3. CopiesAreCurrent
  BY <1>1, <1>2 DEF CopiesAreCurrent
<1>4. FormsOfCalls
  BY <1>2, ShortCalls DEF FormsOfCalls
<1>5. StreamsToList /\ JobsToList
  BY DEF StreamsToList, JobsToList, ToList
<1>6. \A c \in Cameras : GroupMatches(c) /\ \A j \in Jobs : ~Keeps(c, j) /\ ~Runs(c, j)
  BY DEF GroupMatches, Keeps, Runs
<1>7. Matches
  BY <1>5, <1>6
  DEF Matches, JobsAreAtHome, StreamsWillMatch, GroupsWillMatch, JobsWillMatch, NothingStale
<1> QED
  BY <1>3, <1>4, <1>7 DEF WillMatch

\* A crash, a shutdown, and the start that follows.
LEMMA ProcessMatches ==
    ASSUME IInv, RInv, Crash \/ Exit \/ Shutdown \/ StopAi \/ Launch
    PROVE  RInv'
<1>1. UNCHANGED rows
  BY DEF Crash, Exit, MemoryIsLost, Shutdown, StopAi, Launch
<1>2. JobsHaveCameras'
  BY <1>1 DEF RInv, JobsHaveCameras, rows
<1>3. CASE Crash \/ Exit
  <2>1. /\ group' = [c \in Cameras |-> None] /\ todo' = [t \in Threads |-> <<>>]
        /\ life' = "down"
    BY <1>3 DEF Crash, Exit, MemoryIsLost
  <2>2. CallersAreDone'
    BY <2>1 DEF CallersAreDone, Threads
  <2> QED
    BY <1>2, <2>1, <2>2 DEF RInv
<1>4. CASE Shutdown
  <2>1. /\ life' = "closing" /\ (\A t \in Callers : todo[t] = <<>>)
        /\ todo' = todo /\ group' = group
    BY <1>4 DEF Shutdown, runtime
  <2> QED
    BY <1>2, <2>1 DEF RInv, CallersAreDone
<1>5. CASE StopAi
  <2>1. /\ life = "closing" /\ life' = "aiStopped" /\ group' = [c \in Cameras |-> None]
        /\ todo' = todo
    BY <1>5 DEF StopAi
  <2> QED
    BY <1>2, <2>1 DEF RInv, CallersAreDone
<1>6. CASE Launch
  <2>1. /\ life = "down" /\ life' = "up" /\ stage' = 1
        /\ UNCHANGED <<session, group, todo>>
    BY <1>6 DEF Launch, runtime
  <2>2. \A c \in Cameras : session[c] = None /\ group[c] = None
    BY <2>1 DEF IInv, ThreadsAreInOrder, NothingRunsYet, RInv, CallersAreDone
  <2>3. \A t \in Threads : todo[t] = <<>>
    BY <2>1 DEF IInv, ThreadsAreInOrder, NothingRunsYet, Threads
  <2>4. /\ \A t \in Threads : todo'[t] = <<>>
        /\ \A c \in Cameras : session'[c] = None /\ group'[c] = None
    BY <2>1, <2>2, <2>3
  <2>5. WillMatch'
    <3>1. NothingIsStarted'
      BY <2>1, <2>4 DEF NothingIsStarted
    <3> QED
      BY <3>1, NothingRunsMatches, PTL
  <2>6. CallersAreDone'
    BY <2>1 DEF CallersAreDone
  <2> QED
    BY <1>2, <2>1, <2>5, <2>6 DEF RInv
<1> QED
  BY <1>3, <1>4, <1>5, <1>6

\* Every step.
LEMMA NextMatches ==
    ASSUME IInv, RInv, OneCallAtATime, [Next]_vars
    PROVE  RInv'
<1>1. Callers \subseteq Threads /\ Boot \in Threads /\ \A t \in Threads : t \in Callers \/ t = Boot
  BY DEF Threads
<1>2. ASSUME NEW t \in Callers, CallerStep(t) PROVE RInv'
  <2>1. CASE createCamera(t) \/ putCamera(t) \/ deleteCamera(t) \/ getCamera(t)
    BY <2>1, CreateMatches, PutMatches, DeleteMatches, GetMatches
  <2>2. CASE requireCamera(t) \/ writeJob(t) \/ setJobEnabled(t) \/ deleteJob(t)
    BY <2>2, RequireMatches, WriteJobMatches, EnableMatches, DeleteJobMatches
  <2>3. CASE stopStream(t) \/ cleanupStream(t)
    BY <2>3, StopMatches, CleanupMatches
  <2>4. CASE motionOff(t) \/ removeJob(t) \/ removeCamera(t)
    BY <2>4, MotionOffMatches, RemoveJobMatches, RemoveCameraMatches
  <2> QED
    BY <1>2, <2>1, <2>2, <2>3, <2>4 DEF CallerStep
<1>3. ASSUME NEW t \in Threads, SharedStep(t) PROVE RInv'
  <2>1. CASE startStream(t) \/ tellMotion(t) \/ fetchCamera(t) \/ applyJob(t)
    BY <2>1, StartMatches, TellMatches, FetchMatches, ApplyMatches
  <2>2. CASE QueryThrows(t)
    BY <1>1, <2>2, ThrowMatches, BootThrowMatches
  <2> QED
    BY <1>3, <2>1, <2>2 DEF SharedStep
<1>4. ASSUME NEW t \in Callers, CameraCall(t) \/ JobCall(t) PROVE RInv'
  BY <1>4, CameraCallMatches, JobCallMatches
<1>5. CASE BootStep
  <2>1. CASE BeginStage \/ EndStage \/ listOrphans \/ finalizeOrphan
    BY <2>1, BeginMatches, EndStageMatches, ListOrphansMatches, FinalizeMatches
  <2>2. CASE startAllStreams \/ startAllJobs
    BY <2>2, ListStreamsMatches, ListJobsMatches
  <2> QED
    BY <1>1, <1>3, <1>5, <2>1, <2>2 DEF BootStep
<1>6. CASE (\E c \in Cameras : Recorder(c)) \/ DbGoes \/ DbReturns \/ UNCHANGED vars
  <2>1. CASE \E c \in Cameras : Recorder(c)
    <3>1. PICK c \in Cameras : OpenSegment(c) \/ WriteSegment(c) \/ CloseSegment(c)
      BY <2>1 DEF Recorder
    <3>2. Unaffected
      BY <3>1 DEF Unaffected, OpenSegment, WriteSegment, CloseSegment, rows, process, runtime
    <3> QED
      BY <3>2, UnaffectedMatches
  <2>2. CASE DbGoes \/ DbReturns \/ UNCHANGED vars
    <3>1. Unaffected
      BY <2>2 DEF Unaffected, DbGoes, DbReturns, vars, rows, process, runtime
    <3> QED
      BY <3>1, UnaffectedMatches
  <2> QED
    BY <1>6, <2>1, <2>2
<1>7. CASE Crash \/ Exit \/ Shutdown \/ StopAi \/ Launch
  BY <1>7, ProcessMatches
<1> QED
  BY <1>1, <1>2, <1>3, <1>4, <1>5, <1>6, <1>7 DEF Next

\* One call at a time, none but starting ones before the start-up thread is
\* done, and no job that changes its camera: then what runs, once nothing is
\* under way, is what the rows say, through any number of crashes and outages.
THEOREM RuntimeAlwaysMatches == ASSUME OneCallAtATime PROVE Spec => []RuntimeMatchesRows
<1>1. Init => IInv /\ RInv
  <2> SUFFICES ASSUME Init PROVE IInv /\ RInv
    OBVIOUS
  <2>1. WillMatch
    BY NothingRunsMatches DEF Init, NothingIsStarted
  <2>2. JobsHaveCameras /\ CallersAreDone /\ group \in [Cameras -> Group \cup {None}]
    BY DEF Init, JobsHaveCameras, CallersAreDone
  <2> QED
    BY <2>1, <2>2, ThreadAssumption, BoundsAssumption, InitIsInOrder DEF RInv
<1>2. IInv /\ RInv /\ [Next]_vars => IInv' /\ RInv'
  BY OneCallAtATime, NextKeeps, NextMatches
<1> QED
  BY <1>1, <1>2, InvariantMatches, PTL DEF Spec
=============================================================================
