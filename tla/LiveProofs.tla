----------------------------- MODULE LiveProofs -----------------------------
(* Live viewing, proved for every set of viewers and consumers and every      *)
(* bound.  The delivery of frames (FrameDelivery): what readers of sockets    *)
(* and destroyed sources rely on, that a closed descriptor is not written,   *)
(* and the refinement of GopStream.  The connections viewers share (Viewers): *)
(* that there is one of each, and that none is pulled from under a viewer.   *)
EXTENDS FrameDelivery, Viewers, FiniteSetTheorems, TLAPS

-----------------------------------------------------------------------------
(* The inductive invariant.  The properties speak of what consumers have     *)
(* seen; that a step keeps them needs where every consumer is in its life,   *)
(* in which lists it is, and what its next frame can be.                     *)
SourceType == [state : {"new", "up", "down"}, made : 0..MaxFrames,
               calling : SUBSET Consumers]
SinksType == [all : SUBSET Consumers, needKey : SUBSET Consumers]
BridgeType == [at : {"new", "enabled", "attached", "lowered", "unhooked", "freed"},
               seen : 0..MaxFrames]
Entry == [frame : 1..MaxFrames, units : 0..FrameSize]
WireType == [at : {"new", "connected", "feeding", "stopping", "closed"},
             fd : {"none", "open", "closed"}, alive : BOOLEAN, peer : BOOLEAN,
             pending : 0..FrameSize, full : 0..SocketRoom,
             log : Seq(Entry)]

Types ==
    /\ source \in [Sources -> SourceType]
    /\ sinks \in [Sources -> SinksType]
    /\ of \in [Consumers -> Sources \cup {"none"}]
    /\ bridge \in [Bridges -> BridgeType]
    /\ wire \in [Wires -> WireType]
    /\ wild \in BOOLEAN

\* Sources that are called for, or held, run.
Running ==
    /\ \A s \in Sources : source[s].calling # {} => source[s].state = "up"
    /\ \A c \in Consumers : of[c] # "none" => source[of[c]].state = "up"
    /\ source["transcoded"].state = "new" => bridge[Coder].at = "new"

\* The list of a source, and where those on it are in their lives.
Registered == \A s \in Sources :
    /\ sinks[s].needKey \subseteq sinks[s].all
    /\ \A c \in sinks[s].all : of[c] = s
    /\ \A b \in Bridges : b \in sinks[s].all => bridge[b].at \in {"attached", "lowered"}
    /\ \A w \in Wires : w \in sinks[s].all => wire[w].at = "feeding"

\* A consumer holds a source from its attach() or connect() to its end, and
\* before it is on a list it has seen nothing and nobody calls it.
Placed ==
    /\ \A b \in Bridges :
          /\ bridge[b].at \in {"new", "freed"} <=> of[b] = "none"
          /\ bridge[b].at \in {"new", "enabled"} =>
                bridge[b].seen = 0 /\ \A s \in Sources : b \notin source[s].calling
    /\ \A w \in Wires :
          /\ wire[w].fd = "none" <=> wire[w].at = "new"
          /\ wire[w].fd = "closed" <=> wire[w].at = "closed"
          /\ wire[w].at \in {"new", "closed"} <=> of[w] = "none"
          /\ wire[w].at \in {"new", "connected"} =>
                /\ wire[w].log = <<>> /\ wire[w].full = 0
                /\ \A s \in Sources : w \notin source[s].calling

\* A bridge that takes frames has seen all since its first, which was a key
\* frame, but for the one it is about to be called with.
Delivered == \A b \in Bridges : bridge[b].at = "attached" =>
    LET s == source[of[b]]
        waits == b \in sinks[of[b]].needKey
        seen == bridge[b].seen
    IN  /\ b \in sinks[of[b]].all
        /\ \A t \in Sources : b \in source[t].calling => t = of[b]
        /\ waits => seen = 0 /\ b \notin s.calling
        /\ b \in s.calling => \/ seen # 0 /\ s.made = seen + 1
                              \/ seen = 0 /\ IsKey(s.made) /\ s.made # 0
        /\ ~waits /\ b \notin s.calling => seen = s.made /\ seen # 0

SeenBy(w) == IF wire[w].log = <<>> THEN 0 ELSE Last(wire[w].log).frame

\* An open session is behind the frame it is about to be called with, has an
\* empty socket until its first frame, and, unless its peer is gone, waits for
\* the key frame which that is.
FedWell(w) == wire[w].fd = "open" =>
    LET s == source[of[w]] IN
    /\ \A t \in Sources : w \in source[t].calling => t = of[w]
    /\ SeenBy(w) <= s.made
    /\ w \in s.calling => SeenBy(w) < s.made
    /\ wire[w].log = <<>> => wire[w].full = 0
    /\ wire[w].at = "feeding" => w \in sinks[of[w]].all
    /\ w \in sinks[of[w]].needKey => w \notin s.calling
    /\ wire[w].alive /\ wire[w].log = <<>> =>
          /\ w \in s.calling => IsKey(s.made)
          /\ wire[w].at = "feeding" => w \in sinks[of[w]].needKey \/ w \in s.calling
Fed == \A w \in Wires : FedWell(w)

IInv == Types /\ Running /\ Registered /\ Placed /\ Delivered /\ Fed /\ WholeFrames

-----------------------------------------------------------------------------
(* Lemmas on the operators and on what the larger steps change.              *)

(* The key frame gate lets through sinks of the source only.                 *)
LEMMA GateIsOfSinks ==
  ASSUME Types, Registered, NEW s \in Sources, NEW f
  PROVE  /\ Gate(s, f) \subseteq sinks[s].all
         /\ Gate(s, f) = IF IsKey(f) THEN sinks[s].all ELSE sinks[s].all \ sinks[s].needKey
         /\ sinks[s].all \subseteq Consumers
BY DEF Gate, Types, SinksType

(* What the locked part of deliver() changes: only its own source and list.  *)
LEMMA CopySinksDoes ==
  ASSUME Types, Registered, NEW s \in Sources, CopySinks(s)
  PROVE  /\ \A t \in Sources \ {s} : source'[t] = source[t] /\ sinks'[t] = sinks[t]
         /\ source'[s].made = source[s].made + 1 /\ source[s].calling = {}
         /\ source[s].made \in Nat
         /\ sinks'[s].all = sinks[s].all
         /\ sinks'[s].needKey = sinks[s].needKey \ source'[s].calling
         /\ source'[s].calling = IF IsKey(source[s].made + 1) THEN sinks[s].all
                                 ELSE sinks[s].all \ sinks[s].needKey
         /\ of' = of /\ bridge' = bridge /\ wire' = wire
<1> DEFINE f == source[s].made + 1
           called == Gate(s, f)
<1>1. called = IF IsKey(f) THEN sinks[s].all ELSE sinks[s].all \ sinks[s].needKey
  BY GateIsOfSinks
<1>2. /\ source' = [source EXCEPT ![s] = [source[s] EXCEPT !.made = f, !.calling = called]]
      /\ sinks' = [sinks EXCEPT ![s] = [sinks[s] EXCEPT !.needKey = @ \ called]]
      /\ source[s].calling = {} /\ of' = of /\ bridge' = bridge /\ wire' = wire
  BY DEF CopySinks, MayMake
<1>3. source[s] \in SourceType /\ sinks[s] \in SinksType /\ s \in DOMAIN source /\ s \in DOMAIN sinks
  BY DEF Types
<1>4. source[s].made \in Nat
  BY <1>3, DeliveryAssumption DEF SourceType
<1> HIDE DEF called
<1>5. source'[s].made = f /\ source'[s].calling = called
      /\ sinks'[s].all = sinks[s].all /\ sinks'[s].needKey = sinks[s].needKey \ called
  BY <1>2, <1>3 DEF SourceType, SinksType
<1>6. \A t \in Sources \ {s} : source'[t] = source[t] /\ sinks'[t] = sinks[t]
  BY <1>2, Zenon DEF Types
<1> QED
  BY <1>1, <1>2, <1>4, <1>5, <1>6

(* A frame is made when nobody is being called, so those it goes to have seen *)
(* all before it, or wait for the key frame it is.                           *)
LEMMA CopySinksDelivered ==
  ASSUME Types, Registered, Placed, Delivered, NEW s \in Sources, CopySinks(s)
  PROVE  Delivered'
<1> SUFFICES ASSUME NEW b \in Bridges, bridge'[b].at = "attached"
             PROVE  LET src == source'[of'[b]]
                        waits == b \in sinks'[of'[b]].needKey
                        seen == bridge'[b].seen
                    IN  /\ b \in sinks'[of'[b]].all
                        /\ \A t \in Sources : b \in source'[t].calling => t = of'[b]
                        /\ waits => seen = 0 /\ b \notin src.calling
                        /\ b \in src.calling => \/ seen # 0 /\ src.made = seen + 1
                                                \/ seen = 0 /\ IsKey(src.made) /\ src.made # 0
                        /\ ~waits /\ b \notin src.calling => seen = src.made /\ seen # 0
  BY DEF Delivered, IsKey
<1>1. bridge' = bridge /\ of' = of /\ of[b] \in Sources /\ bridge[b].seen \in Nat
  <2>1. bridge' = bridge /\ of' = of
    BY CopySinksDoes
  <2>2. b \in Consumers /\ of[b] # "none" /\ bridge[b] \in BridgeType
    BY <2>1 DEF Types, Placed, Consumers
  <2> QED
    BY <2>1, <2>2, DeliveryAssumption DEF Types, BridgeType
<1>2. /\ \A t \in Sources \ {s} : source'[t] = source[t] /\ sinks'[t] = sinks[t]
      /\ source'[s].made = source[s].made + 1 /\ source[s].calling = {}
      /\ source[s].made \in Nat
      /\ sinks'[s].all = sinks[s].all
      /\ sinks'[s].needKey = sinks[s].needKey \ source'[s].calling
      /\ source'[s].calling = IF IsKey(source[s].made + 1) THEN sinks[s].all
                              ELSE sinks[s].all \ sinks[s].needKey
  BY CopySinksDoes
<1>3. \A t \in Sources : b \in source'[t].calling => t = of[b]
  BY <1>1, <1>2 DEF Delivered, Registered
<1>4. CASE of[b] # s
  BY <1>1, <1>2, <1>3, <1>4 DEF Delivered
<1>5. CASE of[b] = s
  BY <1>1, <1>2, <1>3, <1>5 DEF Delivered
<1> QED
  BY <1>4, <1>5

(* What a session relies on depends only on these parts of the state.        *)
LEMMA FedStays ==
  ASSUME NEW w \in Wires, FedWell(w), source' = source, of' = of,
         wire'[w].fd = wire[w].fd, wire'[w].alive = wire[w].alive,
         wire'[w].log = wire[w].log, wire[w].full = 0 => wire'[w].full = 0,
         wire[w].fd = "open" =>
            /\ wire'[w].at = "feeding" => w \in sinks'[of[w]].all
            /\ w \in sinks'[of[w]].needKey => w \notin source[of[w]].calling
            /\ wire[w].alive /\ wire[w].log = <<>> /\ wire'[w].at = "feeding" =>
                  w \in sinks'[of[w]].needKey \/ w \in source[of[w]].calling
  PROVE  FedWell(w)'
<1>1. SeenBy(w)' = SeenBy(w)
  BY Zenon DEF SeenBy
<1> QED
  BY <1>1 DEF FedWell, IsKey

(* The entries of the log of a socket.                                       *)
LEMMA LogEntries ==
  ASSUME NEW x \in WireType
  PROVE  /\ x.log \in Seq(Entry) /\ Len(x.log) \in Nat
         /\ \A i \in 1..Len(x.log) : /\ x.log[i] \in Entry
                                     /\ x.log[i].frame \in Nat /\ x.log[i].units \in Nat
         /\ x.log # <<>> => Len(x.log) \in 1..Len(x.log)
<1>1. x.log \in Seq(Entry) /\ Len(x.log) \in Nat
  BY DEF WireType
<1>2. \A i \in 1..Len(x.log) : x.log[i] \in Entry
  BY <1>1
<1>3. \A e \in Entry : e.frame \in Nat /\ e.units \in Nat
  BY DeliveryAssumption DEF Entry
<1>4. x.log # <<>> => Len(x.log) \in 1..Len(x.log)
  BY <1>1
<1> QED
  BY <1>1, <1>2, <1>3, <1>4

(* The same of the MoQ sessions, which may skip frames but start at a key frame. *)
LEMMA CopySinksFed ==
  ASSUME Types, Registered, Placed, Fed, NEW s \in Sources, CopySinks(s)
  PROVE  Fed'
<1> SUFFICES ASSUME NEW w \in Wires, wire'[w].fd = "open" PROVE FedWell(w)'
  BY DEF Fed, FedWell
<1>1. bridge' = bridge /\ of' = of /\ wire' = wire
  BY CopySinksDoes
<1>2. w \in Consumers /\ of[w] \in Sources
  BY <1>1 DEF Types, Placed, Consumers
<1>3. /\ \A t \in Sources \ {s} : source'[t] = source[t] /\ sinks'[t] = sinks[t]
      /\ source'[s].made = source[s].made + 1 /\ source[s].calling = {}
      /\ source[s].made \in Nat
      /\ sinks'[s].all = sinks[s].all
      /\ sinks'[s].needKey = sinks[s].needKey \ source'[s].calling
      /\ source'[s].calling = IF IsKey(source[s].made + 1) THEN sinks[s].all
                              ELSE sinks[s].all \ sinks[s].needKey
  BY CopySinksDoes
<1>4. \A t \in Sources : w \in source'[t].calling => t = of[w]
  BY <1>1, <1>2, <1>3 DEF Fed, FedWell, Registered
<1>5. SeenBy(w)' = SeenBy(w) /\ SeenBy(w) \in Nat
  <2>1. wire[w] \in WireType
    BY DEF Types
  <2>2. SeenBy(w) \in Nat
    BY <2>1, LogEntries DEF SeenBy, Last
  <2> QED
    BY <1>1, <2>2, Zenon DEF SeenBy
<1>6. CASE of[w] # s
  BY <1>1, <1>2, <1>3, <1>4, <1>5, <1>6 DEF Fed, FedWell
<1>7. CASE of[w] = s
  BY <1>1, <1>2, <1>3, <1>4, <1>5, <1>7 DEF Fed, FedWell, Registered
<1> QED
  BY <1>6, <1>7

\* WholeFrames of one session.
WholeLog(x) ==
    /\ \A i \in 1..Len(x.log) :
          x.log[i].units + (IF i = Len(x.log) THEN x.pending ELSE 0) = FrameSize
    /\ x.log = <<>> => x.pending = 0

(* A part of what is missing fits. *)
LEMMA PartFits ==
  ASSUME NEW have \in Nat, NEW missing \in Nat, NEW size \in Nat, NEW part \in 0..missing,
         have + missing = size
  PROVE  have + part \in 0..size
  OBVIOUS

(* The socket takes no more than it is offered and has room for.             *)
LEMMA TakenFits ==
  ASSUME NEW x \in WireType, NEW size \in 0..FrameSize
  PROVE  /\ Taken(x, size) \in 0..size
         /\ x.full + Taken(x, size) \in 0..SocketRoom
<1>1. x.full \in 0..SocketRoom
  BY DEF WireType
<1> QED
  BY <1>1, DeliveryAssumption DEF Taken, Smaller

(* flushPending moves units from the pending tail to the last frame begun.   *)
LEMMA FlushedIsWhole ==
  ASSUME NEW x \in WireType, WholeLog(x)
  PROVE  LET y == Flushed(x) IN
         /\ y \in WireType /\ WholeLog(y)
         /\ y.at = x.at /\ y.fd = x.fd /\ y.alive = x.alive
         /\ x.log = <<>> => y.pending = 0 /\ y.full = x.full /\ y.log = <<>>
         /\ x.log # <<>> => y.log # <<>> /\ Last(y.log).frame = Last(x.log).frame
<1> DEFINE n == Taken(x, x.pending)
           k == Len(x.log)
           grown == Grow(x.log, n)
<1>1. /\ x.pending \in 0..FrameSize /\ x.full \in 0..SocketRoom
      /\ x.log \in Seq(Entry)
      /\ k \in Nat
  BY LogEntries DEF WireType
<1>2. n \in 0..x.pending /\ x.full + n \in 0..SocketRoom /\ x.pending - n \in 0..FrameSize
  <2>1. n \in 0..x.pending /\ x.full + n \in 0..SocketRoom
    BY <1>1, TakenFits
  <2> HIDE DEF n
  <2> QED
    BY <1>1, <2>1, DeliveryAssumption
<1> HIDE DEF n
<1>3. CASE x.log = <<>>
  <2>1. x.pending = 0 /\ n = 0 /\ grown = <<>>
    BY <1>1, <1>2, <1>3 DEF WholeLog, Grow
  <2>2. x.pending - n = 0 /\ x.full + n = x.full
    BY <1>1, <2>1
  <2>4. Flushed(x) = [x EXCEPT !.pending = x.pending - n, !.full = x.full + n, !.log = grown]
    BY DEF Flushed, n
  <2>3. Flushed(x) = x
    <3> HIDE DEF grown
    <3>1. Flushed(x) = [x EXCEPT !.pending = 0, !.full = x.full, !.log = <<>>]
      BY <2>1, <2>2, <2>4
    <3> QED
      BY <1>3, <2>1, <3>1 DEF WireType
  <2> QED
    BY <1>3, <2>1, <2>3
<1>4. CASE x.log # <<>>
  <2>1. k \in 1..k /\ k # 0
    BY <1>1, <1>4
  <2>2. x.log[k].units + x.pending = FrameSize /\ x.log[k].units + n \in 0..FrameSize
    <3>1. x.log[k].units \in Nat
      BY <2>1, LogEntries
    <3>2. x.log[k].units + x.pending = FrameSize
      BY <2>1 DEF WholeLog
    <3>3. FrameSize \in Nat /\ x.pending \in Nat /\ n \in 0..x.pending
      BY <1>1, <1>2, DeliveryAssumption
    <3>4. x.log[k].units + n \in 0..FrameSize
      <4> HIDE DEF k
      <4> QED
        BY ONLY <3>1, <3>2, <3>3, PartFits
    <3> QED
      BY <3>2, <3>4
  <2>3. grown = [x.log EXCEPT ![k] = [x.log[k] EXCEPT !.units = @ + n]]
    BY <1>4 DEF Grow
  <2>4. /\ grown \in Seq(Entry)
        /\ Len(grown) = k
        /\ \A i \in 1..k : i # k => grown[i] = x.log[i]
        /\ grown[k].frame = x.log[k].frame
        /\ grown[k].units = x.log[k].units + n
    <3>1. x.log[k] \in Entry
      BY <2>1, LogEntries
    <3>2. /\ [x.log[k] EXCEPT !.units = @ + n] \in Entry
          /\ [x.log[k] EXCEPT !.units = @ + n].frame = x.log[k].frame
          /\ [x.log[k] EXCEPT !.units = @ + n].units = x.log[k].units + n
      BY <2>2, <3>1 DEF Entry
    <3>3. Len(grown) = k /\ grown \in Seq(Entry)
      BY <1>1, <2>1, <2>3, <3>2
    <3> HIDE DEF grown
    <3>4. grown[k] = [x.log[k] EXCEPT !.units = @ + n] /\ \A i \in 1..k : i # k => grown[i] = x.log[i]
      BY <1>1, <2>1, <2>3
    <3> QED
      BY <3>2, <3>3, <3>4
  <2> HIDE DEF grown, k
  <2>5. Flushed(x) = [x EXCEPT !.pending = x.pending - n, !.full = x.full + n, !.log = grown]
    BY DEF Flushed, n, grown
  <2> DEFINE y == Flushed(x)
  <2>6. /\ y \in WireType /\ y.log = grown /\ y.pending = x.pending - n
        /\ y.at = x.at /\ y.fd = x.fd /\ y.alive = x.alive
    BY <1>1, <1>2, <2>4, <2>5 DEF WireType
  <2> HIDE DEF y
  <2>7. y.log # <<>>
    BY <2>1, <2>4, <2>6
  <2>8. WholeLog(y)
    <3>1. \A i \in 1..k : i # k => y.log[i].units + 0 = FrameSize
      <4>1. \A i \in 1..k : i # k => x.log[i].units + 0 = FrameSize
        BY DEF WholeLog, k
      <4> QED
        BY <2>4, <2>6, <4>1
    <3>2. y.log[k].units + y.pending = FrameSize
      <4>1. x.log[k].units \in Nat
        BY <2>1, LogEntries DEF k
      <4> QED
        <5>1. /\ y.log[k].units = x.log[k].units + n /\ y.pending = x.pending - n
              /\ n \in Nat /\ x.pending \in Nat
          BY <1>1, <1>2, <2>4, <2>6, DeliveryAssumption
        <5> QED
          BY <2>2, <4>1, <5>1, DeliveryAssumption
    <3> QED
      BY <2>4, <2>6, <2>7, <3>1, <3>2 DEF WholeLog
  <2>9. Last(y.log).frame = Last(x.log).frame
    BY <2>4, <2>6 DEF Last, k
  <2> QED
    BY <1>4, <2>6, <2>7, <2>8, <2>9 DEF y
<1> QED
  BY <1>3, <1>4

(* A frame begun on an empty tail leaves the frames before it complete.      *)
LEMMA BegunIsWhole ==
  ASSUME NEW x \in WireType, WholeLog(x), x.pending = 0, NEW f \in 1..MaxFrames
  PROVE  LET y == Begun(x, f) IN
         /\ y \in WireType /\ WholeLog(y)
         /\ y.at = x.at /\ y.fd = x.fd /\ y.alive = x.alive
         /\ y.log # <<>> /\ Last(y.log).frame = f
<1> DEFINE n == Taken(x, FrameSize)
           k == Len(x.log)
           log == Append(x.log, [frame |-> f, units |-> n])
<1>1. /\ x.full \in 0..SocketRoom
      /\ x.log \in Seq(Entry)
      /\ k \in Nat
  BY LogEntries DEF WireType
<1>2. n \in 0..FrameSize /\ x.full + n \in 0..SocketRoom /\ FrameSize - n \in 0..FrameSize
  <2>1. n \in 0..FrameSize /\ x.full + n \in 0..SocketRoom
    BY DeliveryAssumption, TakenFits
  <2> HIDE DEF n
  <2> QED
    BY <2>1, DeliveryAssumption
<1> HIDE DEF n
<1>3. /\ log \in Seq(Entry)
      /\ Len(log) = k + 1 /\ log # <<>>
      /\ \A i \in 1..k : log[i] = x.log[i]
      /\ log[k + 1] = [frame |-> f, units |-> n]
  <2>1. [frame |-> f, units |-> n] \in Entry
    BY <1>2 DEF Entry
  <2> QED
    BY <1>1, <2>1
<1> HIDE DEF log
<1>4. Begun(x, f) = [x EXCEPT !.pending = FrameSize - n, !.full = x.full + n, !.log = log]
  BY DEF Begun, n, log
<1> DEFINE y == Begun(x, f)
<1>5. /\ y \in WireType /\ y.log = log /\ y.pending = FrameSize - n
      /\ y.at = x.at /\ y.fd = x.fd /\ y.alive = x.alive
  BY <1>1, <1>2, <1>3, <1>4 DEF WireType
<1> HIDE DEF y
<1>6. WholeLog(y)
  <2>1. \A i \in 1..k : x.log[i].units + 0 = FrameSize
    <3> SUFFICES ASSUME NEW i \in 1..k PROVE x.log[i].units + 0 = FrameSize
      OBVIOUS
    <3> QED
      BY DEF WholeLog
  <2> HIDE DEF k
  <2>2. \A i \in 1..k : i # k + 1 /\ y.log[i].units + 0 = FrameSize
    BY <1>1, <1>3, <1>5, <2>1
  <2>3. y.log[k + 1].units + y.pending = FrameSize
    BY <1>2, <1>3, <1>5, DeliveryAssumption
  <2>4. \A i \in 1..(k + 1) : i = k + 1 \/ i \in 1..k
    BY <1>1
  <2> QED
    BY <1>3, <1>5, <2>2, <2>3, <2>4 DEF WholeLog
<1>7. Last(y.log).frame = f
  BY <1>3, <1>5 DEF Last
<1> QED
  BY <1>3, <1>5, <1>6, <1>7 DEF y

(* push() keeps the frames whole; it adds at most the new frame, and with an *)
(* empty log it either begins it or finds the peer gone.                     *)
LEMMA PushedIsWhole ==
  ASSUME NEW x \in WireType, WholeLog(x), NEW f \in 1..MaxFrames,
         x.log = <<>> => x.full = 0
  PROVE  LET y == Pushed(x, f) IN
         /\ y \in WireType /\ WholeLog(y)
         /\ y.at = x.at /\ y.fd = x.fd /\ (y.alive => x.alive)
         /\ y.log = <<>> => x.log = <<>> /\ y.full = 0 /\ ~y.alive
         /\ \/ x.log # <<>> /\ y.log # <<>> /\ Last(y.log).frame = Last(x.log).frame
            \/ y.log = x.log
            \/ y.log # <<>> /\ Last(y.log).frame = f
<1>1. CASE ~x.peer
  <2>1. Pushed(x, f) = [x EXCEPT !.alive = FALSE]
    BY <1>1 DEF Pushed
  <2>2. [x EXCEPT !.alive = FALSE] \in WireType
    BY DEF WireType
  <2> QED
    BY <2>1, <2>2 DEF WholeLog, WireType
<1>2. CASE x.peer
  <2> DEFINE y == Flushed(x)
  <2>1. /\ y \in WireType /\ WholeLog(y)
        /\ y.at = x.at /\ y.fd = x.fd /\ y.alive = x.alive
        /\ x.log = <<>> => y.pending = 0 /\ y.full = x.full /\ y.log = <<>>
        /\ x.log # <<>> => y.log # <<>> /\ Last(y.log).frame = Last(x.log).frame
    BY FlushedIsWhole
  <2> HIDE DEF y
  <2>2. CASE y.pending = 0 /\ y.full < SocketRoom
    <3>1. Pushed(x, f) = Begun(y, f)
      BY <1>2, <2>2 DEF Pushed, y
    <3>2. LET z == Begun(y, f) IN
          /\ z \in WireType /\ WholeLog(z)
          /\ z.at = y.at /\ z.fd = y.fd /\ z.alive = y.alive
          /\ z.log # <<>> /\ Last(z.log).frame = f
      BY <2>1, <2>2, BegunIsWhole
    <3> QED
      BY <2>1, <3>1, <3>2
  <2>3. CASE ~(y.pending = 0 /\ y.full < SocketRoom)
    <3>1. Pushed(x, f) = y
      BY <1>2, <2>3 DEF Pushed, y
    <3>2. x.log # <<>>
      BY <2>1, <2>3, DeliveryAssumption
    <3> QED
      BY <2>1, <3>1, <3>2
  <2> QED
    BY <2>2, <2>3
<1> QED
  BY <1>1, <1>2 DEF WireType

(* A session that starts to feed waits for a key frame.                      *)
LEMMA FeedFed ==
  ASSUME Types, Registered, Placed, Fed, NEW w \in Wires, Feed(w)
  PROVE  Fed'
<1> SUFFICES ASSUME NEW v \in Wires PROVE FedWell(v)'
  BY DEF Fed
<1>1. /\ wire' = [wire EXCEPT ![w] = [wire[w] EXCEPT !.at = "feeding"]]
      /\ wire[v] \in WireType /\ v \in Consumers
      /\ w \in Consumers /\ wire[w].at = "connected"
      /\ source' = source /\ of' = of
  BY DEF Feed, Types, Consumers
<1>2. /\ wire'[v].fd = wire[v].fd /\ wire'[v].alive = wire[v].alive
      /\ wire'[v].log = wire[v].log /\ wire'[v].full = wire[v].full
      /\ v # w => wire'[v].at = wire[v].at
  BY <1>1 DEF WireType, Types
<1>3. of[w] \in Sources /\ \A s \in Sources : w \notin source[s].calling
  BY <1>1 DEF Placed, Types
<1>4. sinks' = [sinks EXCEPT ![of[w]] = [all |-> sinks[of[w]].all \cup {w},
                                         needKey |-> sinks[of[w]].needKey \cup {w}]]
  BY DEF Feed, AddSink
<1>5. /\ \A s \in Sources : sinks'[s].all = IF s = of[w] THEN sinks[s].all \cup {w} ELSE sinks[s].all
      /\ \A s \in Sources : sinks'[s].needKey = IF s = of[w] THEN sinks[s].needKey \cup {w} ELSE sinks[s].needKey
  BY <1>3, <1>4 DEF Types, SinksType
<1>6. FedWell(v)
  BY DEF Fed
<1>7. wire[v].fd = "open" => of[v] \in Sources
  BY <1>1 DEF Placed, Types
<1>8. wire[v].fd = "open" =>
        /\ wire'[v].at = "feeding" => v \in sinks'[of[v]].all
        /\ v \in sinks'[of[v]].needKey => v \notin source[of[v]].calling
        /\ wire[v].alive /\ wire[v].log = <<>> /\ wire'[v].at = "feeding" =>
              v \in sinks'[of[v]].needKey \/ v \in source[of[v]].calling
  <2>1. CASE v = w
    BY <1>3, <1>5, <2>1
  <2>2. CASE v # w
    <3> SUFFICES ASSUME wire[v].fd = "open"
                 PROVE  /\ wire'[v].at = "feeding" => v \in sinks'[of[v]].all
                        /\ v \in sinks'[of[v]].needKey => v \notin source[of[v]].calling
                        /\ wire[v].alive /\ wire[v].log = <<>> /\ wire'[v].at = "feeding" =>
                              v \in sinks'[of[v]].needKey \/ v \in source[of[v]].calling
      OBVIOUS
    <3>1. /\ v \in sinks'[of[v]].all <=> v \in sinks[of[v]].all
          /\ v \in sinks'[of[v]].needKey <=> v \in sinks[of[v]].needKey
      BY <1>5, <1>7, <2>2
    <3> QED
      BY <1>2, <1>6, <2>2, <3>1 DEF FedWell
  <2> QED
    BY <2>1, <2>2
<1> QED
  BY <1>1, <1>2, <1>6, <1>8, FedStays

(* One that stops leaves the list of its source, not that of another.        *)
LEMMA StopFeedingFed ==
  ASSUME Types, Registered, Placed, Fed, NEW w \in Wires, StopFeeding(w)
  PROVE  Fed'
<1> SUFFICES ASSUME NEW v \in Wires PROVE FedWell(v)'
  BY DEF Fed
<1>1. /\ wire' = [wire EXCEPT ![w] = [wire[w] EXCEPT !.at = "stopping"]]
      /\ wire[v] \in WireType /\ v \in Consumers
      /\ w \in Consumers /\ wire[w].at = "feeding"
      /\ source' = source /\ of' = of
  BY DEF StopFeeding, Types, Consumers
<1>2. /\ wire'[v].fd = wire[v].fd /\ wire'[v].alive = wire[v].alive
      /\ wire'[v].log = wire[v].log /\ wire'[v].full = wire[v].full
      /\ wire'[v].at = IF v = w THEN "stopping" ELSE wire[v].at
  BY <1>1 DEF WireType, Types
<1>3. of[w] \in Sources
  BY <1>1 DEF Placed, Types
<1>4. sinks' = [sinks EXCEPT ![of[w]] = [all |-> sinks[of[w]].all \ {w},
                                         needKey |-> sinks[of[w]].needKey \ {w}]]
  BY DEF StopFeeding, RemoveSink
<1>5. /\ \A s \in Sources : sinks'[s].all = IF s = of[w] THEN sinks[s].all \ {w} ELSE sinks[s].all
      /\ \A s \in Sources : sinks'[s].needKey = IF s = of[w] THEN sinks[s].needKey \ {w} ELSE sinks[s].needKey
  BY <1>3, <1>4 DEF Types, SinksType
<1>6. FedWell(v)
  BY DEF Fed
<1>7. wire[v].fd = "open" => of[v] \in Sources
  BY <1>1 DEF Placed, Types
<1>8. wire[v].fd = "open" =>
        /\ wire'[v].at = "feeding" => v \in sinks'[of[v]].all
        /\ v \in sinks'[of[v]].needKey => v \notin source[of[v]].calling
        /\ wire[v].alive /\ wire[v].log = <<>> /\ wire'[v].at = "feeding" =>
              v \in sinks'[of[v]].needKey \/ v \in source[of[v]].calling
  BY <1>2, <1>3, <1>5, <1>6, <1>7 DEF FedWell
<1> QED
  BY <1>1, <1>2, <1>6, <1>8, FedStays

(* The peer only drains its socket or goes.                                  *)
LEMMA PeerFed ==
  ASSUME Types, Fed, NEW w \in Wires, PeerReads(w) \/ PeerCloses(w)
  PROVE  Fed'
<1> SUFFICES ASSUME NEW v \in Wires PROVE FedWell(v)'
  BY DEF Fed
<1>1. source' = source /\ of' = of /\ sinks' = sinks
  BY DEF PeerReads, PeerCloses
<1>2. /\ wire'[v].fd = wire[v].fd /\ wire'[v].alive = wire[v].alive /\ wire'[v].at = wire[v].at
      /\ wire'[v].log = wire[v].log /\ (wire[v].full = 0 => wire'[v].full = 0)
  <2>1. wire[v] \in WireType /\ wire[w] \in WireType /\ wire[w].full \in 0..SocketRoom
    BY DEF Types, WireType
  <2>2. CASE PeerCloses(w)
    <3>1. wire' = [wire EXCEPT ![w] = [wire[w] EXCEPT !.peer = FALSE]]
      BY <2>2 DEF PeerCloses
    <3> QED
      BY <2>1, <3>1 DEF WireType, Types
  <2>3. CASE PeerReads(w)
    <3>1. PICK n \in 1..wire[w].full :
             wire' = [wire EXCEPT ![w] = [wire[w] EXCEPT !.full = @ - n]]
      BY <2>3 DEF PeerReads
    <3>2. wire[w].full # 0
      BY <2>1, DeliveryAssumption
    <3> QED
      BY <2>1, <3>1, <3>2 DEF WireType, Types
  <2> QED
    BY <2>2, <2>3
<1>3. FedWell(v)
  BY DEF Fed
<1> QED
  BY <1>1, <1>2, <1>3, FedStays DEF FedWell

(* What a push to a MoQ session changes, whether it writes or not.           *)
LEMMA CallWireDoes ==
  ASSUME Types, Placed, Fed, WholeFrames, NEW s \in Sources, NEW w \in Wires, CallWire(s, w)
  PROVE  /\ source' = [source EXCEPT ![s] = [source[s] EXCEPT !.calling = @ \ {w}]]
         /\ sinks' = sinks /\ of' = of /\ bridge' = bridge /\ wild' = wild
         /\ w \in source[s].calling /\ source[s] \in SourceType
         /\ wire'[w] \in WireType /\ wire' = [wire EXCEPT ![w] = wire'[w]]
         /\ WholeLog(wire'[w])
         /\ wire'[w].at = wire[w].at /\ wire'[w].fd = wire[w].fd
         /\ wire'[w].alive => wire[w].alive
         /\ \/ wire'[w] = wire[w] /\ ~Writable(wire[w])
            \/ /\ wire[w].fd = "open" /\ wire[w].alive /\ s = of[w]
               /\ wire'[w].log = <<>> => wire[w].log = <<>> /\ wire'[w].full = 0 /\ ~wire'[w].alive
               /\ \/ SeenBy(w)' = SeenBy(w) /\ (wire[w].log = <<>> <=> wire'[w].log = <<>>)
                  \/ SeenBy(w)' = source[s].made /\ wire'[w].log # <<>>
<1>1. /\ wire[w] \in WireType /\ source[s] \in SourceType /\ WholeLog(wire[w])
      /\ w \in source[s].calling
  BY DEF Types, WholeFrames, WholeLog, CallWire
<1>2. CASE Writable(wire[w])
  <2>1. /\ wire[w].fd = "open" /\ wire[w].alive /\ s = of[w]
        /\ wire[w].log = <<>> => wire[w].full = 0
        /\ SeenBy(w) < source[s].made
    BY <1>1, <1>2 DEF Writable, Fed, FedWell
  <2>2. source[s].made \in 1..MaxFrames
    <3>1. SeenBy(w) \in Nat
      BY <1>1, LogEntries DEF SeenBy, Last
    <3> QED
      BY <1>1, <2>1, <3>1, DeliveryAssumption DEF SourceType
  <2> DEFINE y == Pushed(wire[w], source[s].made)
  <2>3. /\ y \in WireType /\ WholeLog(y)
        /\ y.at = wire[w].at /\ y.fd = wire[w].fd /\ (y.alive => wire[w].alive)
        /\ y.log = <<>> => wire[w].log = <<>> /\ y.full = 0 /\ ~y.alive
        /\ \/ wire[w].log # <<>> /\ y.log # <<>> /\ Last(y.log).frame = Last(wire[w].log).frame
           \/ y.log = wire[w].log
           \/ y.log # <<>> /\ Last(y.log).frame = source[s].made
    BY <1>1, <2>1, <2>2, PushedIsWhole
  <2> HIDE DEF y
  <2>4. wire' = [wire EXCEPT ![w] = y] /\ wire'[w] = y
    BY <1>2 DEF CallWire, Types, y
  <2>5. \/ SeenBy(w)' = SeenBy(w) /\ (wire[w].log = <<>> <=> wire'[w].log = <<>>)
        \/ SeenBy(w)' = source[s].made /\ wire'[w].log # <<>>
    <3>1. SeenBy(w)' = IF y.log = <<>> THEN 0 ELSE Last(y.log).frame
      BY <2>4 DEF SeenBy
    <3> QED
      BY <2>3, <2>4, <3>1 DEF SeenBy
  <2> QED
    BY <1>1, <2>1, <2>3, <2>4, <2>5 DEF CallWire, Called
<1>3. CASE ~Writable(wire[w])
  <2>1. wire' = wire /\ wire' = [wire EXCEPT ![w] = wire'[w]]
    BY <1>3 DEF CallWire, Types
  <2> QED
    BY <1>1, <1>3, <2>1 DEF CallWire, Called
<1> QED
  BY <1>2, <1>3

(* A session that is called takes the frame or drops it, and is not called twice. *)
LEMMA CallWireFed ==
  ASSUME Types, Registered, Placed, Fed, WholeFrames, NEW s \in Sources, NEW w \in Wires, CallWire(s, w)
  PROVE  Fed'
<1> SUFFICES ASSUME NEW v \in Wires, wire'[v].fd = "open" PROVE FedWell(v)'
  BY DEF Fed, FedWell
<1> DEFINE x == wire'[w]
<1>1. /\ source' = [source EXCEPT ![s] = [source[s] EXCEPT !.calling = @ \ {w}]]
      /\ sinks' = sinks /\ of' = of
      /\ source[s] \in SourceType /\ wire' = [wire EXCEPT ![w] = x]
      /\ w \in source[s].calling
      /\ x.at = wire[w].at /\ x.fd = wire[w].fd /\ (x.alive => wire[w].alive)
      /\ \/ x = wire[w] /\ ~Writable(wire[w])
         \/ /\ wire[w].fd = "open" /\ wire[w].alive /\ s = of[w]
            /\ x.log = <<>> => wire[w].log = <<>> /\ x.full = 0 /\ ~x.alive
            /\ \/ SeenBy(w)' = SeenBy(w) /\ (wire[w].log = <<>> <=> x.log = <<>>)
               \/ SeenBy(w)' = source[s].made /\ x.log # <<>>
  BY CallWireDoes
<1> HIDE DEF x
<1>2. /\ \A t \in Sources : source'[t].made = source[t].made
      /\ \A t \in Sources : source'[t].calling = IF t = s THEN source[t].calling \ {w} ELSE source[t].calling
  BY <1>1 DEF Types, SourceType
<1>3. \A t \in Sources : source[t].made \in Nat
  BY DeliveryAssumption DEF Types, SourceType
<1>4. FedWell(v)
  BY DEF Fed
<1>5. CASE v # w
  <2>1. wire'[v] = wire[v]
    BY <1>1, <1>5 DEF Types
  <2>2. SeenBy(v)' = SeenBy(v)
    BY <2>1, Zenon DEF SeenBy
  <2>3. of[v] \in Sources /\ of'[v] = of[v]
    BY <1>1, <2>1 DEF Placed, Types, Consumers
  <2>4. v \in source'[of[v]].calling <=> v \in source[of[v]].calling
    BY <1>2, <1>5, <2>3
  <2> QED
    BY <1>1, <1>2, <1>4, <1>5, <2>1, <2>2, <2>3, <2>4 DEF FedWell
<1>6. CASE v = w
  <2>1. wire'[w] = x /\ wire[w].fd = "open"
    BY <1>1, <1>6 DEF Types
  <2>2. of[w] \in Sources /\ of'[w] = of[w] /\ s = of[w]
    BY <1>1, <1>4, <1>6, <2>1 DEF Placed, Types, Consumers, FedWell
  <2>3. w \notin source'[of[w]].calling /\ \A t \in Sources : w \notin source'[t].calling
    BY <1>2, <1>4, <1>6, <2>1, <2>2 DEF FedWell
  <2>4. CASE x = wire[w] /\ ~Writable(wire[w])
    <3>1. SeenBy(w)' = SeenBy(w) /\ ~wire[w].alive
      BY <2>1, <2>4, Zenon DEF SeenBy, Writable
    <3> QED
      BY <1>1, <1>2, <1>4, <1>6, <2>1, <2>2, <2>3, <2>4, <3>1 DEF FedWell
  <2>5. CASE ~(x = wire[w] /\ ~Writable(wire[w]))
    <3>1. SeenBy(w)' <= source[s].made
      BY <1>1, <1>3, <1>4, <1>6, <2>1, <2>2, <2>5 DEF FedWell
    <3> QED
      BY <1>1, <1>2, <1>3, <1>4, <1>6, <2>1, <2>2, <2>3, <2>5, <3>1 DEF FedWell
  <2> QED
    BY <2>4, <2>5
<1> QED
  BY <1>5, <1>6

-----------------------------------------------------------------------------
(* Each action keeps the invariant.                                          *)

(* start() of the camera.                                                    *)
LEMMA StartCameraKeeps ==
  ASSUME IInv, StartCamera
  PROVE  IInv'
<1> USE DEF IInv, Types
<1>1. Types'
  <2>1. source["camera"] \in SourceType
    BY DEF Sources
  <2>2. \A t \in {"up", "down"} : [source["camera"] EXCEPT !.state = t] \in SourceType
    BY <2>1 DEF SourceType
  <2> QED
    BY <2>2 DEF StartCamera
<1>2. Running'
  BY DEF StartCamera, Running
<1>3. Registered'
  BY DEF StartCamera, Registered
<1>4. Placed'
  BY DEF StartCamera, Placed
<1>5. Delivered'
  BY DEF StartCamera, Delivered
<1>6. Fed'
  BY DEF StartCamera, Fed, FedWell, SeenBy
<1>7. WholeFrames'
  BY DEF StartCamera, WholeFrames
<1> QED
  BY <1>1, <1>2, <1>3, <1>4, <1>5, <1>6, <1>7

(* start() of the transcoder.                                                *)
LEMMA StartTranscoderKeeps ==
  ASSUME IInv, StartTranscoder
  PROVE  IInv'
<1> USE DEF IInv, Types
<1>1. Types'
  <2>1. source["transcoded"] \in SourceType /\ bridge[Coder] \in BridgeType /\ Coder \in Consumers
    BY DeliveryAssumption DEF Sources, Consumers
  <2>2. /\ [source["transcoded"] EXCEPT !.state = "up"] \in SourceType
        /\ [bridge[Coder] EXCEPT !.at = "enabled"] \in BridgeType
    BY <2>1 DEF SourceType, BridgeType
  <2> QED
    BY <2>1, <2>2 DEF StartTranscoder, Sources
<1>2. Running'
  BY DEF StartTranscoder, Running, Sources
<1>3. Registered'
  <2>1. /\ \A c \in Consumers : of[c] # "none" => of'[c] = of[c]
        /\ \A b \in Bridges : bridge[b].at # "new" => bridge'[b] = bridge[b]
        /\ sinks' = sinks /\ wire' = wire
    <3>1. bridge[Coder].at = "new" /\ of[Coder] = "none" /\ Coder \in Bridges
      BY DeliveryAssumption DEF StartTranscoder, Running, Placed
    <3> QED
      BY <3>1 DEF StartTranscoder
  <2> QED
    BY <2>1 DEF Registered, Sources, SinksType
<1>4. Placed'
  <2>1. bridge[Coder].at = "new" /\ Coder \in Bridges /\ Coder \notin Wires /\ Coder \in Consumers
    BY DeliveryAssumption DEF StartTranscoder, Running, Consumers
  <2>2. /\ bridge' = [bridge EXCEPT ![Coder] = [bridge[Coder] EXCEPT !.at = "enabled"]]
        /\ of' = [of EXCEPT ![Coder] = "camera"]
        /\ \A s \in Sources : source'[s].calling = source[s].calling
        /\ wire' = wire
    BY DEF StartTranscoder
  <2> QED
    BY <2>1, <2>2 DEF Placed
<1>5. Delivered'
  BY DEF StartTranscoder, Delivered
<1>6. Fed'
  BY DeliveryAssumption DEF StartTranscoder, Fed, FedWell, SeenBy
<1>7. WholeFrames'
  BY DEF StartTranscoder, WholeFrames
<1> QED
  BY <1>1, <1>2, <1>3, <1>4, <1>5, <1>6, <1>7

(* A transcoder that does not come up.                                       *)
LEMMA TranscoderFailsKeeps ==
  ASSUME IInv, TranscoderFails
  PROVE  IInv'
<1> USE DEF IInv, Types
<1>1. Types'
  <2>1. source["transcoded"] \in SourceType
    BY DEF Sources
  <2>2. [source["transcoded"] EXCEPT !.state = "down"] \in SourceType
    BY <2>1 DEF SourceType
  <2> QED
    BY <2>2 DEF TranscoderFails
<1>2. Running'
  BY DEF TranscoderFails, Running
<1>3. Registered'
  BY DEF TranscoderFails, Registered
<1>4. Placed'
  BY DEF TranscoderFails, Placed
<1>5. Delivered'
  BY DEF TranscoderFails, Delivered
<1>6. Fed'
  BY DEF TranscoderFails, Fed, FedWell, SeenBy
<1>7. WholeFrames'
  BY DEF TranscoderFails, WholeFrames
<1> QED
  BY <1>1, <1>2, <1>3, <1>4, <1>5, <1>6, <1>7

(* deliver(), the locked part.                                               *)
LEMMA CopySinksKeeps ==
  ASSUME IInv, NEW s \in Sources, CopySinks(s)
  PROVE  IInv'
<1> USE DEF IInv, Types
<1>1. Types'
  <2> DEFINE called == Gate(s, source[s].made + 1)
  <2>1. source[s] \in SourceType /\ sinks[s] \in SinksType /\ called \subseteq Consumers
    BY GateIsOfSinks DEF Types
  <2>2. source[s].made + 1 \in 0..MaxFrames
    BY <2>1, DeliveryAssumption DEF CopySinks, MayMake, SourceType
  <2>3. /\ [source[s] EXCEPT !.made = source[s].made + 1, !.calling = called] \in SourceType
        /\ [sinks[s] EXCEPT !.needKey = @ \ called] \in SinksType
    BY <2>1, <2>2 DEF SourceType, SinksType
  <2> QED
    BY <2>3 DEF CopySinks
<1>2. Running'
  <2> DEFINE called == Gate(s, source[s].made + 1)
  <2>1. /\ source' = [source EXCEPT ![s] = [source[s] EXCEPT !.made = @ + 1, !.calling = called]]
        /\ source[s].state = "up" /\ source[s] \in SourceType
        /\ of' = of /\ bridge' = bridge
    BY DEF CopySinks, MayMake
  <2> HIDE DEF called
  <2>2. \A t \in Sources : source'[t].state = source[t].state
    BY <2>1
  <2> QED
    BY <2>1, <2>2 DEF Running
<1>3. Registered'
  BY DEF CopySinks, Registered
<1>4. Placed'
  <2>1. /\ \A t \in Sources : source'[t].calling \subseteq source[t].calling \cup sinks[t].all
        /\ of' = of /\ bridge' = bridge /\ wire' = wire
    <3>1. Gate(s, source[s].made + 1) \subseteq sinks[s].all
      BY GateIsOfSinks
    <3>2. \A t \in Sources : source'[t].calling =
             IF t = s THEN Gate(s, source[s].made + 1) ELSE source[t].calling
      BY DEF CopySinks
    <3> QED
      BY <3>1, <3>2 DEF CopySinks
  <2> QED
    BY <2>1 DEF Placed, Registered
<1>5. Delivered'
  BY CopySinksDelivered
<1>6. Fed'
  BY CopySinksFed
<1>7. WholeFrames'
  BY DEF CopySinks, WholeFrames
<1> QED
  BY <1>1, <1>2, <1>3, <1>4, <1>5, <1>6, <1>7

(* stop() of a source nobody holds.                                          *)
LEMMA StopSourceKeeps ==
  ASSUME IInv, NEW s \in Sources, StopSource(s)
  PROVE  IInv'
<1> USE DEF IInv, Types
<1>1. Types'
  <2>1. source[s] \in SourceType
    OBVIOUS
  <2>2. [source[s] EXCEPT !.state = "down"] \in SourceType
    BY <2>1 DEF SourceType
  <2> QED
    BY <2>2 DEF StopSource
<1>2. Running'
  BY DEF StopSource, Holders, Joined, Running
<1>3. Registered'
  BY DEF StopSource, Holders, Joined, Registered
<1>4. Placed'
  BY DEF StopSource, Holders, Joined, Placed
<1>5. Delivered'
  BY DEF StopSource, Holders, Joined, Delivered
<1>6. Fed'
  BY DEF StopSource, Holders, Joined, Fed, FedWell, SeenBy
<1>7. WholeFrames'
  BY DEF StopSource, Holders, Joined, WholeFrames
<1> QED
  BY <1>1, <1>2, <1>3, <1>4, <1>5, <1>6, <1>7

(* attach(), first half.                                                     *)
LEMMA EnableKeeps ==
  ASSUME IInv, NEW b \in Bridges, Enable(b)
  PROVE  IInv'
<1> USE DEF IInv, Types
<1>1. Types'
  <2>1. bridge[b] \in BridgeType
    OBVIOUS
  <2>2. [bridge[b] EXCEPT !.at = "enabled"] \in BridgeType
    BY <2>1 DEF BridgeType
  <2> QED
    BY <2>2 DEF Enable
<1>2. Running'
  BY DEF Enable, Running
<1>3. Registered'
  BY DEF Enable, Registered
<1>4. Placed'
  BY DeliveryAssumption DEF Enable, Placed, Sources, Consumers
<1>5. Delivered'
  BY DEF Enable, Delivered
<1>6. Fed'
  BY DEF Enable, Fed, FedWell, SeenBy, Placed
<1>7. WholeFrames'
  BY DEF Enable, WholeFrames
<1> QED
  BY <1>1, <1>2, <1>3, <1>4, <1>5, <1>6, <1>7

(* attach(), second half: the sink waits for a key frame.                    *)
LEMMA AttachKeeps ==
  ASSUME IInv, NEW b \in Bridges, Attach(b)
  PROVE  IInv'
<1> USE DEF IInv, Types
<1>1. Types'
  BY DEF Attach, AddSink, Consumers, SinksType, BridgeType
<1>2. Running'
  BY DEF Attach, AddSink, Running
<1>3. Registered'
  BY DeliveryAssumption DEF Attach, AddSink, Registered
<1>4. Placed'
  BY DEF Attach, AddSink, Placed
<1>5. Delivered'
  BY DEF Attach, AddSink, Delivered, Placed, Consumers
<1>6. Fed'
  BY DEF Attach, AddSink, Fed, FedWell, SeenBy, Placed
<1>7. WholeFrames'
  BY DEF Attach, AddSink, WholeFrames
<1> QED
  BY <1>1, <1>2, <1>3, <1>4, <1>5, <1>6, <1>7

(* detach(), the flag.                                                       *)
LEMMA LowerFlagKeeps ==
  ASSUME IInv, NEW b \in Bridges, LowerFlag(b)
  PROVE  IInv'
<1> USE DEF IInv, Types
<1>1. Types'
  BY DEF LowerFlag, BridgeType
<1>2. Running'
  BY DEF LowerFlag, Running
<1>3. Registered'
  BY DEF LowerFlag, Registered
<1>4. Placed'
  BY DEF LowerFlag, Placed
<1>5. Delivered'
  BY DEF LowerFlag, Delivered
<1>6. Fed'
  BY DEF LowerFlag, Fed, FedWell, SeenBy
<1>7. WholeFrames'
  BY DEF LowerFlag, WholeFrames
<1> QED
  BY <1>1, <1>2, <1>3, <1>4, <1>5, <1>6, <1>7

(* detach(), the sink.                                                       *)
LEMMA UnhookKeeps ==
  ASSUME IInv, NEW b \in Bridges, Unhook(b)
  PROVE  IInv'
<1> USE DEF IInv, Types
<1>1. Types'
  BY DEF Unhook, RemoveSink, SinksType, BridgeType
<1>2. Running'
  BY DEF Unhook, RemoveSink, Running
<1>3. Registered'
  BY DEF Unhook, RemoveSink, Registered
<1>4. Placed'
  BY DEF Unhook, RemoveSink, Placed
<1>5. Delivered'
  BY DEF Unhook, RemoveSink, Delivered
<1>6. Fed'
  BY DeliveryAssumption DEF Unhook, RemoveSink, Fed, FedWell, SeenBy
<1>7. WholeFrames'
  BY DEF Unhook, RemoveSink, WholeFrames
<1> QED
  BY <1>1, <1>2, <1>3, <1>4, <1>5, <1>6, <1>7

(* The owner frees the bridge.                                               *)
LEMMA FreeKeeps ==
  ASSUME IInv, NEW b \in Bridges, Free(b)
  PROVE  IInv'
<1> USE DEF IInv, Types
<1>1. Types'
  BY DEF Free, BridgeType
<1>2. Running'
  BY DEF Free, Running
<1>3. Registered'
  BY DEF Free, Registered
<1>4. Placed'
  BY DeliveryAssumption DEF Free, Placed, Consumers
<1>5. Delivered'
  BY DEF Free, Delivered
<1>6. Fed'
  BY DeliveryAssumption DEF Free, Fed, FedWell, SeenBy
<1>7. WholeFrames'
  BY DEF Free, WholeFrames
<1> QED
  BY <1>1, <1>2, <1>3, <1>4, <1>5, <1>6, <1>7

(* A frame reaches a bridge.                                                 *)
LEMMA CallBridgeKeeps ==
  ASSUME IInv, NEW s \in Sources, NEW b \in Bridges, CallBridge(s, b)
  PROVE  IInv'
<1> USE DEF IInv, Types
<1>1. Types'
  <2>1. source[s] \in SourceType
    OBVIOUS
  <2>2. [source[s] EXCEPT !.calling = @ \ {b}] \in SourceType
    BY <2>1 DEF SourceType
  <2>3. bridge[b] \in BridgeType
    OBVIOUS
  <2>4. [bridge[b] EXCEPT !.seen = IF Enabled(b) THEN source[s].made ELSE @] \in BridgeType
    BY <2>1, <2>3 DEF SourceType, BridgeType
  <2> QED
    BY <2>2, <2>4 DEF CallBridge, Called
<1>2. Running'
  BY DEF CallBridge, Called, Enabled, Running
<1>3. Registered'
  BY DEF CallBridge, Called, Enabled, Registered
<1>4. Placed'
  BY DEF CallBridge, Called, Enabled, Placed
<1>5. Delivered'
  BY DEF CallBridge, Called, Enabled, Delivered, BridgeType
<1>6. Fed'
  BY DeliveryAssumption DEF CallBridge, Called, Enabled, Fed, FedWell, SeenBy
<1>7. WholeFrames'
  BY DEF CallBridge, Called, Enabled, WholeFrames
<1> QED
  BY <1>1, <1>2, <1>3, <1>4, <1>5, <1>6, <1>7

(* A frame is pushed to a bridge that is gone.                               *)
LEMMA CallFreedBridgeKeeps ==
  ASSUME IInv, NEW s \in Sources, NEW b \in Bridges, CallFreedBridge(s, b)
  PROVE  IInv'
<1> USE DEF IInv, Types
<1>1. Types'
  <2>1. source[s] \in SourceType
    OBVIOUS
  <2>2. [source[s] EXCEPT !.calling = @ \ {b}] \in SourceType
    BY <2>1 DEF SourceType
  <2> QED
    BY <2>2 DEF CallFreedBridge, Called
<1>2. Running'
  BY DEF CallFreedBridge, Called, Running
<1>3. Registered'
  BY DEF CallFreedBridge, Called, Registered
<1>4. Placed'
  BY DEF CallFreedBridge, Called, Placed
<1>5. Delivered'
  BY DEF CallFreedBridge, Called, Delivered
<1>6. Fed'
  BY DEF CallFreedBridge, Called, Fed, FedWell, SeenBy, Registered
<1>7. WholeFrames'
  BY DEF CallFreedBridge, Called, WholeFrames
<1> QED
  BY <1>1, <1>2, <1>3, <1>4, <1>5, <1>6, <1>7

(* connect() of a MoQ session.                                               *)
LEMMA ConnectKeeps ==
  ASSUME IInv, NEW w \in Wires, Connect(w)
  PROVE  IInv'
<1> USE DEF IInv, Types
<1>1. Types'
  <2>1. wire[w] \in WireType
    OBVIOUS
  <2>2. [wire[w] EXCEPT !.at = "connected", !.fd = "open", !.alive = TRUE] \in WireType
    BY <2>1 DEF WireType
  <2> QED
    BY <2>2 DEF Connect
<1>2. Running'
  BY DEF Connect, Running
<1>3. Registered'
  BY DEF Connect, Registered
<1>4. Placed'
  BY DeliveryAssumption DEF Connect, Placed, Sources, Consumers
<1>5. Delivered'
  BY DEF Connect, Delivered, Placed
<1>6. Fed'
  BY DEF Connect, Fed, FedWell, SeenBy, Placed, Consumers, SourceType
<1>7. WholeFrames'
  <2>1. \A v \in Wires : wire'[v].log = wire[v].log /\ wire'[v].pending = wire[v].pending
    BY DEF Connect
  <2> QED
    BY <2>1 DEF WholeFrames
<1> QED
  BY <1>1, <1>2, <1>3, <1>4, <1>5, <1>6, <1>7

(* It registers its sink.                                                    *)
LEMMA FeedKeeps ==
  ASSUME IInv, NEW w \in Wires, Feed(w)
  PROVE  IInv'
<1> USE DEF IInv, Types
<1>1. Types'
  <2>1. wire[w] \in WireType /\ w \in Consumers
    BY DEF Consumers
  <2>2. [wire[w] EXCEPT !.at = "feeding"] \in WireType
    BY <2>1 DEF WireType
  <2>3. ASSUME NEW s \in Sources
        PROVE  [all |-> sinks[s].all \cup {w}, needKey |-> sinks[s].needKey \cup {w}] \in SinksType
    BY <2>1 DEF SinksType
  <2> QED
    BY <2>2, <2>3 DEF Feed, AddSink
<1>2. Running'
  BY DEF Feed, AddSink, Running
<1>3. Registered'
  BY DeliveryAssumption DEF Feed, AddSink, Registered
<1>4. Placed'
  BY DEF Feed, AddSink, Placed
<1>5. Delivered'
  BY DEF Feed, AddSink, Delivered, Registered
<1>6. Fed'
  BY FeedFed
<1>7. WholeFrames'
  BY DEF Feed, AddSink, WholeFrames
<1> QED
  BY <1>1, <1>2, <1>3, <1>4, <1>5, <1>6, <1>7

(* stop() removes the sink.                                                  *)
LEMMA StopFeedingKeeps ==
  ASSUME IInv, NEW w \in Wires, StopFeeding(w)
  PROVE  IInv'
<1> USE DEF IInv, Types
<1>1. Types'
  <2>1. wire[w] \in WireType
    OBVIOUS
  <2>2. [wire[w] EXCEPT !.at = "stopping"] \in WireType
    BY <2>1 DEF WireType
  <2>3. ASSUME NEW s \in Sources
        PROVE  [all |-> sinks[s].all \ {w}, needKey |-> sinks[s].needKey \ {w}] \in SinksType
    BY DEF SinksType
  <2> QED
    BY <2>2, <2>3 DEF StopFeeding, RemoveSink
<1>2. Running'
  BY DEF StopFeeding, RemoveSink, Running
<1>3. Registered'
  BY DEF StopFeeding, RemoveSink, Registered
<1>4. Placed'
  BY DEF StopFeeding, RemoveSink, Placed
<1>5. Delivered'
  BY DeliveryAssumption DEF StopFeeding, RemoveSink, Delivered
<1>6. Fed'
  BY StopFeedingFed
<1>7. WholeFrames'
  BY DEF StopFeeding, RemoveSink, WholeFrames
<1> QED
  BY <1>1, <1>2, <1>3, <1>4, <1>5, <1>6, <1>7

(* stop() closes the descriptor.                                             *)
LEMMA CloseWireKeeps ==
  ASSUME IInv, NEW w \in Wires, CloseWire(w)
  PROVE  IInv'
<1> USE DEF IInv, Types
<1>1. Types'
  <2>1. wire[w] \in WireType
    OBVIOUS
  <2>2. [wire[w] EXCEPT !.at = "closed", !.fd = "closed", !.alive = FALSE] \in WireType
    BY <2>1 DEF WireType
  <2> QED
    BY <2>2 DEF CloseWire
<1>2. Running'
  BY DEF CloseWire, Running
<1>3. Registered'
  BY DEF CloseWire, Registered
<1>4. Placed'
  BY DeliveryAssumption DEF CloseWire, Placed, Consumers
<1>5. Delivered'
  BY DEF CloseWire, Delivered, Registered
<1>6. Fed'
  BY DEF CloseWire, Fed, FedWell, SeenBy
<1>7. WholeFrames'
  <2>1. \A v \in Wires : wire'[v].log = wire[v].log /\ wire'[v].pending = wire[v].pending
    BY DEF CloseWire
  <2> QED
    BY <2>1 DEF WholeFrames
<1> QED
  BY <1>1, <1>2, <1>3, <1>4, <1>5, <1>6, <1>7

(* The peer reads.                                                           *)
LEMMA PeerReadsKeeps ==
  ASSUME IInv, NEW w \in Wires, PeerReads(w)
  PROVE  IInv'
<1> USE DEF IInv, Types
<1>1. Types'
  <2>1. wire[w] \in WireType
    OBVIOUS
  <2>2. ASSUME NEW n \in 1..wire[w].full PROVE [wire[w] EXCEPT !.full = @ - n] \in WireType
    <3>1. wire[w].full \in 0..SocketRoom /\ wire[w].full - n \in 0..SocketRoom
      BY <2>1, DeliveryAssumption DEF WireType
    <3> QED
      BY <2>1, <3>1 DEF WireType
  <2> QED
    BY <2>2 DEF PeerReads
<1>2. Running'
  BY DEF PeerReads, Running
<1>3. Registered'
  BY DEF PeerReads, Registered
<1>4. Placed'
  BY DEF PeerReads, Placed
<1>5. Delivered'
  BY DEF PeerReads, Delivered
<1>6. Fed'
  BY PeerFed
<1>7. WholeFrames'
  <2>1. \A v \in Wires : wire'[v].log = wire[v].log /\ wire'[v].pending = wire[v].pending
    BY DEF PeerReads
  <2> QED
    BY <2>1 DEF WholeFrames
<1> QED
  BY <1>1, <1>2, <1>3, <1>4, <1>5, <1>6, <1>7

(* The peer goes.                                                            *)
LEMMA PeerClosesKeeps ==
  ASSUME IInv, NEW w \in Wires, PeerCloses(w)
  PROVE  IInv'
<1> USE DEF IInv, Types
<1>1. Types'
  <2>1. wire[w] \in WireType
    OBVIOUS
  <2>2. [wire[w] EXCEPT !.peer = FALSE] \in WireType
    BY <2>1 DEF WireType
  <2> QED
    BY <2>2 DEF PeerCloses
<1>2. Running'
  BY DEF PeerCloses, Running
<1>3. Registered'
  BY DEF PeerCloses, Registered
<1>4. Placed'
  BY DEF PeerCloses, Placed
<1>5. Delivered'
  BY DEF PeerCloses, Delivered
<1>6. Fed'
  BY PeerFed
<1>7. WholeFrames'
  <2>1. \A v \in Wires : wire'[v].log = wire[v].log /\ wire'[v].pending = wire[v].pending
    BY DEF PeerCloses
  <2> QED
    BY <2>1 DEF WholeFrames
<1> QED
  BY <1>1, <1>2, <1>3, <1>4, <1>5, <1>6, <1>7

(* A frame reaches a MoQ session.                                            *)
LEMMA CallWireKeeps ==
  ASSUME IInv, NEW s \in Sources, NEW w \in Wires, CallWire(s, w)
  PROVE  IInv'
<1> USE DEF IInv, Types
<1>1. Types'
  <2>1. source[s] \in SourceType /\ wire'[w] \in WireType
    BY CallWireDoes
  <2>2. [source[s] EXCEPT !.calling = @ \ {w}] \in SourceType
    BY <2>1 DEF SourceType
  <2>3. /\ source' = [source EXCEPT ![s] = [source[s] EXCEPT !.calling = @ \ {w}]]
        /\ wire' = [wire EXCEPT ![w] = wire'[w]]
        /\ sinks' = sinks /\ of' = of /\ bridge' = bridge /\ wild' = wild
    BY CallWireDoes
  <2> QED
    BY <2>1, <2>2, <2>3
<1>2. Running'
  <2>1. /\ \A t \in Sources : source'[t].state = source[t].state /\ source'[t].calling \subseteq source[t].calling
        /\ of' = of /\ bridge' = bridge
    <3>1. /\ source' = [source EXCEPT ![s] = [source[s] EXCEPT !.calling = @ \ {w}]]
          /\ of' = of /\ bridge' = bridge /\ source[s] \in SourceType
      BY CallWireDoes
    <3> QED
      BY <3>1
  <2> QED
    BY <2>1 DEF Running, Sources
<1>3. Registered'
  <2>1. /\ sinks' = sinks /\ of' = of /\ bridge' = bridge
        /\ \A v \in Wires : wire'[v].at = wire[v].at
    BY CallWireDoes
  <2> QED
    BY <2>1 DEF Registered
<1>4. Placed'
  <2>1. /\ \A t \in Sources : source'[t].calling \subseteq source[t].calling
        /\ of' = of /\ bridge' = bridge
    BY CallWireDoes DEF SourceType
  <2>2. ASSUME NEW v \in Wires
        PROVE  wire'[v].at = wire[v].at /\ wire'[v].fd = wire[v].fd
    BY CallWireDoes
  <2>3. ASSUME NEW v \in Wires, wire[v].at \in {"new", "connected"}
        PROVE  wire'[v].log = wire[v].log /\ wire'[v].full = wire[v].full
    <3>1. v # w
      BY <2>3, CallWireDoes DEF Placed
    <3> QED
      BY <3>1, CallWireDoes
  <2> QED
    BY <2>1, <2>2, <2>3 DEF Placed
<1>5. Delivered'
  <2>1. /\ \A t \in Sources : source'[t].made = source[t].made
        /\ \A t \in Sources : source'[t].calling = IF t = s THEN source[t].calling \ {w} ELSE source[t].calling
        /\ of' = of /\ bridge' = bridge /\ sinks' = sinks
    <3>1. /\ source' = [source EXCEPT ![s] = [source[s] EXCEPT !.calling = @ \ {w}]]
          /\ of' = of /\ bridge' = bridge /\ sinks' = sinks /\ source[s] \in SourceType
      BY CallWireDoes
    <3> QED
      BY <3>1 DEF SourceType
  <2>2. \A b \in Bridges : b # w /\ (bridge[b].at = "attached" => of[b] \in Sources)
    BY DeliveryAssumption DEF Placed, Consumers
  <2>3. \A b \in Bridges, t \in Sources : b \in source'[t].calling <=> b \in source[t].calling
    BY <2>1, <2>2
  <2> QED
    BY <2>1, <2>2, <2>3 DEF Delivered
<1>6. Fed'
  BY CallWireFed
<1>7. WholeFrames'
  <2>1. WholeLog(wire'[w]) /\ \A v \in Wires : v # w => wire'[v] = wire[v]
    BY CallWireDoes
  <2> QED
    BY <2>1 DEF WholeFrames, WholeLog
<1> QED
  BY <1>1, <1>2, <1>3, <1>4, <1>5, <1>6, <1>7

(* The invariant holds before anything is started.                           *)
LEMMA InitIInv == Init => IInv
<1> SUFFICES ASSUME Init PROVE IInv
  OBVIOUS
<1>1. Types
  <2>1. /\ 0 \in 0..MaxFrames /\ 0 \in 0..FrameSize /\ 0 \in 0..SocketRoom
        /\ <<>> \in Seq(Entry)
    BY DeliveryAssumption
  <2>2. /\ [state |-> "new", made |-> 0, calling |-> {}] \in SourceType
        /\ [all |-> {}, needKey |-> {}] \in SinksType
        /\ [at |-> "new", seen |-> 0] \in BridgeType
        /\ Unconnected \in WireType
    BY <2>1 DEF SourceType, SinksType, BridgeType, WireType, Unconnected
  <2> QED
    BY <2>2 DEF Init, Types
<1>2. Running /\ Registered /\ Placed /\ Delivered /\ WholeFrames
  BY DeliveryAssumption DEF Init, Running, Registered, Placed, Delivered, WholeFrames,
     Unconnected, Sources, Consumers
<1>3. Fed
  BY DEF Init, Fed, FedWell, Unconnected
<1> QED
  BY <1>1, <1>2, <1>3 DEF IInv

(* A step that changes nothing keeps it.                                     *)
LEMMA StutterKeeps == ASSUME IInv, UNCHANGED vars PROVE IInv'
<1>1. /\ source' = source /\ sinks' = sinks /\ of' = of /\ bridge' = bridge
      /\ wire' = wire /\ wild' = wild
  BY DEF vars
<1>2. \A w \in Wires : SeenBy(w)' = SeenBy(w)
  BY <1>1, Zenon DEF SeenBy
<1>3. Types' /\ Running' /\ Registered' /\ Placed' /\ Delivered' /\ WholeFrames'
  BY <1>1 DEF IInv, Types, Running, Registered, Placed, Delivered, WholeFrames, IsKey
<1>4. Fed'
  BY <1>1, <1>2 DEF IInv, Fed, FedWell, IsKey
<1> QED
  BY <1>3, <1>4 DEF IInv

(* Every step keeps it.                                                      *)
LEMMA NextKeeps == IInv /\ [Next]_vars => IInv'
<1> SUFFICES ASSUME IInv, [Next]_vars PROVE IInv'
  OBVIOUS
<1>1. CASE StartCamera \/ StartTranscoder \/ TranscoderFails
  BY <1>1, StartCameraKeeps, StartTranscoderKeeps, TranscoderFailsKeeps
<1>2. CASE \E s \in Sources : CopySinks(s) \/ Call(s) \/ StopSource(s)
  <2> SUFFICES ASSUME NEW s \in Sources, CopySinks(s) \/ Call(s) \/ StopSource(s)
               PROVE  IInv'
    BY <1>2
  <2>1. CASE CopySinks(s) \/ StopSource(s)
    BY <2>1, CopySinksKeeps, StopSourceKeeps
  <2>2. CASE Call(s)
    BY <2>2, CallBridgeKeeps, CallFreedBridgeKeeps, CallWireKeeps DEF Call
  <2> QED
    BY <2>1, <2>2
<1>3. CASE \E b \in Bridges : Enable(b) \/ Attach(b) \/ LowerFlag(b) \/ Unhook(b) \/ Free(b)
  BY <1>3, EnableKeeps, AttachKeeps, LowerFlagKeeps, UnhookKeeps, FreeKeeps
<1>4. CASE \E w \in Wires : \/ Connect(w) \/ Feed(w) \/ StopFeeding(w) \/ CloseWire(w)
                            \/ PeerReads(w) \/ PeerCloses(w)
  BY <1>4, ConnectKeeps, FeedKeeps, StopFeedingKeeps, CloseWireKeeps, PeerReadsKeeps,
     PeerClosesKeeps
<1>5. CASE UNCHANGED vars
  BY <1>5, StutterKeeps
<1> QED
  BY <1>1, <1>2, <1>3, <1>4, <1>5 DEF Next

(* Hence it holds always.                                                    *)
LEMMA InvariantHolds == Spec => []IInv
<1>1. Init => IInv
  BY InitIInv
<1>2. IInv /\ [Next]_vars => IInv'
  BY NextKeeps
<1> QED
  BY <1>1, <1>2, PTL DEF Spec

(* For every set of consumers, frame size, socket size and GOP: only a source *)
(* that runs has sinks to call; what the reader of a MoQ socket gets is whole *)
(* frames, whatever of each the socket took at once (flushPending); and a source *)
(* that was stopped has no sink left on its list (stop(), removeConsumer).   *)
THEOREM DeliveryIsAlwaysSound == Spec => []DeliveryIsSound
<1>1. IInv => DeliveryIsSound
  <2> SUFFICES ASSUME IInv PROVE DeliveryIsSound
    OBVIOUS
  <2>1. TypeOK
    <3>1. \A b \in Bridges : bridge[b] \in BridgeType
      BY DEF IInv, Types
    <3>2. \A w \in Wires : wire[w] \in WireType
      BY DEF IInv, Types
    <3>3. /\ \A b \in Bridges : /\ bridge[b].at \in {"new", "enabled", "attached", "lowered",
                                                     "unhooked", "freed"}
                                /\ bridge[b].seen \in 0..MaxFrames
          /\ \A w \in Wires : /\ wire[w].pending \in 0..FrameSize
                              /\ wire[w].full \in 0..SocketRoom
      BY <3>1, <3>2 DEF BridgeType, WireType
    <3> QED
      BY <3>3 DEF IInv, Types, Running, TypeOK, SourceType, SinksType
  <2>2. StoppedIsQuiet
    BY DEF IInv, StoppedIsQuiet, Registered, Running, Types, SinksType, Sources
  <2> QED
    BY <2>1, <2>2 DEF IInv, DeliveryIsSound
<1> QED
  BY <1>1, InvariantHolds, PTL

(* The steps of a session itself write nothing to its socket.                *)
LEMMA OwnStepsKeepLogs ==
  ASSUME Types, NEW w \in Wires,
         \/ Connect(w) \/ Feed(w) \/ StopFeeding(w) \/ CloseWire(w) \/ PeerReads(w) \/ PeerCloses(w)
  PROVE  /\ \A v \in Wires : wire'[v].log = wire[v].log
         /\ \A v \in Wires \ {w} : wire'[v] = wire[v]
<1>1. wire \in [Wires -> WireType] /\ wire[w] \in WireType
  BY DEF Types
<1>2. CASE Connect(w)
  BY <1>1, <1>2 DEF Connect, WireType
<1>3. CASE Feed(w)
  BY <1>1, <1>3 DEF Feed, WireType
<1>4. CASE StopFeeding(w)
  BY <1>1, <1>4 DEF StopFeeding, WireType
<1>5. CASE CloseWire(w)
  BY <1>1, <1>5 DEF CloseWire, WireType
<1>6. CASE PeerReads(w)
  BY <1>1, <1>6 DEF PeerReads, WireType
<1>7. CASE PeerCloses(w)
  BY <1>1, <1>7 DEF PeerCloses, WireType
<1> QED
  BY <1>2, <1>3, <1>4, <1>5, <1>6, <1>7

(* push() of a MoQ session that was copied before its stop() writes nothing to *)
(* the closed descriptor, whose number may by then be that of another file.  *)
THEOREM ClosedIsNeverWritten == Spec => ClosedIsNotWritten
<1> DEFINE Kept == \A w \in Wires : wire[w].fd = "closed" => wire'[w].log = wire[w].log
<1>1. IInv /\ [Next]_vars => [Kept]_vars
  <2> SUFFICES ASSUME IInv, Next PROVE Kept
    BY DEF Kept
  <2>1. CASE \E s \in Sources : Call(s)
    <3>1. PICK s \in Sources : Call(s)
      BY <2>1
    <3>2. CASE \E w \in Wires : CallWire(s, w)
      <4>1. PICK w \in Wires : CallWire(s, w)
        BY <3>2
      <4>2. wire' = [wire EXCEPT ![w] = wire'[w]] /\ (wire[w].fd = "closed" => wire'[w] = wire[w])
        BY <4>1, CallWireDoes DEF IInv
      <4> QED
        BY <4>2 DEF Kept, IInv, Types
    <3>3. CASE ~\E w \in Wires : CallWire(s, w)
      BY <3>1, <3>3 DEF Call, CallBridge, CallFreedBridge, Kept
    <3> QED
      BY <3>2, <3>3
  <2>2. CASE \E w \in Wires : \/ Connect(w) \/ Feed(w) \/ StopFeeding(w) \/ CloseWire(w)
                              \/ PeerReads(w) \/ PeerCloses(w)
    <3>1. PICK w \in Wires : \/ Connect(w) \/ Feed(w) \/ StopFeeding(w) \/ CloseWire(w)
                             \/ PeerReads(w) \/ PeerCloses(w)
      BY <2>2
    <3>2. \A v \in Wires : wire'[v].log = wire[v].log
      BY <3>1, OwnStepsKeepLogs DEF IInv
    <3> QED
      BY <3>2 DEF Kept
  <2>3. CASE \/ StartCamera \/ StartTranscoder \/ TranscoderFails
             \/ \E s \in Sources : CopySinks(s) \/ StopSource(s)
             \/ \E b \in Bridges : Enable(b) \/ Attach(b) \/ LowerFlag(b) \/ Unhook(b) \/ Free(b)
    <3>1. wire' = wire
      BY <2>3 DEF StartCamera, StartTranscoder, TranscoderFails, CopySinks, StopSource,
         Enable,
         Attach, LowerFlag, Unhook, Free
    <3> QED
      BY <3>1 DEF Kept
  <2> QED
    BY <2>1, <2>2, <2>3 DEF Next
<1>2. ClosedIsNotWritten <=> [][Kept]_vars
  BY PTL DEF ClosedIsNotWritten
<1> QED
  BY <1>1, <1>2, InvariantHolds, PTL DEF Spec

-----------------------------------------------------------------------------
(* The refinement: what GopStream sees of a consumer.                        *)
PhaseOf(c) ==
    IF c \in Bridges
    THEN CASE bridge[c].at = "new" -> "new"
           [] bridge[c].at \in {"enabled", "attached"} -> "open"
           [] OTHER -> "shut"
    ELSE CASE wire[c].fd = "none" -> "new"
           [] wire[c].fd = "open" -> "open"
           [] OTHER -> "shut"
LastOf(c) == IF c \in Bridges THEN bridge[c].seen
             ELSE IF wire[c].log = <<>> THEN 0 ELSE Last(wire[c].log).frame

(* The four ways a step looks in GopStream, given what it does to the phase and *)
(* the last frame of each consumer: it opens one,                            *)
LEMMA StreamOpens ==
  ASSUME NEW c \in Consumers, PhaseOf(c) = "new", PhaseOf(c)' = "open",
         \A d \in Consumers \ {c} : PhaseOf(d)' = PhaseOf(d),
         \A d \in Consumers : LastOf(d)' = LastOf(d)
  PROVE  Stream!Next
<1>1. Stream!Open(c)
  BY DEF Stream!Open, PhaseOf, LastOf
<1> QED
  BY <1>1 DEF Stream!Next

(* it shuts one,                                                             *)
LEMMA StreamShuts ==
  ASSUME NEW c \in Consumers, PhaseOf(c) # "shut", PhaseOf(c)' = "shut",
         \A d \in Consumers \ {c} : PhaseOf(d)' = PhaseOf(d),
         \A d \in Consumers : LastOf(d)' = LastOf(d)
  PROVE  Stream!Next
<1>1. Stream!Shut(c)
  BY DEF Stream!Shut, PhaseOf, LastOf
<1> QED
  BY <1>1 DEF Stream!Next

(* it changes nothing there,                                                 *)
LEMMA StreamStays ==
  ASSUME \A d \in Consumers : PhaseOf(d)' = PhaseOf(d) /\ LastOf(d)' = LastOf(d)
  PROVE  UNCHANGED Stream!gvars
BY DEF Stream!gvars, PhaseOf, LastOf

(* or it shows one consumer a frame.                                         *)
LEMMA StreamSees ==
  ASSUME NEW c \in Consumers, NEW f \in 1..MaxFrames, PhaseOf(c) = "open",
         f > LastOf(c), LastOf(c) = 0 => IsKey(f),
         c \in Bridges /\ LastOf(c) # 0 => f = LastOf(c) + 1,
         LastOf(c)' = f,
         \A d \in Consumers \ {c} : LastOf(d)' = LastOf(d),
         \A d \in Consumers : PhaseOf(d)' = PhaseOf(d)
  PROVE  Stream!Next
<1>1. Stream!See(c)
  BY DEF Stream!See, PhaseOf, LastOf
<1> QED
  BY <1>1 DEF Stream!Next

(* A session whose log and descriptor stay looks the same,                   *)
LEMMA SameWires ==
  ASSUME NEW w \in Wires, wire'[w].log = wire[w].log, wire'[w].fd = wire[w].fd
  PROVE  PhaseOf(w)' = PhaseOf(w) /\ LastOf(w)' = LastOf(w)
<1>1. w \notin Bridges
  BY DeliveryAssumption
<1>2. LastOf(w)' = LastOf(w)
  BY <1>1, Zenon DEF LastOf
<1>3. PhaseOf(w)' = PhaseOf(w)
  BY <1>1 DEF PhaseOf
<1> QED
  BY <1>2, <1>3

(* and so does a bridge that saw no frame, wherever its detach() is.         *)
LEMMA SameBridges ==
  ASSUME NEW b \in Bridges, bridge'[b].seen = bridge[b].seen,
         \/ bridge'[b].at = bridge[b].at
         \/ Enabled(b) /\ Enabled(b)'
         \/ bridge[b].at \in {"lowered", "unhooked"} /\ bridge'[b].at \in {"unhooked", "freed"}
  PROVE  PhaseOf(b)' = PhaseOf(b) /\ LastOf(b)' = LastOf(b)
BY DEF PhaseOf, LastOf, Enabled

(* The steps of the sources change neither bridges nor sockets.              *)
LEMMA SourceStepsStay ==
  ASSUME bridge' = bridge, wire' = wire
  PROVE  UNCHANGED Stream!gvars
<1>1. \A d \in Consumers : PhaseOf(d)' = PhaseOf(d) /\ LastOf(d)' = LastOf(d)
  BY SameBridges, SameWires DEF Consumers
<1> QED
  BY <1>1, StreamStays

(* attach() opens a consumer, the lowered flag shuts it, the rest is not seen. *)
LEMMA BridgeSteps ==
  ASSUME IInv, NEW b \in Bridges,
         \/ Enable(b) \/ Attach(b) \/ LowerFlag(b) \/ Unhook(b) \/ Free(b)
         \/ b = Coder /\ StartTranscoder
  PROVE  Stream!Next \/ UNCHANGED Stream!gvars
<1>1. /\ bridge \in [Bridges -> BridgeType] /\ bridge[b] \in BridgeType /\ wire' = wire
      /\ b \in Consumers
  BY DEF IInv, Types, Consumers, Enable, Attach, LowerFlag, Unhook, Free, StartTranscoder
<1>2. PICK to \in {"enabled", "attached", "lowered", "unhooked", "freed"} :
        /\ bridge' = [bridge EXCEPT ![b] = [bridge[b] EXCEPT !.at = to]]
        /\ to = "enabled" => bridge[b].at = "new"
        /\ to = "attached" => bridge[b].at = "enabled"
        /\ to = "lowered" => bridge[b].at = "attached"
        /\ to = "unhooked" => bridge[b].at = "lowered"
        /\ to = "freed" => bridge[b].at = "unhooked"
  <2>1. CASE b = Coder /\ StartTranscoder
    <3>1. bridge[b].at = "new"
      BY <2>1 DEF IInv, Running, StartTranscoder
    <3> QED
      BY <2>1, <3>1 DEF StartTranscoder
  <2>2. CASE Enable(b) \/ Attach(b) \/ LowerFlag(b) \/ Unhook(b) \/ Free(b)
    BY <2>2 DEF Enable, Attach, LowerFlag, Unhook, Free
  <2> QED
    BY <2>1, <2>2
<1>3. /\ bridge'[b].at = to /\ bridge'[b].seen = bridge[b].seen
      /\ \A c \in Bridges \ {b} : bridge'[c] = bridge[c]
  BY <1>1, <1>2 DEF BridgeType
<1>4. \A d \in Consumers \ {b} : PhaseOf(d)' = PhaseOf(d) /\ LastOf(d)' = LastOf(d)
  BY <1>1, <1>3, SameBridges, SameWires DEF Consumers
<1>5. LastOf(b)' = LastOf(b)
  BY <1>3 DEF LastOf
<1>6. CASE to = "enabled"
  <2>1. PhaseOf(b) = "new" /\ PhaseOf(b)' = "open"
    BY <1>2, <1>3, <1>6 DEF PhaseOf
  <2> QED
    BY <1>1, <1>4, <1>5, <2>1, StreamOpens
<1>7. CASE to = "lowered"
  <2>1. PhaseOf(b) # "shut" /\ PhaseOf(b)' = "shut"
    BY <1>2, <1>3, <1>7 DEF PhaseOf
  <2> QED
    BY <1>1, <1>4, <1>5, <2>1, StreamShuts
<1>8. CASE to \in {"attached", "unhooked", "freed"}
  <2>1. PhaseOf(b)' = PhaseOf(b)
    BY <1>2, <1>3, <1>8 DEF PhaseOf
  <2> QED
    BY <1>4, <1>5, <2>1, StreamStays
<1> QED
  BY <1>6, <1>7, <1>8

(* connect() opens a consumer and the closed descriptor shuts it.            *)
LEMMA WireSteps ==
  ASSUME IInv, NEW w \in Wires,
         \/ Connect(w) \/ Feed(w) \/ StopFeeding(w) \/ CloseWire(w) \/ PeerReads(w) \/ PeerCloses(w)
  PROVE  Stream!Next \/ UNCHANGED Stream!gvars
<1>1. /\ wire \in [Wires -> WireType] /\ wire[w] \in WireType /\ bridge' = bridge
      /\ w \in Consumers /\ w \notin Bridges
  BY DeliveryAssumption DEF IInv, Types, Consumers, Connect, Feed, StopFeeding,
     CloseWire, PeerReads, PeerCloses
<1>2. /\ \A v \in Wires : wire'[v].log = wire[v].log
      /\ \A v \in Wires \ {w} : wire'[v] = wire[v]
  BY OwnStepsKeepLogs DEF IInv
<1>3. \A d \in Consumers \ {w} : PhaseOf(d)' = PhaseOf(d) /\ LastOf(d)' = LastOf(d)
  BY <1>1, <1>2, SameBridges, SameWires DEF Consumers
<1>4. LastOf(w)' = LastOf(w)
  BY <1>1, <1>2, Zenon DEF LastOf
<1>5. CASE Connect(w)
  <2>1. wire[w].fd = "none" /\ wire'[w].fd = "open"
    BY <1>1, <1>5 DEF Connect, WireType, IInv, Placed
  <2>2. PhaseOf(w) = "new" /\ PhaseOf(w)' = "open"
    BY <1>1, <2>1 DEF PhaseOf
  <2> QED
    BY <1>1, <1>3, <1>4, <2>2, StreamOpens
<1>6. CASE CloseWire(w)
  <2>1. wire[w].fd = "open" /\ wire'[w].fd = "closed"
    BY <1>1, <1>6 DEF CloseWire, WireType, IInv, Placed
  <2>2. PhaseOf(w) # "shut" /\ PhaseOf(w)' = "shut"
    BY <1>1, <2>1 DEF PhaseOf
  <2> QED
    BY <1>1, <1>3, <1>4, <2>2, StreamShuts
<1>7. CASE Feed(w) \/ StopFeeding(w) \/ PeerReads(w) \/ PeerCloses(w)
  <2>1. wire'[w].fd = wire[w].fd
    BY <1>1, <1>7 DEF Feed, StopFeeding, PeerReads, PeerCloses, WireType
  <2> QED
    BY <1>2, <1>3, <2>1, SameWires, StreamStays
<1> QED
  BY <1>5, <1>6, <1>7

(* A bridge sees the frame after its last one, or its first, a key frame.    *)
LEMMA BridgeSees ==
  ASSUME IInv, NEW s \in Sources, NEW b \in Bridges, CallBridge(s, b)
  PROVE  Stream!Next \/ UNCHANGED Stream!gvars
<1>1. /\ bridge \in [Bridges -> BridgeType] /\ bridge[b] \in BridgeType /\ wire' = wire
      /\ b \in Consumers /\ b \in source[s].calling /\ source[s] \in SourceType
      /\ bridge' = [bridge EXCEPT ![b] = [bridge[b] EXCEPT !.seen = IF Enabled(b) THEN source[s].made ELSE @]]
  BY DEF IInv, Types, Consumers, CallBridge
<1>2. /\ \A c \in Bridges : bridge'[c].at = bridge[c].at
      /\ \A c \in Bridges \ {b} : bridge'[c] = bridge[c]
      /\ bridge'[b].seen = IF Enabled(b) THEN source[s].made ELSE bridge[b].seen
  BY <1>1 DEF BridgeType
<1>3. \A d \in Consumers \ {b} : PhaseOf(d)' = PhaseOf(d) /\ LastOf(d)' = LastOf(d)
  BY <1>1, <1>2, SameBridges, SameWires DEF Consumers
<1>4. PhaseOf(b)' = PhaseOf(b)
  BY <1>2 DEF PhaseOf
<1>5. CASE ~Enabled(b)
  <2>1. LastOf(b)' = LastOf(b)
    BY <1>2, <1>5 DEF LastOf
  <2> QED
    BY <1>3, <1>4, <2>1, StreamStays
<1>6. CASE Enabled(b)
  <2>1. bridge[b].at = "attached"
    BY <1>1, <1>6 DEF IInv, Placed, Enabled
  <2>2. /\ s = of[b] /\ bridge[b].seen \in Nat /\ source[s].made \in 0..MaxFrames
        /\ \/ bridge[b].seen # 0 /\ source[s].made = bridge[b].seen + 1
           \/ bridge[b].seen = 0 /\ IsKey(source[s].made) /\ source[s].made # 0
    <3>1. s = of[b] /\ bridge[b].seen \in Nat /\ source[s].made \in 0..MaxFrames
      BY <1>1, <2>1, DeliveryAssumption DEF IInv, Delivered, BridgeType, SourceType
    <3> QED
      BY <1>1, <2>1, <3>1 DEF IInv, Delivered
  <2> DEFINE f == source[s].made
  <2>3. /\ f \in 1..MaxFrames /\ f > LastOf(b) /\ LastOf(b)' = f
        /\ LastOf(b) = 0 => IsKey(f)
        /\ LastOf(b) # 0 => f = LastOf(b) + 1
    BY <1>2, <1>6, <2>2, DeliveryAssumption DEF LastOf
  <2>4. PhaseOf(b) = "open"
    BY <2>1 DEF PhaseOf
  <2> HIDE DEF f
  <2> QED
    BY <1>1, <1>3, <1>4, <2>3, <2>4, StreamSees
<1> QED
  BY <1>5, <1>6

(* A session begins a later frame than its last one, its first a key frame.  *)
LEMMA WireSees ==
  ASSUME IInv, NEW s \in Sources, NEW w \in Wires, CallWire(s, w)
  PROVE  Stream!Next \/ UNCHANGED Stream!gvars
<1>1. /\ w \in Consumers /\ w \notin Bridges /\ wire[w] \in WireType
  BY DeliveryAssumption DEF IInv, Types, Consumers
<1>2. /\ bridge' = bridge /\ w \in source[s].calling /\ source[s] \in SourceType
      /\ wire' = [wire EXCEPT ![w] = wire'[w]]
      /\ wire'[w].fd = wire[w].fd
      /\ \/ wire'[w] = wire[w]
         \/ /\ wire[w].fd = "open" /\ wire[w].alive /\ s = of[w]
            /\ SeenBy(w)' = SeenBy(w) \/ SeenBy(w)' = source[s].made
  BY CallWireDoes DEF IInv
<1>3. \A v \in Wires \ {w} : wire'[v] = wire[v]
  BY <1>2 DEF IInv, Types
<1>4. \A d \in Consumers \ {w} : PhaseOf(d)' = PhaseOf(d) /\ LastOf(d)' = LastOf(d)
  BY <1>2, <1>3, SameBridges, SameWires DEF Consumers
<1>5. PhaseOf(w)' = PhaseOf(w)
  BY <1>1, <1>2 DEF PhaseOf
<1>6. LastOf(w) = SeenBy(w) /\ LastOf(w)' = SeenBy(w)'
  BY <1>1, Zenon DEF LastOf, SeenBy
<1>7. CASE SeenBy(w)' = SeenBy(w)
  BY <1>4, <1>5, <1>6, <1>7, StreamStays
<1>8. CASE SeenBy(w)' # SeenBy(w)
  <2>1. wire'[w] # wire[w]
    BY <1>8, Zenon DEF SeenBy
  <2>2. /\ wire[w].fd = "open" /\ wire[w].alive /\ s = of[w]
        /\ SeenBy(w)' = source[s].made
    BY <1>2, <1>8, <2>1
  <2>3. /\ SeenBy(w) < source[s].made
        /\ wire[w].log = <<>> => IsKey(source[s].made)
    BY <1>2, <2>2 DEF IInv, Fed, FedWell
  <2>4. /\ SeenBy(w) \in Nat
        /\ SeenBy(w) = 0 => wire[w].log = <<>>
    <3>1. wire[w].log # <<>> => wire[w].log[Len(wire[w].log)].frame \in 1..MaxFrames
      BY <1>1, LogEntries DEF Entry
    <3>2. wire[w].log # <<>> => SeenBy(w) \in 1..MaxFrames
      BY <3>1 DEF SeenBy, Last
    <3>3. wire[w].log = <<>> => SeenBy(w) = 0
      BY DEF SeenBy
    <3> QED
      BY <3>2, <3>3, DeliveryAssumption
  <2> DEFINE f == source[s].made
  <2>5. f \in 1..MaxFrames /\ f > SeenBy(w)
    <3>1. source[s].made \in 0..MaxFrames
      BY <1>2 DEF SourceType
    <3> QED
      BY <2>3, <2>4, <3>1, DeliveryAssumption
  <2>6. PhaseOf(w) = "open"
    BY <1>1, <2>2 DEF PhaseOf
  <2> HIDE DEF f
  <2>7. LastOf(w) = 0 => IsKey(f)
    BY <1>6, <2>3, <2>4 DEF f
  <2>8. LastOf(w)' = f /\ f > LastOf(w)
    BY <1>6, <2>2, <2>5 DEF f
  <2> QED
    BY <1>1, <1>4, <1>5, <2>5, <2>6, <2>7, <2>8, StreamSees
<1> QED
  BY <1>7, <1>8

(* Every step of the delivery is a step of GopStream, or none.               *)
LEMMA StepOfStream == IInv /\ [Next]_vars => [Stream!Next]_(Stream!gvars)
<1> SUFFICES ASSUME IInv, [Next]_vars PROVE Stream!Next \/ UNCHANGED Stream!gvars
  OBVIOUS
<1>1. CASE StartCamera \/ TranscoderFails \/ (\E s \in Sources : CopySinks(s) \/ StopSource(s))
           \/ UNCHANGED vars
  <2>1. bridge' = bridge /\ wire' = wire
    BY <1>1 DEF StartCamera, TranscoderFails, CopySinks, StopSource, vars
  <2> QED
    BY <2>1, SourceStepsStay
<1>2. CASE StartTranscoder \/ \E b \in Bridges : \/ Enable(b) \/ Attach(b) \/ LowerFlag(b)
                                                 \/ Unhook(b) \/ Free(b)
  BY <1>2, BridgeSteps, DeliveryAssumption
<1>3. CASE \E s \in Sources : Call(s)
  <2>1. PICK s \in Sources : Call(s)
    BY <1>3
  <2>2. CASE \E b \in Bridges : CallFreedBridge(s, b)
    <3>1. bridge' = bridge /\ wire' = wire
      BY <2>2 DEF CallFreedBridge
    <3> QED
      BY <3>1, SourceStepsStay
  <2>3. CASE \E b \in Bridges : CallBridge(s, b)
    BY <2>3, BridgeSees
  <2>4. CASE \E w \in Wires : CallWire(s, w)
    BY <2>4, WireSees
  <2> QED
    BY <2>1, <2>2, <2>3, <2>4 DEF Call
<1>4. CASE \E w \in Wires : \/ Connect(w) \/ Feed(w) \/ StopFeeding(w) \/ CloseWire(w)
                            \/ PeerReads(w) \/ PeerCloses(w)
  BY <1>4, WireSteps
<1> QED
  BY <1>1, <1>2, <1>3, <1>4 DEF Next

(* The delivery implements GopStream: each consumer sees frames in increasing *)
(* order, a key frame first and none once it is shut, and a bridge misses none *)
(* in between, for any number of consumers of both sources and any GOP.      *)
THEOREM FramesAlwaysArrive == Spec => FramesArrive
<1>1. Init => Stream!Init
  <2> SUFFICES ASSUME Init PROVE Stream!Init
    OBVIOUS
  <2> QED
    BY DeliveryAssumption DEF Init, Stream!Init, Unconnected, Consumers
<1>2. IInv /\ [Next]_vars => [Stream!Next]_(Stream!gvars)
  BY StepOfStream
<1> QED
  BY <1>1, <1>2, InvariantHolds, PTL DEF Spec, FramesArrive, Stream!Spec

-----------------------------------------------------------------------------
(* Viewers.  When a camera answers with another codec than before, acquire()  *)
(* opens a second connection on purpose, while the holders of the old one     *)
(* leave (CameraSourceRegistry.hpp, acquire): there is one connection as long *)
(* as the codec of the camera stays.                                        *)
CodecStays == H265 = {} \/ H265 = Addresses

(* The inductive invariant.  A new connection is made only when the known one *)
(* is dead and none comes back to life, so of the list only the last can live *)
(* (LastLives); a session that is listed holds a source, directly or through  *)
(* the transcoder (Holding).                                                *)

Camera == [address : Addresses, alive : BOOLEAN]
Transcoder == [base : Nat, alive : BOOLEAN]
Clock == [read : {"fresh", "stale"}, rtcp : {"never", "fresh", "stale"}]
Places == {"new", "asked", "built", "listed", "doomed", "ousted", "gone"}

ViewersTypes ==
    /\ address \in Addresses /\ reset \in {"idle", "web", "moq", "start"}
    /\ cameras \in Seq(Camera) /\ coders \in Seq(Transcoder)
    /\ \A k \in DOMAIN coders : coders[k].base \in DOMAIN cameras
    /\ base \in [SourceHolders -> 0..Len(cameras)]
    /\ coder \in [Sessions -> 0..Len(coders)]
    /\ at \in [Sessions -> Places] /\ link \in [Sessions -> BOOLEAN]
    /\ state \in [Sessions -> {"new", "connected", "disconnected", "failed"}]
    /\ clock \in [Sessions -> Clock]

Holding == \A s \in Sessions :
    /\ at[s] \in {"new", "gone"} => base[s] = 0 /\ coder[s] = 0
    /\ at[s] = "asked" => base[s] # 0 /\ coder[s] = 0
    /\ at[s] \in {"built", "listed"} => base[s] # 0 \/ coder[s] # 0

LastLives ==
    /\ CodecStays => \A i \in DOMAIN cameras : cameras[i].alive => i = Len(cameras)
    /\ \A k \in DOMAIN coders : CoderAlive(k) => k = Len(coders)

ViewersInv == ViewersTypes /\ Holding /\ LastLives

\* What a step does to the registry: a source is made only when no known one
\* lives, and none comes back to life.
CamerasStep ==
    /\ cameras' \in Seq(Camera)
    /\ \/ Len(cameras') = Len(cameras)
       \/ /\ Len(cameras') = Len(cameras) + 1
          /\ CodecStays => \A i \in DOMAIN cameras : ~cameras[i].alive
    /\ \A i \in DOMAIN cameras : cameras'[i].alive => cameras[i].alive
\* What is held lives on.
Survive ==
    /\ \A i \in DOMAIN cameras : cameras[i].alive /\ CameraHeld(i)' => cameras'[i].alive
    /\ \A k \in DOMAIN coders : coders[k].alive /\ CoderHeld(k)' => coders'[k].alive
CodersStep ==
    /\ coders' \in Seq(Transcoder)
    /\ \/ Len(coders') = Len(coders)
       \/ /\ Len(coders') = Len(coders) + 1
          /\ \A k \in DOMAIN coders : ~CoderAlive(k)
    /\ \A k \in DOMAIN coders : /\ coders'[k].base = coders[k].base
                                /\ coders'[k].alive => coders[k].alive
    /\ \A k \in DOMAIN coders' : coders'[k].base \in DOMAIN cameras'

\* A registry of which entries only lose their alive.
LEMMA Fading ==
    ASSUME NEW T, NEW old \in Seq(T), NEW new,
           DOMAIN new = DOMAIN old, \A i \in DOMAIN old : new[i] \in T,
           new = [i \in DOMAIN old |-> new[i]]
    PROVE  new \in Seq(T) /\ Len(new) = Len(old)
<1>1. DOMAIN old = 1..Len(old) /\ Len(old) \in Nat
  OBVIOUS
<1>2. new \in [1..Len(old) -> T]
  BY <1>1
<1> QED
  BY <1>1, <1>2

LEMMA LastLivesStep ==
    ASSUME ViewersInv, CamerasStep, CodersStep
    PROVE  LastLives'
<1>1. /\ DOMAIN cameras = 1..Len(cameras) /\ DOMAIN cameras' = 1..Len(cameras')
      /\ Len(cameras) \in Nat /\ Len(cameras') \in Nat
  BY DEF ViewersInv, ViewersTypes, CamerasStep
<1>2. /\ DOMAIN coders = 1..Len(coders) /\ DOMAIN coders' = 1..Len(coders')
      /\ Len(coders) \in Nat /\ Len(coders') \in Nat
  BY DEF ViewersInv, ViewersTypes, CodersStep
<1>3. ASSUME CodecStays
      PROVE  \A i \in DOMAIN cameras' : cameras'[i].alive => i = Len(cameras')
  <2> SUFFICES ASSUME NEW i \in DOMAIN cameras', cameras'[i].alive
               PROVE  i = Len(cameras')
    OBVIOUS
  <2>1. i \in DOMAIN cameras => cameras[i].alive /\ i = Len(cameras)
    BY <1>3 DEF ViewersInv, LastLives, CamerasStep
  <2>2. CASE Len(cameras') = Len(cameras)
    BY <1>1, <2>1, <2>2
  <2>3. CASE Len(cameras') = Len(cameras) + 1 /\ \A j \in DOMAIN cameras : ~cameras[j].alive
    BY <1>1, <2>1, <2>3
  <2> QED
    BY <1>3, <2>2, <2>3 DEF CamerasStep
<1>4. \A k \in DOMAIN coders : CoderAlive(k)' => CoderAlive(k)
  BY DEF ViewersInv, ViewersTypes, CamerasStep, CodersStep, CoderAlive
<1>5. \A k \in DOMAIN coders' : CoderAlive(k)' => k = Len(coders')
  <2> SUFFICES ASSUME NEW k \in DOMAIN coders', CoderAlive(k)'
               PROVE  k = Len(coders')
    OBVIOUS
  <2>1. k \in DOMAIN coders => CoderAlive(k) /\ k = Len(coders)
    BY <1>4 DEF ViewersInv, LastLives
  <2>2. CASE Len(coders') = Len(coders)
    BY <1>2, <2>1, <2>2
  <2>3. CASE Len(coders') = Len(coders) + 1 /\ \A j \in DOMAIN coders : ~CoderAlive(j)
    BY <1>2, <2>1, <2>3
  <2> QED
    BY <2>2, <2>3 DEF CodersStep
<1> QED
  BY <1>3, <1>5 DEF LastLives

-----------------------------------------------------------------------------
LEMMA SameRegistry ==
    ASSUME ViewersInv, UNCHANGED registryVars
    PROVE  CamerasStep /\ CodersStep
  BY DEF ViewersInv, ViewersTypes, registryVars, CamerasStep, CodersStep

LEMMA SameCoders ==
    ASSUME ViewersInv, CamerasStep, UNCHANGED coders
    PROVE  CodersStep
<1>1. DOMAIN cameras \subseteq DOMAIN cameras'
  BY DEF ViewersInv, ViewersTypes, CamerasStep
<1> QED
  BY <1>1 DEF ViewersInv, ViewersTypes, CodersStep

\* A new connection is made only when the known one is dead.
LEMMA AcquireStep ==
    ASSUME ViewersInv, NEW h \in SourceHolders, Acquire(h)
    PROVE  /\ CamerasStep
           /\ base' \in [SourceHolders -> 0..Len(cameras')]
           /\ base'[h] # 0 /\ \A g \in SourceHolders \ {h} : base'[g] = base[g]
           /\ \A i \in DOMAIN cameras : cameras'[i] = cameras[i]
<1>1. cameras \in Seq(Camera) /\ Len(cameras) \in Nat /\ address \in Addresses
  BY DEF ViewersInv, ViewersTypes
<1>2. base \in [SourceHolders -> 0..Len(cameras)]
  BY DEF ViewersInv, ViewersTypes
<1>3. CASE Reusable(address) /\ base' = [base EXCEPT ![h] = Known] /\ UNCHANGED cameras
  <2>1. Known \in 1..Len(cameras)
    BY <1>1, <1>3 DEF Reusable, Known
  <2> QED
    BY <1>1, <1>2, <1>3, <2>1 DEF CamerasStep
<1>4. CASE /\ ~Reusable(address)
           /\ cameras' = Append(cameras, [address |-> address, alive |-> TRUE])
           /\ base' = [base EXCEPT ![h] = Known + 1]
  <2>1. /\ cameras' \in Seq(Camera) /\ Len(cameras') = Len(cameras) + 1
        /\ \A i \in DOMAIN cameras : cameras'[i] = cameras[i]
    BY <1>1, <1>4 DEF Camera
  <2>2. CodecStays /\ cameras # <<>> => ~cameras[Len(cameras)].alive
    <3> SUFFICES ASSUME CodecStays, cameras # <<>> PROVE ~cameras[Len(cameras)].alive
      OBVIOUS
    <3> cameras[Len(cameras)] \in Camera
      BY <1>1
    <3>1. cameras[Len(cameras)].address \in Addresses
      BY DEF Camera
    <3>2. IsH265(cameras[Len(cameras)].address) <=> IsH265(address)
      BY <1>1, <3>1 DEF CodecStays, IsH265
    <3> QED
      BY <1>4, <3>2 DEF Reusable, Known
  <2>3. CodecStays => \A i \in DOMAIN cameras : ~cameras[i].alive
    BY <1>1, <2>2 DEF ViewersInv, LastLives
  <2> QED
    BY <1>1, <1>2, <1>4, <2>1, <2>3 DEF CamerasStep, Known
<1> QED
  BY <1>3, <1>4 DEF Acquire

\* Nor is a transcoder.
LEMMA AcquireTranscodedStep ==
    ASSUME ViewersInv, NEW s \in Sessions, base[s] # 0, AcquireTranscoded(s),
           CamerasStep, Len(cameras') = Len(cameras)
    PROVE  /\ CodersStep
           /\ coder' \in [Sessions -> 0..Len(coders')]
           /\ coder'[s] # 0 /\ \A t \in Sessions \ {s} : coder'[t] = coder[t]
           /\ \A k \in DOMAIN coders : coders'[k] = coders[k]
<1>1. coders \in Seq(Transcoder) /\ Len(coders) \in Nat
  BY DEF ViewersInv, ViewersTypes
<1>2. DOMAIN cameras = 1..Len(cameras) /\ DOMAIN cameras' = 1..Len(cameras)
  BY DEF ViewersInv, ViewersTypes, CamerasStep
<1>3. coder \in [Sessions -> 0..Len(coders)]
  BY DEF ViewersInv, ViewersTypes
<1>4. CASE CoderReusable /\ coder' = [coder EXCEPT ![s] = KnownCoder] /\ UNCHANGED coders
  <2>1. KnownCoder \in 1..Len(coders)
    BY <1>1, <1>4 DEF CoderReusable, KnownCoder
  <2>2. CodersStep
    BY <1>4, SameCoders
  <2> QED
    BY <1>3, <1>4, <2>1, <2>2
<1>5. CASE /\ ~CoderReusable
           /\ coders' = Append(coders, [base |-> base[s], alive |-> TRUE])
           /\ coder' = [coder EXCEPT ![s] = KnownCoder + 1]
  <2>1. base[s] \in DOMAIN cameras' /\ base[s] \in Nat
    BY <1>2 DEF ViewersInv, ViewersTypes, SourceHolders
  <2>2. /\ coders' \in Seq(Transcoder) /\ Len(coders') = Len(coders) + 1
        /\ \A k \in DOMAIN coders : coders'[k] = coders[k]
        /\ coders'[Len(coders) + 1].base = base[s]
    BY <1>1, <1>5, <2>1 DEF Transcoder
  <2>3. \A k \in DOMAIN coders : ~CoderAlive(k)
    BY <1>1, <1>5 DEF ViewersInv, LastLives, CoderReusable, KnownCoder
  <2>4. \A k \in DOMAIN coders' : coders'[k].base \in DOMAIN cameras'
    BY <1>1, <1>2, <2>1, <2>2 DEF ViewersInv, ViewersTypes
  <2> QED
    BY <1>1, <1>3, <1>5, <2>2, <2>3, <2>4 DEF CodersStep, KnownCoder
<1> QED
  BY <1>4, <1>5 DEF AcquireTranscoded

\* What nobody holds is destroyed: that makes nothing.
LEMMA FadedCameras ==
    ASSUME ViewersInv,
           cameras' = [i \in DOMAIN cameras |->
                          [cameras[i] EXCEPT !.alive = @ /\ CameraHeld(i)']]
    PROVE  /\ CamerasStep /\ Len(cameras') = Len(cameras)
           /\ \A i \in DOMAIN cameras :
                 cameras[i].alive /\ CameraHeld(i)' => cameras'[i].alive
<1>1. \A i \in DOMAIN cameras : CameraHeld(i)' \in BOOLEAN
  BY DEF CameraHeld
<1>2. \A i \in DOMAIN cameras : cameras[i] \in Camera
  BY DEF ViewersInv, ViewersTypes
<1>3. \A i \in DOMAIN cameras :
         cameras'[i] = [address |-> cameras[i].address,
                        alive |-> cameras[i].alive /\ CameraHeld(i)']
  BY <1>2 DEF Camera
<1>4. \A i \in DOMAIN cameras : cameras'[i] \in Camera
  BY <1>1, <1>2, <1>3 DEF Camera
<1>5. cameras' \in Seq(Camera) /\ Len(cameras') = Len(cameras)
  <2>1. DOMAIN cameras' = DOMAIN cameras /\ cameras' = [i \in DOMAIN cameras |-> cameras'[i]]
    OBVIOUS
  <2>2. cameras \in Seq(Camera)
    BY DEF ViewersInv, ViewersTypes
  <2> QED
    BY ONLY <1>4, <2>1, <2>2, Fading
<1> QED
  BY <1>3, <1>5 DEF CamerasStep

LEMMA CollectStep ==
    ASSUME ViewersInv, Collect
    PROVE  /\ CamerasStep /\ Len(cameras') = Len(cameras)
           /\ CodersStep /\ Len(coders') = Len(coders)
           /\ Survive
<1>1. CamerasStep /\ Len(cameras') = Len(cameras)
  BY FadedCameras DEF Collect
<1>2. \A k \in DOMAIN coders : CoderHeld(k)' \in BOOLEAN
  BY DEF CoderHeld
<1>3. \A k \in DOMAIN coders : coders[k] \in Transcoder
  BY DEF ViewersInv, ViewersTypes
<1>4. ASSUME NEW k \in DOMAIN coders
      PROVE  /\ coders'[k].base = coders[k].base
             /\ coders'[k].alive => coders[k].alive
             /\ coders[k].alive /\ CoderHeld(k)' => coders'[k].alive
             /\ coders'[k] \in Transcoder
  <2>1. coders'[k] = [base |-> coders[k].base,
                      alive |-> coders[k].alive /\ CoderHeld(k)']
    BY <1>3 DEF Transcoder, Collect
  <2>2. coders[k].base \in Nat /\ coders[k].alive \in BOOLEAN
    BY <1>3 DEF Transcoder
  <2>3. coders'[k].base = coders[k].base
    BY <2>1
  <2>4. /\ coders'[k].alive => coders[k].alive
        /\ coders[k].alive /\ CoderHeld(k)' => coders'[k].alive
    BY <2>1, <2>2
  <2>5. coders'[k] \in Transcoder
    BY <1>2, <2>1, <2>2 DEF Transcoder
  <2> QED
    BY <2>3, <2>4, <2>5
<1>5. \A k \in DOMAIN coders : coders'[k] \in Transcoder
  BY <1>4
<1>6. coders' \in Seq(Transcoder) /\ Len(coders') = Len(coders) /\ DOMAIN coders' = DOMAIN coders
  <2>1. DOMAIN coders' = DOMAIN coders /\ coders' = [k \in DOMAIN coders |-> coders'[k]]
    BY DEF Collect
  <2> QED
    BY <1>5, <2>1, Fading DEF ViewersInv, ViewersTypes
<1>7. DOMAIN cameras' = DOMAIN cameras
  BY <1>1 DEF ViewersInv, ViewersTypes, CamerasStep
<1>8. \A k \in DOMAIN coders : coders'[k].base = coders[k].base
  BY <1>4
<1>9. \A k \in DOMAIN coders' : coders'[k].base \in DOMAIN cameras'
  <2>1. \A k \in DOMAIN coders : coders[k].base \in DOMAIN cameras
    BY DEF ViewersInv, ViewersTypes
  <2> QED
    BY <1>6, <1>7, <1>8, <2>1
<1>10. \A k \in DOMAIN coders :
          /\ coders'[k].base = coders[k].base
          /\ coders'[k].alive => coders[k].alive
  BY <1>4
<1>11. CodersStep
  <2>1. coders' \in Seq(Transcoder) /\ Len(coders') = Len(coders)
    BY <1>6
  <2> QED
    BY <2>1, <1>9, <1>10 DEF CodersStep
<1>12. Survive
  BY <1>4, FadedCameras DEF Collect, Survive
<1> QED
  BY <1>1, <1>6, <1>11, <1>12

-----------------------------------------------------------------------------
LEMMA InitViewersInv == ViewersInit => ViewersInv
<1> SUFFICES ASSUME ViewersInit PROVE ViewersInv
  OBVIOUS
<1>1. ViewersTypes
  <2>1. clock \in [Sessions -> Clock]
    BY DEF ViewersInit, Unset, Clock
  <2>2. base \in [SourceHolders -> 0..Len(cameras)] /\ coder \in [Sessions -> 0..Len(coders)]
    BY DEF ViewersInit
  <2>3. at \in [Sessions -> Places] /\ link \in [Sessions -> BOOLEAN]
    BY DEF ViewersInit, Places
  <2> QED
    BY <2>1, <2>2, <2>3, ViewersAssumption DEF ViewersInit, ViewersTypes
<1>2. Holding
  BY DEF ViewersInit, Holding, SourceHolders
<1>3. LastLives
  BY DEF ViewersInit, LastLives
<1> QED
  BY <1>1, <1>2, <1>3 DEF ViewersInv

\* What a step that keeps sources and holders may do to the life of a session.
Onward(here, there) ==
    \/ here = there
    \/ <<here, there>> \in {<<"new", "gone">>, <<"asked", "built">>, <<"built", "listed">>,
                            <<"listed", "doomed">>, <<"listed", "ousted">>}

BrowserTypes ==
    /\ link \in [Sessions -> BOOLEAN]
    /\ state \in [Sessions -> {"new", "connected", "disconnected", "failed"}]
    /\ clock \in [Sessions -> Clock]
QuietStep ==
    /\ address' \in Addresses /\ reset' \in {"idle", "web", "moq", "start"}
    /\ at' \in [Sessions -> Places] /\ \A s \in Sessions : Onward(at[s], at'[s])
    /\ BrowserTypes'

LEMMA QuietViewersInv ==
    ASSUME ViewersInv, UNCHANGED <<registryVars, holdVars>>, QuietStep
    PROVE  ViewersInv'
<1>1. ViewersTypes'
  BY DEF ViewersInv, ViewersTypes, registryVars, holdVars, QuietStep, BrowserTypes
<1>2. Holding'
  BY Zenon DEF ViewersInv, Holding, registryVars, holdVars, QuietStep, Onward
<1>3. LastLives'
  BY SameRegistry, LastLivesStep DEF registryVars
<1> QED
  BY <1>1, <1>2, <1>3 DEF ViewersInv

LEMMA PutOnward ==
    ASSUME ViewersInv, NEW s \in Sessions, NEW place \in Places, Put(s, place),
           Onward(at[s], place)
    PROVE  at' \in [Sessions -> Places] /\ \A t \in Sessions : Onward(at[t], at'[t])
<1>1. at \in [Sessions -> Places] /\ at' = [at EXCEPT ![s] = place]
  BY DEF ViewersInv, ViewersTypes, Put
<1>2. \A t \in Sessions : Onward(at[t], at[t])
  BY DEF Onward
<1> QED
  BY <1>1, <1>2

LEMMA TakeOnward ==
    ASSUME ViewersInv, NEW taken \in SUBSET Listed, NEW place \in {"doomed", "ousted"},
           Take(taken, place)
    PROVE  at' \in [Sessions -> Places] /\ \A t \in Sessions : Onward(at[t], at'[t])
<1>1. at \in [Sessions -> Places]
  BY DEF ViewersInv, ViewersTypes
<1>2. \A t \in Sessions : at'[t] = IF t \in taken THEN place ELSE at[t]
  BY DEF Take
<1>3. \A t \in taken : at[t] = "listed"
  BY DEF Listed
<1>4. at' \in [Sessions -> Places]
  BY <1>1 DEF Take, Places
<1> QED
  BY <1>2, <1>3, <1>4 DEF Onward

LEMMA SameBrowser ==
    ASSUME ViewersInv, UNCHANGED browserVars
    PROVE  BrowserTypes'
  BY DEF ViewersInv, ViewersTypes, browserVars, BrowserTypes

LEMMA ClockSet ==
    ASSUME ViewersInv, NEW s \in Sessions, NEW c \in {"read", "rtcp"},
           NEW age \in {"fresh", "stale"}
    PROVE  [clock EXCEPT ![s][c] = age] \in [Sessions -> Clock]
<1>1. clock \in [Sessions -> Clock]
  BY DEF ViewersInv, ViewersTypes
<1>2. [clock[s] EXCEPT ![c] = age] \in Clock
  BY <1>1 DEF Clock
<1>3. [clock EXCEPT ![s][c] = age] = [clock EXCEPT ![s] = [clock[s] EXCEPT ![c] = age]]
  OBVIOUS
<1> QED
  BY <1>1, <1>2, <1>3

\* The steps of the browser, of time and of the answer.
LEMMA BrowserStep ==
    ASSUME ViewersInv, NEW s \in Sessions,
           \/ Register(s) \/ LinkUp(s) \/ LinkDrops(s) \/ Connected(s)
           \/ Disconnected(s) \/ Failed(s) \/ Rtcp(s) \/ Time(s)
    PROVE  QuietStep /\ UNCHANGED <<registryVars, holdVars>>
<1>1. UNCHANGED <<address, reset, registryVars, holdVars>>
  BY DEF Register, LinkUp, LinkDrops, Connected, Disconnected, Failed, Rtcp, Time, Stale
<1>2. at' \in [Sessions -> Places] /\ \A t \in Sessions : Onward(at[t], at'[t])
  <2>1. CASE Register(s)
    <3>1. Onward(at[s], "listed")
      BY <2>1 DEF Register, Onward
    <3> QED
      BY <2>1, <3>1, PutOnward DEF Register, Places
  <2>2. CASE UNCHANGED at
    BY <2>2 DEF Onward, ViewersInv, ViewersTypes
  <2> QED
    BY <2>1, <2>2 DEF LinkUp, LinkDrops, Connected, Disconnected, Failed, Rtcp, Time, Stale
<1>3. link' \in [Sessions -> BOOLEAN]
  <2>1. link \in [Sessions -> BOOLEAN]
    BY DEF ViewersInv, ViewersTypes
  <2>2. PICK b \in BOOLEAN : link' = [link EXCEPT ![s] = b]
    <3>1. link = [link EXCEPT ![s] = link[s]] /\ link[s] \in BOOLEAN
      BY <2>1
    <3>2. CASE Register(s)
      <4>1. link' = [link EXCEPT ![s] = s \in Moq]
        BY <3>2 DEF Register
      <4>2. CASE s \in Moq
        <5>1. link' = [link EXCEPT ![s] = TRUE]
          BY <4>1, <4>2
        <5> QED
          BY <5>1
      <4>3. CASE s \notin Moq
        <5>1. (s \in Moq) = FALSE
          BY <4>3
        <5>2. link' = [link EXCEPT ![s] = FALSE]
          BY <4>1, <5>1, Zenon
        <5> QED
          BY <5>2
      <4> QED
        BY <4>2, <4>3
    <3>3. CASE LinkUp(s) \/ LinkDrops(s)
      BY <3>3 DEF LinkUp, LinkDrops
    <3>4. CASE UNCHANGED link
      BY <3>1, <3>4
    <3> QED
      BY <3>2, <3>3, <3>4 DEF Connected, Disconnected, Failed, Rtcp, Time, Stale
  <2> QED
    BY <2>1, <2>2
<1>4. state' \in [Sessions -> {"new", "connected", "disconnected", "failed"}]
  BY DEF ViewersInv, ViewersTypes, Register, LinkUp, LinkDrops, Connected, Disconnected,
     Failed,
     Rtcp, Time, Stale
<1>5. clock' \in [Sessions -> Clock]
  <2>1. CASE UNCHANGED clock
    BY <2>1 DEF ViewersInv, ViewersTypes
  <2>2. CASE clock' = [clock EXCEPT ![s]["read"] = "fresh"]
    BY <2>2, ClockSet
  <2>3. CASE clock' = [clock EXCEPT ![s]["rtcp"] = "fresh"]
    BY <2>3, ClockSet
  <2>4. CASE \E c \in {"read", "rtcp"} : clock' = [clock EXCEPT ![s][c] = "stale"]
    <3>1. PICK c \in {"read", "rtcp"} : clock' = [clock EXCEPT ![s][c] = "stale"]
      BY <2>4
    <3>2. [clock EXCEPT ![s][c] = "stale"] \in [Sessions -> Clock]
      BY ClockSet
    <3> QED
      BY <3>1, <3>2
  <2> QED
    BY <2>1, <2>2, <2>3, <2>4 DEF Register, LinkUp, LinkDrops, Connected, Disconnected,
       Failed, Rtcp, Time, Stale
<1> QED
  BY <1>1, <1>2, <1>3, <1>4, <1>5 DEF QuietStep, BrowserTypes, ViewersInv, ViewersTypes

\* The steps that only move sessions on, or write the row of the camera.
LEMMA MovingStep ==
    ASSUME ViewersInv,
           \/ \E s \in Sessions : AskFails(s) \/ BuildDirect(s) \/ Destroy(s)
           \/ Reap(Web) \/ Reap(Moq) \/ (\E a \in Addresses : Edit(a)) \/ ResetMoq
    PROVE  QuietStep /\ UNCHANGED <<registryVars, holdVars>>
<1>1. UNCHANGED <<registryVars, holdVars, browserVars>>
  BY DEF AskFails, BuildDirect, Destroy, Reap, Edit, ResetMoq
<1>2. address' \in Addresses /\ reset' \in {"idle", "web", "moq", "start"}
  BY DEF ViewersInv, ViewersTypes, AskFails, BuildDirect, Destroy, Reap, Edit, ResetMoq
<1>3. at' \in [Sessions -> Places] /\ \A t \in Sessions : Onward(at[t], at'[t])
  <2>1. ASSUME NEW s \in Sessions, AskFails(s) \/ BuildDirect(s)
        PROVE  <1>3
    <3>1. PICK place \in Places : Put(s, place) /\ Onward(at[s], place)
      <4>1. CASE AskFails(s)
        <5>1. Put(s, "gone") /\ Onward(at[s], "gone") /\ "gone" \in Places
          BY <4>1 DEF AskFails, Onward, Places
        <5> QED
          BY <5>1
      <4>2. CASE BuildDirect(s)
        <5>1. Put(s, "built") /\ Onward(at[s], "built") /\ "built" \in Places
          BY <4>2 DEF BuildDirect, Onward, Places
        <5> QED
          BY <5>1
      <4> QED
        BY <2>1, <4>1, <4>2
    <3> QED
      BY <3>1, PutOnward
  <2>2. ASSUME NEW taken \in SUBSET Listed, NEW place \in {"doomed", "ousted"},
               Take(taken, place)
        PROVE  <1>3
    BY <2>2, TakeOnward
  <2>3. ASSUME NEW s \in Sessions, Destroy(s) PROVE <1>3
    BY <2>2, <2>3 DEF Destroy
  <2>4. ASSUME NEW kind, Reap(kind) PROVE <1>3
    <3>1. {s \in kind \cap Listed : Expired(s)} \in SUBSET Listed
      OBVIOUS
    <3> QED
      BY <2>2, <2>4, <3>1 DEF Reap
  <2>5. ASSUME NEW a \in Addresses, Edit(a) PROVE <1>3
    BY <2>2, <2>5 DEF Edit
  <2>6. ASSUME ResetMoq PROVE <1>3
    BY <2>2, <2>6 DEF ResetMoq
  <2> QED
    BY <2>1, <2>3, <2>4, <2>5, <2>6
<1> QED
  BY <1>1, <1>2, <1>3, SameBrowser DEF QuietStep

-----------------------------------------------------------------------------
LEMMA RegistryViewersInv ==
    ASSUME ViewersInv, CamerasStep, CodersStep,
           address' \in Addresses, reset' \in {"idle", "web", "moq", "start"},
           base' \in [SourceHolders -> 0..Len(cameras')],
           coder' \in [Sessions -> 0..Len(coders')],
           at' \in [Sessions -> Places], BrowserTypes', Holding'
    PROVE  ViewersInv'
<1>1. ViewersTypes'
  BY DEF ViewersTypes, CamerasStep, CodersStep, BrowserTypes
<1> QED
  BY <1>1, LastLivesStep DEF ViewersInv

\* A listed session that keeps what it holds keeps its source.
LEMMA Served ==
    ASSUME ViewersInv, ViewersInv', Survive, CodersStep, NEW t \in Sessions,
           base'[t] = base[t], coder'[t] = coder[t], SourceAlive(t)
    PROVE  SourceAlive(t)'
<1>1. /\ base[t] \in 0..Len(cameras) /\ coder[t] \in 0..Len(coders)
      /\ t \in SourceHolders
      /\ DOMAIN cameras = 1..Len(cameras) /\ DOMAIN coders = 1..Len(coders)
      /\ Len(cameras) \in Nat /\ Len(coders) \in Nat
  BY DEF ViewersInv, ViewersTypes, SourceHolders
<1>2. CASE coder[t] = 0
  <2>1. base[t] # 0 /\ cameras[base[t]].alive
    BY <1>2 DEF SourceAlive
  <2>2. PICK i \in DOMAIN cameras : i = base[t]
    BY <1>1, <2>1
  <2>3. CameraHeld(i)'
    BY <1>1, <2>2 DEF CameraHeld
  <2>4. cameras'[i].alive
    BY <2>1, <2>2, <2>3 DEF Survive
  <2> QED
    BY <1>2, <2>1, <2>2, <2>4 DEF SourceAlive
<1>3. CASE coder[t] # 0
  <2>1. PICK k \in DOMAIN coders : k = coder[t]
    BY <1>1, <1>3
  <2>2. coders[k].alive /\ cameras[coders[k].base].alive
    BY <1>3, <2>1 DEF SourceAlive, CoderAlive
  <2>3. PICK i \in DOMAIN cameras : i = coders[k].base
    BY <2>1 DEF ViewersInv, ViewersTypes
  <2>4. k \in DOMAIN coders' /\ coders'[k].base = i
    <3>1. coder'[t] \in 0..Len(coders') /\ DOMAIN coders' = 1..Len(coders')
      BY DEF ViewersInv, ViewersTypes
    <3>2. coder'[t] = k /\ k # 0 /\ k \in Nat
      BY <1>1, <1>3, <2>1
    <3>3. k \in DOMAIN coders'
      BY <3>1, <3>2
    <3> QED
      BY <2>1, <2>3, <3>3 DEF CodersStep
  <2>5. CoderHeld(k)'
    BY <2>1 DEF CoderHeld
  <2>6. CameraHeld(i)'
    BY <2>4, <2>5 DEF CameraHeld
  <2>7. coders'[k].alive /\ cameras'[i].alive
    BY <2>2, <2>3, <2>5, <2>6 DEF Survive
  <2> QED
    BY <1>3, <2>1, <2>4, <2>7 DEF SourceAlive, CoderAlive
<1> QED
  BY <1>2, <1>3

\* What a step that changes the holders owes: its invariant, and that a session
\* that is listed before and after keeps its source.
StillServed ==
    \A t \in Listed : at'[t] = "listed" /\ SourceAlive(t) => SourceAlive(t)'
Owed == ViewersInv' /\ StillServed

LEMMA OwedBySurvivors ==
    ASSUME ViewersInv, ViewersInv', Survive, CodersStep,
           \A t \in Listed : at'[t] = "listed" =>
              base'[t] = base[t] /\ coder'[t] = coder[t]
    PROVE  Owed
  BY Served DEF Owed, StillServed, Listed

LEMMA SameTypes ==
    ASSUME ViewersInv
    PROVE  /\ address \in Addresses /\ reset \in {"idle", "web", "moq", "start"}
           /\ base \in [SourceHolders -> 0..Len(cameras)]
           /\ coder \in [Sessions -> 0..Len(coders)]
           /\ at \in [Sessions -> Places] /\ BrowserTypes
           /\ Sessions \subseteq SourceHolders /\ "rec" \in SourceHolders /\ "rec" \notin Sessions
  BY ViewersAssumption DEF ViewersInv, ViewersTypes, BrowserTypes, SourceHolders, Sessions

LEMMA AskStep ==
    ASSUME ViewersInv, NEW s \in Sessions, Ask(s)
    PROVE  Owed
<1>1. s \in SourceHolders /\ Acquire(s)
  BY SameTypes DEF Ask
<1>2. /\ CamerasStep
      /\ base' \in [SourceHolders -> 0..Len(cameras')]
      /\ base'[s] # 0 /\ \A g \in SourceHolders \ {s} : base'[g] = base[g]
      /\ \A i \in DOMAIN cameras : cameras'[i] = cameras[i]
  BY <1>1, AcquireStep
<1>3. CodersStep
  BY <1>2, SameCoders DEF Ask
<1>4. /\ at' \in [Sessions -> Places]
      /\ \A t \in Sessions : at'[t] = IF t = s THEN "asked" ELSE at[t]
  BY SameTypes DEF Ask, Put, Places
<1>5. at[s] = "new" /\ UNCHANGED <<address, reset, coders, coder, browserVars>>
  BY DEF Ask
<1>6. Holding'
  <2>1. coder[s] = 0
    BY <1>5 DEF ViewersInv, Holding
  <2> QED
    BY <1>2, <1>4, <1>5, <2>1, SameTypes DEF ViewersInv, Holding
<1>7. ViewersInv'
  BY <1>2, <1>3, <1>4, <1>5, <1>6, SameTypes, SameBrowser, RegistryViewersInv
<1>8. Survive
  BY <1>2, <1>5 DEF Survive
<1>9. \A t \in Listed : base'[t] = base[t] /\ coder'[t] = coder[t]
  BY <1>2, <1>5, SameTypes DEF Listed
<1> QED
  BY <1>3, <1>7, <1>8, <1>9, OwedBySurvivors

LEMMA BuildSharedStep ==
    ASSUME ViewersInv, NEW s \in Sessions, BuildShared(s)
    PROVE  Owed
<1>1. at[s] = "asked" /\ UNCHANGED <<address, reset, cameras, base, browserVars>>
  BY DEF BuildShared
<1>2. base[s] # 0 /\ CamerasStep /\ Len(cameras') = Len(cameras)
  BY <1>1 DEF ViewersInv, ViewersTypes, Holding, CamerasStep
<1>3. /\ CodersStep
      /\ coder' \in [Sessions -> 0..Len(coders')]
      /\ coder'[s] # 0 /\ \A t \in Sessions \ {s} : coder'[t] = coder[t]
      /\ \A k \in DOMAIN coders : coders'[k] = coders[k]
  BY <1>2, AcquireTranscodedStep DEF BuildShared
<1>4. /\ at' \in [Sessions -> Places]
      /\ \A t \in Sessions : at'[t] = IF t = s THEN "built" ELSE at[t]
  BY SameTypes DEF BuildShared, Put, Places
<1>5. Holding'
  BY <1>1, <1>3, <1>4 DEF ViewersInv, Holding
<1>6. ViewersInv'
  BY <1>1, <1>2, <1>3, <1>4, <1>5, SameTypes, SameBrowser, RegistryViewersInv
<1>7. Survive
  BY <1>1, <1>3 DEF Survive
<1>8. \A t \in Listed : base'[t] = base[t] /\ coder'[t] = coder[t]
  BY <1>1, <1>3 DEF Listed
<1> QED
  BY <1>3, <1>6, <1>7, <1>8, OwedBySurvivors

LEMMA BuildMoqStep ==
    ASSUME ViewersInv, NEW s \in Sessions, BuildMoq(s)
    PROVE  Owed
<1>1. at[s] = "asked" /\ UNCHANGED <<address, reset, browserVars>>
  BY DEF BuildMoq
<1>2. base[s] # 0
  BY <1>1 DEF ViewersInv, Holding
<1>3. /\ at' \in [Sessions -> Places]
      /\ \A t \in Sessions : at'[t] = IF t = s THEN "built" ELSE at[t]
  BY SameTypes DEF BuildMoq, Put, Places
<1>4. CASE UNCHANGED <<cameras, coders, holdVars>>
  <2>1. UNCHANGED registryVars
    BY <1>4 DEF registryVars
  <2>2. QuietStep
    <3>1. \A t \in Sessions : Onward(at[t], at'[t])
      BY <1>1, <1>3 DEF Onward
    <3> QED
      BY <1>1, <1>3, <3>1, SameTypes, SameBrowser DEF QuietStep
  <2>3. ViewersInv'
    BY <1>4, <2>1, <2>2, QuietViewersInv
  <2>4. CodersStep /\ Survive
    BY <1>4, <2>1, SameRegistry DEF Survive
  <2> QED
    BY <1>4, <2>3, <2>4, OwedBySurvivors DEF holdVars
<1>5. CASE /\ AcquireTranscoded(s) /\ base' = [base EXCEPT ![s] = 0]
           /\ cameras' = [i \in DOMAIN cameras |->
                             [cameras[i] EXCEPT !.alive = @ /\ CameraHeld(i)']]
  <2>1. /\ CamerasStep /\ Len(cameras') = Len(cameras)
        /\ \A i \in DOMAIN cameras :
              cameras[i].alive /\ CameraHeld(i)' => cameras'[i].alive
    BY <1>5, FadedCameras
  <2>2. /\ CodersStep
        /\ coder' \in [Sessions -> 0..Len(coders')]
        /\ coder'[s] # 0 /\ \A t \in Sessions \ {s} : coder'[t] = coder[t]
        /\ \A k \in DOMAIN coders : coders'[k] = coders[k]
    BY <1>2, <1>5, <2>1, AcquireTranscodedStep
  <2>3. /\ base' \in [SourceHolders -> 0..Len(cameras')]
        /\ \A t \in Sessions \ {s} : base'[t] = base[t]
    <3>1. Len(cameras) \in Nat /\ base \in [SourceHolders -> 0..Len(cameras)]
      BY SameTypes DEF ViewersInv, ViewersTypes
    <3> QED
      BY <1>5, <2>1, <3>1, SameTypes
  <2>4. Holding'
    BY <1>3, <2>2, <2>3 DEF ViewersInv, Holding
  <2>5. ViewersInv'
    BY <1>1, <1>3, <2>1, <2>2, <2>3, <2>4, SameTypes, SameBrowser, RegistryViewersInv
  <2>6. Survive
    BY <2>1, <2>2 DEF Survive
  <2>7. \A t \in Listed : base'[t] = base[t] /\ coder'[t] = coder[t]
    BY <1>1, <2>2, <2>3 DEF Listed
  <2> QED
    BY <2>2, <2>5, <2>6, <2>7, OwedBySurvivors
<1> QED
  BY <1>4, <1>5 DEF BuildMoq

LEMMA LeaveStep ==
    ASSUME ViewersInv, NEW s \in Sessions, Leave(s)
    PROVE  Owed
<1>1. UNCHANGED <<address, reset>> /\ Collect
  BY DEF Leave
<1>2. /\ CamerasStep /\ Len(cameras') = Len(cameras)
      /\ CodersStep /\ Len(coders') = Len(coders)
      /\ Survive
  BY <1>1, CollectStep
<1>3. /\ at' \in [Sessions -> Places]
      /\ \A t \in Sessions : at'[t] = IF t = s THEN "gone" ELSE at[t]
  BY SameTypes DEF Leave, Put, Places
<1>4. Len(cameras) \in Nat /\ Len(coders) \in Nat
  BY DEF ViewersInv, ViewersTypes
<1>5. /\ base' \in [SourceHolders -> 0..Len(cameras')]
      /\ \A t \in Sessions : base'[t] = IF t = s THEN 0 ELSE base[t]
  BY <1>2, <1>4, SameTypes DEF Leave
<1>6. /\ coder' \in [Sessions -> 0..Len(coders')]
      /\ \A t \in Sessions : coder'[t] = IF t = s THEN 0 ELSE coder[t]
  BY <1>2, <1>4, SameTypes DEF Leave
<1>7. BrowserTypes'
  <2>1. Unset \in Clock
    BY DEF Unset, Clock
  <2> QED
    BY <2>1, SameTypes DEF Leave, BrowserTypes
<1>8. Holding'
  BY <1>3, <1>5, <1>6 DEF ViewersInv, Holding
<1>9. ViewersInv'
  BY <1>1, <1>2, <1>3, <1>5, <1>6, <1>7, <1>8, SameTypes, RegistryViewersInv
<1>10. \A t \in Listed : at'[t] = "listed" => base'[t] = base[t] /\ coder'[t] = coder[t]
  BY <1>3, <1>5, <1>6 DEF Listed
<1> QED
  BY <1>2, <1>9, <1>10, OwedBySurvivors

\* The recording of the camera lets go.
LEMMA LetGoStep ==
    ASSUME ViewersInv, RestartStops \/ RecordingStops
    PROVE  Owed
<1>1. /\ base' = [base EXCEPT !["rec"] = 0] /\ Collect
      /\ UNCHANGED <<address, coder, at, browserVars>>
      /\ reset' \in {"idle", "web", "moq", "start"}
  BY DEF RestartStops, RecordingStops
<1>2. /\ CamerasStep /\ Len(cameras') = Len(cameras)
      /\ CodersStep /\ Len(coders') = Len(coders)
      /\ Survive
  BY <1>1, CollectStep
<1>3. Len(cameras) \in Nat
  BY DEF ViewersInv, ViewersTypes
<1>4. /\ base' \in [SourceHolders -> 0..Len(cameras')]
      /\ \A t \in Sessions : base'[t] = base[t]
  BY <1>1, <1>2, <1>3, SameTypes
<1>5. Holding'
  BY <1>1, <1>4 DEF ViewersInv, Holding
<1>6. ViewersInv'
  BY <1>1, <1>2, <1>4, <1>5, SameTypes, SameBrowser, RegistryViewersInv
<1>7. \A t \in Listed : base'[t] = base[t] /\ coder'[t] = coder[t]
  BY <1>1, <1>4 DEF Listed
<1> QED
  BY <1>2, <1>6, <1>7, OwedBySurvivors

LEMMA RestartRecordsStep ==
    ASSUME ViewersInv, RestartRecords
    PROVE  Owed
<1>1. UNCHANGED <<address, coders, coder, at, browserVars>> /\ reset' = "idle"
  BY DEF RestartRecords
<1>2. /\ CamerasStep
      /\ base' \in [SourceHolders -> 0..Len(cameras')]
      /\ \A g \in Sessions : base'[g] = base[g]
      /\ \A i \in DOMAIN cameras : cameras'[i] = cameras[i]
  <2>1. CASE Acquire("rec")
    BY <2>1, AcquireStep, SameTypes
  <2>2. CASE UNCHANGED <<cameras, base>>
    BY <1>1, <2>2, SameTypes, SameRegistry DEF registryVars
  <2> QED
    BY <2>1, <2>2 DEF RestartRecords
<1>3. CodersStep
  BY <1>1, <1>2, SameCoders
<1>4. Holding'
  BY <1>1, <1>2 DEF ViewersInv, Holding
<1>5. ViewersInv'
  BY <1>1, <1>2, <1>3, <1>4, SameTypes, SameBrowser, RegistryViewersInv
<1>6. Survive
  BY <1>1, <1>2 DEF Survive
<1>7. \A t \in Listed : base'[t] = base[t] /\ coder'[t] = coder[t]
  BY <1>1, <1>2 DEF Listed
<1> QED
  BY <1>3, <1>5, <1>6, <1>7, OwedBySurvivors

LEMMA DiesStep ==
    ASSUME ViewersInv,
           \/ \E i \in DOMAIN cameras : CameraDies(i)
           \/ \E k \in DOMAIN coders : CoderDies(k)
    PROVE  ViewersInv' /\ UNCHANGED holdVars
<1>1. UNCHANGED <<address, reset, holdVars, at, browserVars>>
  BY DEF CameraDies, CoderDies
<1>2. /\ cameras \in Seq(Camera) /\ coders \in Seq(Transcoder)
      /\ \A k \in DOMAIN coders : coders[k].base \in DOMAIN cameras
  BY DEF ViewersInv, ViewersTypes
<1>3. ASSUME CamerasStep, CodersStep, Len(cameras') = Len(cameras),
             Len(coders') = Len(coders)
      PROVE  ViewersInv'
  <2>1. Holding'
    BY <1>1 DEF ViewersInv, Holding, holdVars
  <2> QED
    BY <1>1, <1>3, <2>1, SameTypes, SameBrowser, RegistryViewersInv DEF holdVars
<1>4. CASE \E i \in DOMAIN cameras : CameraDies(i)
  <2>1. PICK i \in DOMAIN cameras :
          cameras' = [cameras EXCEPT ![i].alive = FALSE] /\ UNCHANGED coders
    BY <1>4 DEF CameraDies
  <2>2. cameras[i] \in Camera
    BY <1>2
  <2>3. [cameras[i] EXCEPT !.alive = FALSE] \in Camera
    BY <2>2 DEF Camera
  <2>4. /\ cameras' \in Seq(Camera) /\ Len(cameras') = Len(cameras)
        /\ \A j \in DOMAIN cameras : cameras'[j].alive => cameras[j].alive
    BY <1>2, <2>1, <2>3
  <2>5. CamerasStep
    BY <2>4 DEF CamerasStep
  <2>6. CamerasStep /\ CodersStep /\ Len(cameras') = Len(cameras) /\ Len(coders') = Len(coders)
    BY <2>1, <2>4, <2>5, SameCoders
  <2> QED
    BY <1>1, <1>3, <2>6
<1>5. CASE \E k \in DOMAIN coders : CoderDies(k)
  <2>1. PICK k \in DOMAIN coders :
          coders' = [coders EXCEPT ![k].alive = FALSE] /\ UNCHANGED cameras
    BY <1>5 DEF CoderDies
  <2>2. coders[k] \in Transcoder
    BY <1>2
  <2>3. [coders[k] EXCEPT !.alive = FALSE] \in Transcoder
    BY <2>2 DEF Transcoder
  <2>4. /\ coders' \in Seq(Transcoder) /\ Len(coders') = Len(coders)
        /\ DOMAIN coders' = DOMAIN coders
    BY <1>2, <2>1, <2>3
  <2>5. \A j \in DOMAIN coders :
          /\ coders'[j].base = coders[j].base
          /\ coders'[j].alive => coders[j].alive
    BY <1>2, <2>1, <2>2
  <2>6. \A j \in DOMAIN coders' : coders'[j].base \in DOMAIN cameras'
    BY <1>2, <2>1, <2>4, <2>5
  <2>7. CodersStep
    BY <2>4, <2>5, <2>6 DEF CodersStep
  <2>8. CamerasStep
    BY <1>2, <2>1 DEF CamerasStep
  <2> QED
    BY <1>1, <1>3, <2>1, <2>4, <2>7, <2>8
<1> QED
  BY <1>1, <1>4, <1>5

LEMMA QuietOwed ==
    ASSUME ViewersInv, QuietStep, UNCHANGED <<registryVars, holdVars>>
    PROVE  ViewersInv' /\ UNCHANGED holdVars
  BY QuietViewersInv

LEMMA NextOwed ==
    ASSUME ViewersInv, [ViewersNext]_viewersVars
    PROVE  ViewersInv' /\ (StillServed \/ UNCHANGED holdVars)
<1>1. ASSUME NEW s \in Sessions,
             \/ Ask(s) \/ BuildShared(s) \/ BuildMoq(s) \/ NegotiationFails(s) \/ Stop(s)
      PROVE  Owed
  BY <1>1, AskStep, BuildSharedStep, BuildMoqStep, LeaveStep DEF NegotiationFails, Stop
<1>2. CASE RestartStops \/ RestartRecords \/ RecordingStops
  BY <1>2, LetGoStep, RestartRecordsStep DEF Owed
<1>3. ASSUME NEW s \in Sessions,
             \/ Register(s) \/ LinkUp(s) \/ LinkDrops(s) \/ Connected(s)
             \/ Disconnected(s) \/ Failed(s) \/ Rtcp(s) \/ Time(s)
      PROVE  ViewersInv' /\ UNCHANGED holdVars
  BY <1>3, BrowserStep, QuietOwed
<1>4. CASE \/ \E s \in Sessions : AskFails(s) \/ BuildDirect(s) \/ Destroy(s)
           \/ Reap(Web) \/ Reap(Moq) \/ (\E a \in Addresses : Edit(a)) \/ ResetMoq
  BY <1>4, MovingStep, QuietOwed
<1>5. CASE UNCHANGED viewersVars
  <2>1. QuietStep /\ UNCHANGED <<registryVars, holdVars>>
    BY <1>5, SameTypes, SameBrowser DEF viewersVars, QuietStep, Onward
  <2> QED
    BY <2>1, QuietOwed
<1>6. CASE \E s \in Sessions :
              \/ Ask(s) \/ AskFails(s) \/ BuildShared(s) \/ BuildDirect(s) \/ BuildMoq(s)
              \/ NegotiationFails(s) \/ Register(s)
              \/ LinkUp(s) \/ LinkDrops(s)
              \/ Connected(s) \/ Disconnected(s) \/ Failed(s) \/ Rtcp(s)
              \/ Time(s) \/ Destroy(s) \/ Stop(s)
  BY <1>1, <1>3, <1>4, <1>6 DEF Owed
<1> QED
  BY <1>2, <1>4, <1>5, <1>6, DiesStep DEF ViewersNext

(* What only the last of a list can be, at most one is. *)
LEMMA LastIsOnlyOne ==
    ASSUME ViewersInv
    PROVE  ViewersTypeOK /\ OneTranscoder /\ (CodecStays => OneConnection)
<1>1. ViewersTypeOK
  <2>1. \A i \in DOMAIN cameras : cameras[i] \in [address : Addresses, alive : BOOLEAN]
    <3>1. \A i \in DOMAIN cameras : cameras[i] \in Camera
      BY DEF ViewersInv, ViewersTypes
    <3> QED
      BY <3>1 DEF Camera
  <2>2. \A k \in DOMAIN coders : coders[k].base \in DOMAIN cameras /\ coders[k].alive \in BOOLEAN
    <3>1. \A k \in DOMAIN coders : coders[k] \in Transcoder /\ coders[k].base \in DOMAIN cameras
      BY DEF ViewersInv, ViewersTypes
    <3> QED
      BY <3>1 DEF Transcoder
  <2>3. \A s \in Sessions :
          /\ at[s] \in {"new", "gone"} => base[s] = 0 /\ coder[s] = 0
          /\ at[s] \in {"asked", "built", "listed"} => base[s] # 0 \/ coder[s] # 0
    BY DEF ViewersInv, Holding
  <2> QED
    BY <2>1, <2>2, <2>3 DEF ViewersInv, ViewersTypes, ViewersTypeOK, Places, Clock
<1>2. \A S, x : S \subseteq {x} => Cardinality(S) <= 1
  <2> SUFFICES ASSUME NEW S, NEW x, S \subseteq {x} PROVE Cardinality(S) <= 1
    OBVIOUS
  <2>1. IsFiniteSet({x}) /\ Cardinality({x}) = 1
    BY FS_Singleton
  <2> QED
    BY <2>1, FS_Subset
<1>3. CodecStays => Live \subseteq {Len(cameras)}
  BY DEF Live, ViewersInv, LastLives
<1>4. {k \in DOMAIN coders : CoderHeld(k) /\ CoderAlive(k)} \subseteq {Len(coders)}
  BY DEF ViewersInv, LastLives
<1>5. CodecStays => OneConnection
  BY <1>2, <1>3 DEF OneConnection
<1>6. OneTranscoder
  BY <1>2, <1>4 DEF OneTranscoder
<1> QED
  BY <1>1, <1>5, <1>6

(* Whatever viewers, recording and AI come and go and whatever sources die, a *)
(* camera whose codec stays has one live connection and one live transcoder   *)
(* (CameraSourceRegistry.hpp, acquire and acquireTranscoded), for any number  *)
(* of viewers.                                                              *)
THEOREM ConnectionsAreAlwaysShared ==
    ASSUME CodecStays
    PROVE  ViewersSpec => []ConnectionsAreShared
<1>1. ViewersInv /\ [ViewersNext]_viewersVars => ViewersInv'
  BY NextOwed
<1>2. ViewersInv => ConnectionsAreShared
  BY LastIsOnlyOne DEF ConnectionsAreShared
<1> QED
  BY InitViewersInv, <1>1, <1>2, PTL DEF ViewersSpec

(* Its H265 is decoded once for everybody even while its codec changes: the   *)
(* transcoder of the old connection is dead or is the one that is shared.    *)
THEOREM TranscoderIsAlwaysShared == ViewersSpec => []OneTranscoder
<1>1. ViewersInv /\ [ViewersNext]_viewersVars => ViewersInv'
  BY NextOwed
<1>2. ViewersInv => OneTranscoder
  BY LastIsOnlyOne
<1> QED
  BY InitViewersInv, <1>1, <1>2, PTL DEF ViewersSpec

(* Whoever lets go of a source a session uses, be it the viewer or the        *)
(* recording that opened it, leaves it running for that session; a source     *)
(* dies under a viewer only of itself (releases of the shared pointers in     *)
(* WebRtcService, MoqFeedService and the recording).                        *)
THEOREM NeverPulledAway == ViewersSpec => NotPulledAway
<1>1. ViewersInv /\ [ViewersNext]_viewersVars => ViewersInv'
  BY NextOwed
<1>2. ViewersInv /\ [ViewersNext]_viewersVars =>
        [\A s \in Listed : at'[s] = "listed" /\ SourceAlive(s) /\ ~SourceAlive(s)'
            => UNCHANGED holdVars]_viewersVars
  BY NextOwed DEF StillServed
<1> QED
  BY InitViewersInv, <1>1, <1>2, PTL DEF ViewersSpec, NotPulledAway
=============================================================================
