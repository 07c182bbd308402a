--------------------------- MODULE ConnectProofs ----------------------------
(***************************************************************************)
(* Proofs about netresolve_connect (Connect), for any number of paths of   *)
(* either family and any number of calls of netresolve_connect_next.       *)
(*                                                                         *)
(* OrderInv says what a loop of enable_sockets has left behind when the    *)
(* loops it called return to it, TimerInv relates the watches, the timers  *)
(* and the loops.                                                          *)
(***************************************************************************)
EXTENDS Listen, WellFoundedInduction, TLAPS

(* The lowest of some numbers is one of them, and none is lower.           *)
LEMMA FirstIsLeast ==
    ASSUME NEW S \in SUBSET Nat, S # {}
    PROVE  First(S) \in S /\ \A j \in S : First(S) <= j
<1> DEFINE R == {ss \in Nat \X Nat : ss[1] < ss[2]}
<1>1. IsWellFoundedOn(R, Nat)
  BY NatLessThanWellFounded, Zenon DEF OpToRel
<1>2. PICK i \in S : \A j \in S : ~(<<j, i>> \in R)
  <2> HIDE DEF R
  <2> QED  BY <1>1, WFMin, Zenon
<1>3. ASSUME NEW j \in S PROVE i <= j
  <2>1. ~(<<j, i>>[1] < <<j, i>>[2])
    BY <1>2, Zenon
  <2> QED  BY <2>1
<1> QED  BY <1>3, Zenon DEF First

(* What the proofs need of sequences: the stack of the loops is one.       *)
LEMMA Sequence ==
    ASSUME NEW S, NEW s \in Seq(S)
    PROVE  /\ Len(s) \in Nat /\ DOMAIN s = 1..Len(s)
           /\ \A i \in 1..Len(s) : s[i] \in S
           /\ s # <<>> => Len(s) \in Nat \ {0}
OBVIOUS

(* A loop goes on the stack.                                               *)
LEMMA Appended ==
    ASSUME NEW S, NEW s \in Seq(S), NEW e \in S
    PROVE  /\ Append(s, e) \in Seq(S) /\ Len(Append(s, e)) = Len(s) + 1
           /\ \A i \in 1..Len(s) : Append(s, e)[i] = s[i]
           /\ Append(s, e)[Len(s) + 1] = e
OBVIOUS

(* A loop on the stack goes on.                                            *)
LEMMA Replaced ==
    ASSUME NEW S, NEW s \in Seq(S), NEW n \in 1..Len(s), NEW e \in S
    PROVE  /\ [s EXCEPT ![n] = e] \in Seq(S) /\ Len([s EXCEPT ![n] = e]) = Len(s)
           /\ \A i \in 1..Len(s) : [s EXCEPT ![n] = e][i] = IF i = n THEN e ELSE s[i]
OBVIOUS

(* A loop of enable_sockets: the path it is at, and the families it has    *)
(* met.                                                                    *)
Frame == [at : 1..End, seen : SUBSET Families]

(* The types of what netresolve_connect keeps, for internet sockets.       *)
Types ==
    /\ mode \in Mode /\ ~mode.local
    /\ phase \in {"resolving", "connecting", "freed"}
    /\ state \in [Path -> SocketState]
    /\ watch \in SUBSET Path
    /\ timeout \in BOOLEAN /\ priority \in BOOLEAN /\ skip \in BOOLEAN
    /\ stack \in Seq(Frame)
    /\ owed \in Int /\ asked \in Nat

(* InOrder, of the paths as they are in s.                                 *)
InOrderOf(s) ==
    \A p, q \in Path :
        s[p] \in {"SCHEDULED", "READY"} /\ q < p /\ (mode.sequential \/ Family[q] = Family[p])
            => s[q] = "DONE"

(* What a loop of enable_sockets has left behind is over, or another path  *)
(* of its family was met; a loop that met none is at the first path.       *)
FrameFits(f, s) ==
    /\ ~mode.sequential => \A q \in Path : q < f.at => Family[q] \in f.seen \/ s[q] = "DONE"
    /\ f.seen = {} => f.at = 1
    /\ mode.sequential /\ f.at # End => f.seen = {}

(* All loops that are under way fit the paths as they are.                 *)
LoopsFit == \A i \in DOMAIN stack : FrameFits(stack[i], state)

(* Only connections under way are watched.                                 *)
Watched(w, s) == \A p \in w : s[p] = "SCHEDULED"

(* The inductive invariant behind InOrder: the order alone is not kept by  *)
(* a turn of an outer loop, which goes on from where it was after the      *)
(* loops it called have changed the paths.                                 *)
OrderInv == Types /\ InOrderOf(state) /\ LoopsFit /\ Watched(watch, state)

(* The search of pickup_connected_socket stops at the first path that is   *)
(* ready or, unless skip_scheduled is set, scheduled.                      *)
LEMMA FoundIsFirst ==
    ASSUME NEW s \in [Path -> SocketState], NEW k \in BOOLEAN,
           \E p \in Path : s[p] = "READY"
    PROVE  /\ Found(s, k) \in Path
           /\ s[Found(s, k)] = "READY" \/ (s[Found(s, k)] = "SCHEDULED" /\ ~k)
           /\ \A q \in Path : q < Found(s, k) => s[q] # "READY" /\ (s[q] = "SCHEDULED" => k)
<1> DEFINE T == {p \in Path : s[p] = "READY" \/ (s[p] = "SCHEDULED" /\ ~k)} \cup {End}
<1>1. T \in SUBSET Nat /\ T # {}
  BY ConnectAssumption DEF Path, End
<1>2. Found(s, k) = First(T)
  BY Zenon DEF Found
<1>3. First(T) \in T /\ \A j \in T : First(T) <= j
  <2> HIDE DEF T
  <2> QED  BY <1>1, FirstIsLeast, Zenon
<1>4. \A p \in Path : p < End
  BY ConnectAssumption DEF Path, End
<1>5. First(T) # End
  <2>1. PICK r \in Path : r \in T
    BY Zenon
  <2>2. End \in Nat /\ r \in Nat /\ r < End
    BY ConnectAssumption DEF Path, End
  <2> HIDE DEF T
  <2>3. First(T) <= r
    BY <1>3, <2>1, Zenon
  <2> QED  BY <2>2, <2>3
<1>6. First(T) \in Nat /\ \A q \in Path : q \in Nat
  <2>1. First(T) \in Nat
    <3> HIDE DEF T
    <3> QED  BY <1>1, <1>3, Zenon
  <2> QED  BY <2>1, ConnectAssumption DEF Path
<1>7. ASSUME NEW q \in Path, q < First(T) PROVE q \notin T
  <2> HIDE DEF T
  <2> QED  BY <1>3, <1>6, <1>7
<1>8. First(T) \in Path /\ (s[First(T)] = "READY" \/ (s[First(T)] = "SCHEDULED" /\ ~k))
  BY <1>3, <1>5, Zenon
<1> QED  BY <1>2, <1>7, <1>8, Zenon

(* What pickup_connected_socket does: either the first ready path, before  *)
(* which none is waited for, is delivered, or the loop begins anew.        *)
LEMMA PickupCases ==
    ASSUME NEW s \in [Path -> SocketState], NEW w, NEW t, NEW k \in BOOLEAN, NEW frames, NEW more,
           pickup_connected_socket(s, w, t, k, frames, more)
    PROVE  \/ \E found \in Path :
                 /\ s[found] = "READY"
                 /\ \A q \in Path : q < found /\ s[q] = "SCHEDULED" => k
                 /\ deliver(s, w, k, found, frames, more)
           \/ /\ ~more
              /\ state' = s /\ watch' = w /\ timeout' = t /\ skip' = k
              /\ priority' = (priority \/ \E p \in Path : s[p] = "READY")
              /\ k => ~\E p \in Path : s[p] = "READY"
              /\ stack' = Append(frames, Loop)
              /\ owed' = owed /\ asked' = asked /\ fault' = fault
<1>1. CASE (\E p \in Path : s[p] = "READY") /\ s[Found(s, k)] = "READY"
  <2>1. deliver(s, w, k, Found(s, k), frames, more)
    BY <1>1, Zenon DEF pickup_connected_socket
  <2> QED  BY <1>1, <2>1, FoundIsFirst, Zenon
<1>2. CASE ~((\E p \in Path : s[p] = "READY") /\ s[Found(s, k)] = "READY")
  <2>1. k => ~\E p \in Path : s[p] = "READY"
    BY <1>2, FoundIsFirst, Zenon
  <2> QED  BY <1>2, <2>1, Zenon DEF pickup_connected_socket
<1> QED  BY <1>1, <1>2, Zenon

(* The loop moves on to the next path, in its order.                       *)
Turn == First(Candidates(stack[Len(stack)]))

(* The stack when the innermost loop has moved past that path.             *)
TurnFrames ==
    [stack EXCEPT ![Len(stack)] =
        [at |-> After(Turn), seen |-> stack[Len(stack)].seen \cup {Family[Turn]}]]

(* The path a loop attempts or resumes is the first of those it may: all   *)
(* earlier ones of its family, in sequential mode all earlier ones, are    *)
(* over.                                                                   *)
LEMMA TurnFacts ==
    ASSUME OrderInv, stack # <<>>, Candidates(stack[Len(stack)]) # {}
    PROVE  /\ Len(stack) \in DOMAIN stack /\ stack[Len(stack)] \in Frame
           /\ Turn \in Path /\ state[Turn] # "DONE"
           /\ stack[Len(stack)].at <= Turn /\ Family[Turn] \notin stack[Len(stack)].seen
           /\ \A q \in Path : q < Turn /\ q >= stack[Len(stack)].at /\ Family[q] \notin stack[Len(stack)].seen
                  => state[q] = "DONE"
           /\ \A q \in Path : q < Turn /\ (mode.sequential \/ Family[q] = Family[Turn]) => state[q] = "DONE"
           /\ mode.sequential => stack[Len(stack)] = Loop
<1> DEFINE f == stack[Len(stack)]
           C == Candidates(f)
<1>1. Len(stack) \in DOMAIN stack /\ f \in Frame
  BY DEF OrderInv, Types
<1>2. C \in SUBSET Path /\ C \in SUBSET Nat
  BY ConnectAssumption DEF Candidates, Path
<1>3. Turn \in C /\ \A j \in C : Turn <= j
  <2> HIDE DEF C
  <2>1. Turn = First(C)
    BY Zenon DEF Turn, C
  <2> QED  BY <1>2, <2>1, FirstIsLeast, Zenon DEF C
<1>4. Turn \in Path /\ state[Turn] # "DONE" /\ f.at <= Turn /\ Family[Turn] \notin f.seen
  BY <1>3, <1>1, Zenon DEF Candidates, Frame, OrderInv, Types
<1>5. ASSUME NEW q \in Path, q < Turn PROVE q \notin C
  BY <1>2, <1>3, <1>4, <1>5
<1>6. ASSUME NEW q \in Path, q < Turn, q >= f.at, Family[q] \notin f.seen PROVE state[q] = "DONE"
  BY <1>5, <1>6, Zenon DEF Candidates
<1>7. FrameFits(f, state)
  BY <1>1, Zenon DEF OrderInv, LoopsFit
<1>8. f.at \in 1..End /\ f.seen \in SUBSET Families /\ Turn \in 1..Paths /\ End = Paths + 1 /\ Paths \in Nat
  BY <1>1, <1>4, ConnectAssumption, Zenon DEF Frame, Path, End
<1>9. mode.sequential => f.at = 1 /\ f.seen = {}
  <2>1. f.at # End
    BY <1>4, <1>8
  <2> QED  BY <1>7, <2>1, Zenon DEF FrameFits
<1>10. mode.sequential => f = Loop
  BY <1>1, <1>9, Zenon DEF Loop, Frame
<1>11. ASSUME NEW q \in Path, q < Turn, mode.sequential \/ Family[q] = Family[Turn] PROVE state[q] = "DONE"
  <2>1. q \in 1..Paths
    BY Zenon DEF Path
  <2>2. CASE mode.sequential
    BY <1>6, <1>9, <1>11, <2>1, <2>2
  <2>3. CASE ~mode.sequential /\ q < f.at
    BY <1>4, <1>7, <1>11, <2>3, Zenon DEF FrameFits
  <2>4. CASE ~mode.sequential /\ ~(q < f.at)
    <3>1. q >= f.at
      BY <2>1, <2>4, <1>8
    <3> QED  BY <1>4, <1>6, <1>11, <2>4, <3>1, Zenon
  <2> QED  BY <2>2, <2>3, <2>4, Zenon
<1> QED  BY <1>1, <1>4, <1>6, <1>10, <1>11, Zenon

(* When a path is about to be attempted, no other of its family, and in    *)
(* sequential mode no other at all, is scheduled or ready.                 *)
LEMMA TurnIsAlone ==
    ASSUME OrderInv, stack # <<>>, Candidates(stack[Len(stack)]) # {}, state[Turn] = "NONE",
           NEW q \in Path, state[q] \in {"SCHEDULED", "READY"}
    PROVE  ~mode.sequential /\ Family[q] # Family[Turn]
<1>1. Turn \in Path /\ Turn # q
  BY TurnFacts, Zenon
<1>2. q < Turn \/ Turn < q
  BY <1>1, ConnectAssumption DEF Path
<1>3. q < Turn /\ (mode.sequential \/ Family[q] = Family[Turn]) => state[q] = "DONE"
  BY TurnFacts, Zenon
<1>4. Turn < q /\ (mode.sequential \/ Family[Turn] = Family[q]) => state[Turn] = "DONE"
  BY <1>1, Zenon DEF OrderInv, InOrderOf
<1> QED  BY <1>2, <1>3, <1>4, Zenon

(* A loop that moves on still fits: what it passes over is over, or of a   *)
(* family it has met.                                                      *)
LEMMA TurnFramesFit ==
    ASSUME OrderInv, stack # <<>>, Candidates(stack[Len(stack)]) # {}
    PROVE  /\ TurnFrames \in Seq(Frame) /\ Len(TurnFrames) = Len(stack) /\ DOMAIN TurnFrames = DOMAIN stack
           /\ TurnFrames[Len(stack)] =
                  [at |-> After(Turn), seen |-> stack[Len(stack)].seen \cup {Family[Turn]}]
           /\ \A i \in DOMAIN stack : i # Len(stack) => TurnFrames[i] = stack[i]
           /\ \A i \in DOMAIN TurnFrames : FrameFits(TurnFrames[i], state)
<1> DEFINE f == stack[Len(stack)]
           g == [at |-> After(Turn), seen |-> f.seen \cup {Family[Turn]}]
<1>1. Len(stack) \in DOMAIN stack /\ f \in Frame /\ Turn \in Path /\ state[Turn] # "DONE"
  BY TurnFacts, Zenon
<1>2. After(Turn) \in 1..End /\ (mode.sequential => After(Turn) = End) /\ (~mode.sequential => After(Turn) = Turn + 1)
  BY <1>1, ConnectAssumption DEF After, End, Path
<1>3. g \in Frame
  <2>1. Family[Turn] \in Families /\ f.seen \in SUBSET Families
    BY <1>1, ConnectAssumption, Zenon DEF Frame
  <2> QED  BY <1>2, <2>1, Zenon DEF Frame
<1>4. TurnFrames \in Seq(Frame) /\ Len(TurnFrames) = Len(stack) /\ DOMAIN TurnFrames = DOMAIN stack
  BY <1>1, <1>3, Replaced DEF TurnFrames, OrderInv, Types
<1>5. TurnFrames[Len(stack)] = g /\ \A i \in DOMAIN stack : i # Len(stack) => TurnFrames[i] = stack[i]
  BY <1>1, Zenon DEF TurnFrames
<1>6. FrameFits(g, state)
  <2>1. ASSUME ~mode.sequential, NEW q \in Path, q < g.at PROVE Family[q] \in g.seen \/ state[q] = "DONE"
    <3>1. q <= Turn
      BY <1>1, <1>2, <2>1, ConnectAssumption DEF Path
    <3>2. CASE q = Turn
      BY <3>2, Zenon
    <3>3. CASE q # Turn
      <4>1. q < Turn
        BY <1>1, <3>1, <3>3, ConnectAssumption DEF Path
      <4>2. q >= f.at \/ q < f.at
        BY <1>1, ConnectAssumption DEF Path, Frame, End
      <4>3. q < f.at => Family[q] \in f.seen \/ state[q] = "DONE"
        BY <1>1, <2>1, Zenon DEF OrderInv, LoopsFit, FrameFits
      <4>4. q >= f.at /\ Family[q] \notin f.seen => state[q] = "DONE"
        BY <4>1, TurnFacts, Zenon
      <4> QED  BY <4>2, <4>3, <4>4, Zenon
    <3> QED  BY <3>2, <3>3, Zenon
  <2>2. g.seen # {}
    BY Zenon
  <2>3. mode.sequential => g.at = End
    BY <1>2, Zenon
  <2> QED  BY <2>1, <2>2, <2>3, Zenon DEF FrameFits
<1>7. ASSUME NEW i \in DOMAIN stack PROVE FrameFits(TurnFrames[i], state)
  <2>1. CASE i = Len(stack)
    BY <1>5, <1>6, <2>1, Zenon
  <2>2. CASE i # Len(stack)
    BY <1>5, <2>2, Zenon DEF OrderInv, LoopsFit
  <2> QED  BY <2>1, <2>2, Zenon
<1> QED  BY <1>4, <1>5, <1>7, Zenon

(* A loop that fits does so when more paths are over.                      *)
LEMMA FitsLater ==
    ASSUME NEW s, NEW s2, \A q \in Path : s[q] = "DONE" => s2[q] = "DONE", NEW f, FrameFits(f, s)
    PROVE  FrameFits(f, s2)
BY Zenon DEF FrameFits

(* The order is kept when a path changes all of whose predecessors are     *)
(* over.                                                                   *)
LEMMA OrderAttempt ==
    ASSUME NEW s \in [Path -> SocketState], InOrderOf(s), NEW p \in Path, s[p] # "DONE",
           \A q \in Path : q < p /\ (mode.sequential \/ Family[q] = Family[p]) => s[q] = "DONE",
           NEW v \in SocketState
    PROVE  InOrderOf([s EXCEPT ![p] = v])
<1> DEFINE s2 == [s EXCEPT ![p] = v]
<1> SUFFICES ASSUME NEW a \in Path, NEW b \in Path,
                    s2[a] \in {"SCHEDULED", "READY"}, b < a, mode.sequential \/ Family[b] = Family[a]
             PROVE  s2[b] = "DONE"
  BY Zenon DEF InOrderOf
<1>1. CASE a = p
  BY <1>1, ConnectAssumption, Zenon DEF Path
<1>2. CASE a # p
  <2>1. s[b] = "DONE"
    BY <1>2, Zenon DEF InOrderOf
  <2> QED  BY <2>1, Zenon
<1> QED  BY <1>1, <1>2, Zenon

(* The order is kept when paths are given up or delivered.                 *)
LEMMA OrderOver ==
    ASSUME NEW s \in [Path -> SocketState], InOrderOf(s), NEW s2 \in [Path -> SocketState],
           \A q \in Path : s2[q] = s[q] \/ s2[q] = "DONE"
    PROVE  InOrderOf(s2)
BY Zenon DEF InOrderOf

(* A call of enable_sockets adds a loop that fits.                         *)
LEMMA PushLoop ==
    ASSUME NEW frames \in Seq(Frame), NEW s, \A i \in DOMAIN frames : FrameFits(frames[i], s)
    PROVE  /\ Append(frames, Loop) \in Seq(Frame)
           /\ \A i \in DOMAIN Append(frames, Loop) : FrameFits(Append(frames, Loop)[i], s)
<1>1. Loop \in Frame
  BY ConnectAssumption DEF Loop, Frame, End
<1>2. FrameFits(Loop, s)
  BY ConnectAssumption DEF FrameFits, Loop, Path
<1>3. /\ Append(frames, Loop) \in Seq(Frame)
      /\ Len(Append(frames, Loop)) = Len(frames) + 1
      /\ \A i \in 1..Len(frames) : Append(frames, Loop)[i] = frames[i]
      /\ Append(frames, Loop)[Len(frames) + 1] = Loop
  BY <1>1, Appended
<1>4. DOMAIN frames = 1..Len(frames) /\ Len(frames) \in Nat
      /\ DOMAIN Append(frames, Loop) = 1..(Len(frames) + 1)
  BY <1>3, Sequence, Zenon
<1>5. ASSUME NEW i \in 1..(Len(frames) + 1) PROVE FrameFits(Append(frames, Loop)[i], s)
  <2>1. CASE i = Len(frames) + 1
    BY <1>2, <1>3, <2>1, Zenon
  <2>2. CASE i \in 1..Len(frames)
    BY <1>3, <1>4, <2>2, Zenon
  <2> QED  BY <1>4, <2>1, <2>2
<1> QED  BY <1>3, <1>4, <1>5, Zenon

(* Delivering a socket, with all the application does in its callback,     *)
(* keeps the order.                                                        *)
LEMMA DeliverOrder ==
    ASSUME OrderInv, mode' = mode, phase' = phase,
           NEW s \in [Path -> SocketState], InOrderOf(s), NEW k \in BOOLEAN, NEW w,
           NEW frames \in Seq(Frame), \A i \in DOMAIN frames : FrameFits(frames[i], s),
           NEW found \in Path, NEW more \in BOOLEAN, deliver(s, w, k, found, frames, more)
    PROVE  OrderInv'
<1>1. CASE UNCHANGED <<state, watch, timeout, priority, skip, stack, owed, asked>>
  BY <1>1, Zenon DEF OrderInv, Types, LoopsFit, InOrderOf, FrameFits, Watched
<1>2. CASE /\ state' = [s EXCEPT ![found] = "DONE"]
           /\ watch' = {}
           /\ skip' = IF priority THEN FALSE ELSE k
           /\ timeout' = FALSE /\ priority' = FALSE
           /\ callback(more, frames)
  <2> DEFINE s2 == [s EXCEPT ![found] = "DONE"]
  <2>1. s2 \in [Path -> SocketState] /\ \A q \in Path : s2[q] = s[q] \/ s2[q] = "DONE"
    BY Zenon DEF SocketState
  <2>2. InOrderOf(s2)
    BY <2>1, OrderOver, Zenon
  <2>3. \A i \in DOMAIN frames : FrameFits(frames[i], s2)
    BY <2>1, FitsLater, Zenon
  <2>4. /\ stack' \in Seq(Frame) /\ \A i \in DOMAIN stack' : FrameFits(stack'[i], s2)
        /\ owed' \in Int /\ asked' \in Nat
    <3>1. stack' = IF more THEN Append(frames, Loop) ELSE frames
      BY <1>2, Zenon DEF callback
    <3>2. owed' \in Int /\ asked' \in Nat
      BY <1>2 DEF callback, OrderInv, Types
    <3> HIDE DEF s2
    <3>3. CASE more
      BY <2>3, <3>1, <3>2, <3>3, PushLoop, Zenon
    <3>4. CASE ~more
      BY <2>3, <3>1, <3>2, <3>4, Zenon
    <3> QED  BY <3>3, <3>4, Zenon
  <2>5. Types'
    <3>1. timeout' \in BOOLEAN /\ priority' \in BOOLEAN /\ skip' \in BOOLEAN
      BY <1>2, Zenon
    <3> QED  BY <1>2, <2>1, <2>4, <3>1, ZenonT(30) DEF OrderInv, Types
  <2>6. (InOrderOf(state) /\ LoopsFit /\ Watched(watch, state))'
    <3> HIDE DEF s2
    <3>1. state' = s2 /\ watch' = {}
      BY <1>2, Zenon DEF s2
    <3> QED  BY <2>2, <2>4, <3>1, Zenon DEF InOrderOf, LoopsFit, FrameFits, Watched
  <2> QED  BY <2>5, <2>6, Zenon DEF OrderInv
<1> QED  BY <1>1, <1>2, Zenon DEF deliver

(* pickup_connected_socket keeps the order.                                *)
LEMMA PickupOrder ==
    ASSUME OrderInv, mode' = mode, phase' = phase,
           NEW s \in [Path -> SocketState], InOrderOf(s), NEW k \in BOOLEAN,
           NEW w \in SUBSET Path, Watched(w, s), NEW t \in BOOLEAN,
           NEW frames \in Seq(Frame), \A i \in DOMAIN frames : FrameFits(frames[i], s),
           NEW more \in BOOLEAN, pickup_connected_socket(s, w, t, k, frames, more)
    PROVE  OrderInv'
<1>1. ASSUME NEW found \in Path, deliver(s, w, k, found, frames, more) PROVE OrderInv'
  BY <1>1, DeliverOrder, Zenon
<1>2. CASE /\ state' = s /\ watch' = w /\ timeout' = t /\ skip' = k
           /\ priority' = (priority \/ \E p \in Path : s[p] = "READY")
           /\ stack' = Append(frames, Loop)
           /\ owed' = owed /\ asked' = asked /\ fault' = fault
  <2>1. stack' \in Seq(Frame) /\ \A i \in DOMAIN stack' : FrameFits(stack'[i], s)
    BY <1>2, PushLoop, Zenon
  <2>2. priority' \in BOOLEAN
    BY <1>2, Zenon
  <2>3. Types'
    BY <1>2, <2>1, <2>2, Zenon DEF OrderInv, Types
  <2>4. (InOrderOf(state) /\ LoopsFit /\ Watched(watch, state))'
    BY <1>2, <2>1, Zenon DEF InOrderOf, LoopsFit, FrameFits, Watched
  <2> QED  BY <2>3, <2>4, Zenon DEF OrderInv
<1> QED  BY <1>1, <1>2, PickupCases, SMTT(30)

(* connect_check keeps the order, be the attempt under way, over or        *)
(* successful.                                                             *)
LEMMA CheckOrder ==
    ASSUME OrderInv, mode' = mode, phase' = phase,
           NEW p \in Path, state[p] # "DONE",
           \A q \in Path : q < p /\ (mode.sequential \/ Family[q] = Family[p]) => state[q] = "DONE",
           NEW e, NEW t \in BOOLEAN,
           NEW frames \in Seq(Frame), \A i \in DOMAIN frames : FrameFits(frames[i], state),
           NEW more \in BOOLEAN, connect_check(p, e, t, frames, more)
    PROVE  OrderInv'
<1>1. CASE e = "EINPROGRESS"
  <2> DEFINE s == [state EXCEPT ![p] = "SCHEDULED"]
  <2>1. s \in [Path -> SocketState] /\ \A q \in Path : state[q] = "DONE" => s[q] = "DONE"
    BY Zenon DEF SocketState, OrderInv, Types
  <2>2. InOrderOf(s)
    BY OrderAttempt, Zenon DEF OrderInv, Types, SocketState
  <2>3. \A i \in DOMAIN frames : FrameFits(frames[i], s)
    BY <2>1, FitsLater, Zenon
  <2>4. state' = s /\ watch' = watch \cup {p} /\ timeout' = t /\ stack' = frames
        /\ UNCHANGED <<priority, skip, owed, asked, fault>>
    BY <1>1, Zenon DEF connect_check
  <2> HIDE DEF s
  <2>5. Types'
    BY <2>1, <2>4, Zenon DEF OrderInv, Types
  <2>6. (InOrderOf(state) /\ LoopsFit /\ Watched(watch, state))'
    <3>1. Watched(watch \cup {p}, s)
      BY Zenon DEF OrderInv, Types, Watched, s
    <3> QED  BY <2>2, <2>3, <2>4, <3>1, Zenon DEF InOrderOf, LoopsFit, FrameFits, Watched
  <2> QED  BY <2>5, <2>6, Zenon DEF OrderInv
<1>2. CASE e # "EINPROGRESS"
  <2> DEFINE s == [state EXCEPT ![p] = IF e = "connected" THEN "READY" ELSE "DONE"]
  <2>1. s \in [Path -> SocketState] /\ \A q \in Path : state[q] = "DONE" => s[q] = "DONE"
    BY Zenon DEF SocketState, OrderInv, Types
  <2>2. InOrderOf(s)
    <3>1. (IF e = "connected" THEN "READY" ELSE "DONE") \in SocketState
      BY Zenon DEF SocketState
    <3> QED  BY <3>1, OrderAttempt, Zenon DEF OrderInv, Types
  <2>3. \A i \in DOMAIN frames : FrameFits(frames[i], s)
    BY <2>1, FitsLater, Zenon
  <2>4. pickup_connected_socket(s, watch \ {p}, t, skip, frames, more)
    BY <1>2, Zenon DEF connect_check
  <2>5. watch \ {p} \in SUBSET Path /\ Watched(watch \ {p}, s) /\ skip \in BOOLEAN
    BY Zenon DEF OrderInv, Types, Watched
  <2> HIDE DEF s
  <2> QED  BY <2>1, <2>2, <2>3, <2>4, <2>5, PickupOrder, Zenon
<1> QED  BY <1>1, <1>2, Zenon

(* A turn of the loop of enable_sockets keeps the order.                   *)
LEMMA OrderTurn ==
    ASSUME OrderInv, NEW e, NEW more \in BOOLEAN, enable_sockets(e, more)
    PROVE  OrderInv'
<1>1. stack # <<>> /\ Candidates(stack[Len(stack)]) # {} /\ mode' = mode /\ phase' = phase
  BY Zenon DEF enable_sockets
<1>2. \/ state[Turn] = "NONE" /\ connect_check(Turn, e, TRUE, TurnFrames, more)
      \/ /\ watch' = resume(Turn) /\ timeout' = TRUE /\ stack' = TurnFrames
         /\ UNCHANGED <<state, priority, skip, owed, asked, fault>>
  BY Zenon DEF enable_sockets, Turn, TurnFrames, Met, OrderInv, Types
<1>3. CASE connect_check(Turn, e, TRUE, TurnFrames, more)
  BY <1>1, <1>3, TurnFacts, TurnFramesFit, CheckOrder, ZenonT(90)
<1>4. CASE /\ watch' = resume(Turn) /\ timeout' = TRUE /\ stack' = TurnFrames
           /\ UNCHANGED <<state, priority, skip, owed, asked, fault>>
  <2>1. Turn \in Path /\ TurnFrames \in Seq(Frame) /\ \A i \in DOMAIN TurnFrames : FrameFits(TurnFrames[i], state)
    BY <1>1, TurnFacts, TurnFramesFit, Zenon
  <2>2. Types'
    BY <1>1, <1>4, <2>1, Zenon DEF OrderInv, Types, resume
  <2>3. (InOrderOf(state) /\ LoopsFit /\ Watched(watch, state))'
    BY <1>1, <1>4, <2>1, Zenon DEF resume, OrderInv, InOrderOf, LoopsFit, FrameFits, Watched
  <2> QED  BY <2>2, <2>3, Zenon DEF OrderInv
<1> QED  BY <1>2, <1>3, <1>4, Zenon

(* The stack without its innermost loop.                                   *)
LEMMA PopLoop ==
    ASSUME NEW frames \in Seq(Frame), frames # <<>>
    PROVE  /\ SubSeq(frames, 1, Len(frames) - 1) \in Seq(Frame)
           /\ Len(SubSeq(frames, 1, Len(frames) - 1)) = Len(frames) - 1
           /\ DOMAIN SubSeq(frames, 1, Len(frames) - 1) = 1..(Len(frames) - 1)
           /\ \A i \in 1..(Len(frames) - 1) :
                  i \in DOMAIN frames /\ SubSeq(frames, 1, Len(frames) - 1)[i] = frames[i]
<1> DEFINE n == Len(frames) - 1
<1>1. Len(frames) \in Nat /\ DOMAIN frames = 1..Len(frames) /\ Len(frames) # 0
  BY Sequence, Zenon
<1>2. n \in Nat /\ 1 \in 1..(Len(frames) + 1) /\ n \in 0..Len(frames) /\ n \in (1 - 1)..Len(frames)
  BY <1>1
<1>3. ASSUME NEW i \in 1..n PROVE frames[i] \in Frame /\ i \in DOMAIN frames
  BY <1>1, Sequence
<1>4. SubSeq(frames, 1, n) = [i \in 1..n |-> frames[i]]
  BY <1>1, <1>2
<1> HIDE DEF n
<1>5. SubSeq(frames, 1, n) \in Seq(Frame) /\ Len(SubSeq(frames, 1, n)) = n
  BY <1>2, <1>3, <1>4
<1> QED  BY <1>3, <1>4, <1>5, Zenon DEF n

(* The end of a loop of enable_sockets keeps the order.                    *)
LEMMA OrderEnd ==
    ASSUME OrderInv, enable_sockets_end
    PROVE  OrderInv'
<1>1. /\ mode' = mode /\ phase' = phase /\ stack # <<>> /\ stack' = SubSeq(stack, 1, Len(stack) - 1)
      /\ UNCHANGED <<state, watch, skip, owed, asked, fault>>
  BY Zenon DEF enable_sockets_end
<1>2. timeout' \in BOOLEAN /\ priority' \in BOOLEAN
  BY Zenon DEF enable_sockets_end
<1>3. stack' \in Seq(Frame) /\ \A i \in DOMAIN stack' : i \in DOMAIN stack /\ stack'[i] = stack[i]
  BY <1>1, PopLoop, Zenon DEF OrderInv, Types
<1>4. Types'
  BY <1>1, <1>2, <1>3, Zenon DEF OrderInv, Types
<1>5. (InOrderOf(state) /\ LoopsFit /\ Watched(watch, state))'
  BY <1>1, <1>3 DEF OrderInv, InOrderOf, LoopsFit, FrameFits, Watched
<1> QED  BY <1>4, <1>5, Zenon DEF OrderInv

(* A stack of one loop that has just begun, as every handler pushes it.    *)
LEMMA OneLoop ==
    ASSUME NEW s
    PROVE  /\ <<Loop>> \in Seq(Frame) /\ Len(<<Loop>>) = 1 /\ DOMAIN <<Loop>> = {1} /\ <<Loop>>[1] = Loop
           /\ \A i \in DOMAIN <<Loop>> : FrameFits(<<Loop>>[i], s)
<1>1. Loop \in Frame
  BY ConnectAssumption DEF Loop, Frame, End
<1>2. FrameFits(Loop, s)
  BY ConnectAssumption DEF FrameFits, Loop, Path
<1> QED  BY <1>1, <1>2

(* Every handler of netresolve_connect keeps the order.                    *)
LEMMA OrderStep ==
    ASSUME OrderInv, Next
    PROVE  OrderInv'
<1>1. ASSUME NEW e \in Outcome, NEW more \in BOOLEAN, enable_sockets(e, more) PROVE OrderInv'
  BY <1>1, OrderTurn, Zenon
<1>2. CASE enable_sockets_end
  BY <1>2, OrderEnd, Zenon
<1>3. CASE connect_prepare
  <2>1. /\ phase' \in {"resolving", "connecting", "freed"}
        /\ UNCHANGED <<mode, state, watch, timeout, priority, skip, owed, asked>>
        /\ stack' = stack \/ stack' = <<Loop>>
    BY <1>3, Zenon DEF connect_prepare, OrderInv, Types
  <2>2. stack' \in Seq(Frame) /\ \A i \in DOMAIN stack' : FrameFits(stack'[i], state)
    BY <2>1, OneLoop, Zenon DEF OrderInv, Types, LoopsFit
  <2>3. Types'
    BY <2>1, <2>2, Zenon DEF OrderInv, Types
  <2> QED  BY <2>1, <2>2, <2>3, Zenon DEF OrderInv, InOrderOf, LoopsFit, FrameFits, Watched
<1>4. ASSUME NEW p \in Path, NEW e \in {"connected", "failed"}, NEW more \in BOOLEAN, connect_ready(p, e, more)
      PROVE  OrderInv'
  <2>1. state[p] = "SCHEDULED"
    BY <1>4, Zenon DEF connect_ready, OrderInv, Watched
  <2>2. OrderInv'
    <3>1. /\ mode' = mode /\ phase' = phase /\ timeout \in BOOLEAN
          /\ connect_check(p, e, timeout, <<>>, more)
      BY <1>4, Zenon DEF connect_ready, OrderInv, Types
    <3>2. \A q \in Path : q < p /\ (mode.sequential \/ Family[q] = Family[p]) => state[q] = "DONE"
      BY <2>1, Zenon DEF OrderInv, InOrderOf
    <3>3. <<>> \in Seq(Frame) /\ \A i \in DOMAIN <<>> : FrameFits(<<>>[i], state)
      OBVIOUS
    <3> QED  BY <2>1, <3>1, <3>2, <3>3, CheckOrder, Zenon
  <2> QED  BY <2>2, Zenon
<1>5. CASE connect_timeout
  <2> DEFINE s == [p \in Path |-> IF state[p] = "SCHEDULED" THEN "DONE" ELSE state[p]]
  <2>1. /\ state' = s /\ watch' = {} /\ timeout' = FALSE /\ priority' = FALSE /\ stack' = <<Loop>>
        /\ UNCHANGED <<mode, phase, skip, owed, asked, fault>>
    BY <1>5, Zenon DEF connect_timeout
  <2>2. s \in [Path -> SocketState] /\ \A q \in Path : s[q] = state[q] \/ s[q] = "DONE"
    BY Zenon DEF OrderInv, Types, SocketState
  <2>3. InOrderOf(s)
    BY <2>2, OrderOver, Zenon DEF OrderInv, Types
  <2> HIDE DEF s
  <2>4. Types'
    <3>1. timeout' \in BOOLEAN /\ priority' \in BOOLEAN /\ <<Loop>> \in Seq(Frame)
      BY <2>1, OneLoop, Zenon
    <3> QED  BY <2>1, <2>2, <3>1, Zenon DEF OrderInv, Types
  <2>5. (InOrderOf(state) /\ LoopsFit /\ Watched(watch, state))'
    <3>1. \A i \in DOMAIN stack' : FrameFits(stack'[i], s)
      BY <2>1, OneLoop, Zenon
    <3> QED  BY <2>1, <2>3, <3>1, Zenon DEF InOrderOf, LoopsFit, FrameFits, Watched
  <2> QED  BY <2>4, <2>5, Zenon DEF OrderInv
<1>6. ASSUME NEW more \in BOOLEAN, connect_priority_timeout(more) PROVE OrderInv'
  <2>1. /\ mode' = mode /\ phase' = phase
        /\ pickup_connected_socket(state, watch, timeout, TRUE, <<>>, more)
    BY <1>6, ZenonT(30) DEF connect_priority_timeout
  <2>2. <<>> \in Seq(Frame) /\ \A i \in DOMAIN <<>> : FrameFits(<<>>[i], state)
    OBVIOUS
  <2>3. /\ state \in [Path -> SocketState] /\ InOrderOf(state) /\ watch \in SUBSET Path
        /\ Watched(watch, state) /\ timeout \in BOOLEAN /\ TRUE \in BOOLEAN
    BY Zenon DEF OrderInv, Types
  <2> QED  BY <2>1, <2>2, <2>3, PickupOrder, Zenon
<1>7. CASE netresolve_connect_next
  <2>1. /\ owed' = 1 /\ asked' = asked + 1 /\ stack' = <<Loop>>
        /\ UNCHANGED <<mode, phase, state, watch, timeout, priority, skip, fault>>
    BY <1>7, Zenon DEF netresolve_connect_next
  <2>2. stack' \in Seq(Frame) /\ \A i \in DOMAIN stack' : FrameFits(stack'[i], state)
    BY <2>1, OneLoop, Zenon
  <2>3. Types'
    BY <2>1, <2>2 DEF OrderInv, Types
  <2> QED  BY <2>1, <2>2, <2>3, Zenon DEF OrderInv, InOrderOf, LoopsFit, FrameFits, Watched
<1>8. CASE netresolve_connect_free
  <2>1. CASE UNCHANGED <<phase, state, watch, timeout, priority, skip>>
    BY <1>8, <2>1, Zenon DEF netresolve_connect_free, OrderInv, Types, InOrderOf, LoopsFit, FrameFits, Watched
  <2>2. CASE /\ phase' = "freed" /\ state' = [p \in Path |-> "DONE"] /\ watch' = {}
             /\ timeout' = FALSE /\ priority' = FALSE /\ skip' = FALSE
    <3>1. UNCHANGED <<mode, stack, owed, asked>> /\ stack = <<>>
      BY <1>8, Zenon DEF netresolve_connect_free
    <3>2. Types'
      BY <2>2, <3>1, Zenon DEF OrderInv, Types, SocketState
    <3>3. (InOrderOf(state) /\ LoopsFit /\ Watched(watch, state))'
      BY <2>2, <3>1 DEF InOrderOf, LoopsFit, Watched
    <3> QED  BY <3>2, <3>3, Zenon DEF OrderInv
  <2> QED  BY <1>8, <2>1, <2>2, Zenon DEF netresolve_connect_free
<1> QED  BY <1>1, <1>2, <1>3, <1>4, <1>5, <1>6, <1>7, <1>8, Zenon DEF Next, Step, PriorityTimer

(* The connections that are waited for.                                    *)
Scheduled == {p \in Path : state[p] = "SCHEDULED"}

(* A connection has been made and not been delivered.                      *)
SomeReady == \E p \in Path : state[p] = "READY"

(* A loop of the stack will come to p.                                     *)
Due(p) == \E i \in DOMAIN stack : stack[i].at <= p /\ Family[p] \notin stack[i].seen

(* The watches: none without the connection timer, and all that are due    *)
(* when a ready socket makes the others wait, so that they can be paused;  *)
(* a scheduled path without a watch will be met by a loop.                 *)
WatchesFit ==
    /\ ~timeout => watch = {}
    /\ SomeReady => Scheduled \subseteq watch
    /\ timeout \/ stack # <<>> => \A p \in Scheduled \ watch : Due(p)

(* As long as a socket is owed and the timer is not armed, a loop is about *)
(* to begin, which arms it.                                                *)
OwedFits ==
    /\ owed <= 1
    /\ phase = "resolving" => owed = 1
    /\ phase = "connecting" /\ owed > 0 /\ ~timeout => Exhausted \/ \E i \in DOMAIN stack : stack[i] = Loop

(* In sequential mode, and unless a mandatory backend repeats the          *)
(* callback, only the innermost loop has paths ahead of it, and none has   *)
(* any once the socket is delivered.                                       *)
InSequence ==
    mode.sequential /\ ~mode.mandatory =>
        /\ owed >= 0
        /\ owed <= 0 => ~timeout /\ \A i \in DOMAIN stack : stack[i].at = End
        /\ \A i \in DOMAIN stack : i < Len(stack) => stack[i].at = End

(* The inductive invariant behind the properties of the timers and of the  *)
(* callback, to be used with OrderInv.                                     *)
TimerInv ==
    /\ mode \in Orderly
    /\ fault # "assert"
    /\ ~skip
    /\ priority => timeout /\ SomeReady
    /\ WatchesFit
    /\ OwedFits
    /\ InSequence

(* As there are two families, no three paths are attempted at a time.      *)
LEMMA NoThree ==
    ASSUME NEW s, InOrderOf(s), NEW a \in Path, NEW b \in Path, NEW c \in Path,
           a # b, a # c, b # c,
           s[a] \in {"SCHEDULED", "READY"}, s[b] \in {"SCHEDULED", "READY"}, s[c] \in {"SCHEDULED", "READY"}
    PROVE  FALSE
<1>1. a \in Int /\ b \in Int /\ c \in Int
  BY ConnectAssumption DEF Path
<1>2. ASSUME NEW x \in Path, NEW y \in Path, x # y, x \in Int, y \in Int,
             s[x] \in {"SCHEDULED", "READY"}, s[y] \in {"SCHEDULED", "READY"}
      PROVE  Family[x] # Family[y]
  <2>1. x < y \/ y < x
    BY <1>2
  <2> QED  BY <1>2, <2>1, Zenon DEF InOrderOf
<1>3. Family[a] # Family[b] /\ Family[a] # Family[c] /\ Family[b] # Family[c]
  BY <1>1, <1>2, Zenon
<1>4. Family[a] \in Families /\ Family[b] \in Families /\ Family[c] \in Families
  BY ConnectAssumption, Zenon
<1> QED  BY <1>3, <1>4, Zenon DEF Families

(* The stack with a loop that has just begun: the loop will come to every  *)
(* path.                                                                   *)
LEMMA Pushed ==
    ASSUME NEW frames \in Seq(Frame)
    PROVE  /\ Append(frames, Loop) # <<>>
           /\ Len(Append(frames, Loop)) = Len(frames) + 1 /\ Len(frames) \in Nat
           /\ DOMAIN Append(frames, Loop) = 1..(Len(frames) + 1)
           /\ DOMAIN frames = 1..Len(frames)
           /\ Append(frames, Loop)[Len(frames) + 1] = Loop
           /\ \A i \in 1..Len(frames) : Append(frames, Loop)[i] = frames[i]
           /\ \E i \in DOMAIN Append(frames, Loop) : Append(frames, Loop)[i] = Loop
           /\ \A p \in Path : \E i \in DOMAIN Append(frames, Loop) :
                  Append(frames, Loop)[i].at <= p /\ Family[p] \notin Append(frames, Loop)[i].seen
<1>1. Loop \in Frame /\ Loop.at = 1 /\ Loop.seen = {}
  BY ConnectAssumption DEF Loop, Frame, End
<1>2. /\ Append(frames, Loop) \in Seq(Frame)
      /\ Append(frames, Loop) # <<>>
      /\ Len(Append(frames, Loop)) = Len(frames) + 1
      /\ \A i \in 1..Len(frames) : Append(frames, Loop)[i] = frames[i]
      /\ Append(frames, Loop)[Len(frames) + 1] = Loop
  BY <1>1, Appended
<1>3. DOMAIN frames = 1..Len(frames) /\ Len(frames) \in Nat
      /\ DOMAIN Append(frames, Loop) = 1..(Len(frames) + 1)
  BY <1>2, Sequence, Zenon
<1>4. Len(frames) + 1 \in DOMAIN Append(frames, Loop)
  BY <1>3
<1>5. \A p \in Path : 1 <= p
  BY ConnectAssumption DEF Path
<1> QED  BY <1>1, <1>2, <1>3, <1>4, <1>5, Zenon

(* Delivering a socket stops the timers and pauses what is scheduled, and  *)
(* all of that has a watch.                                                *)
LEMMA DeliverTimers ==
    ASSUME OrderInv, TimerInv, mode' = mode, phase' = phase, phase = "connecting",
           NEW s \in [Path -> SocketState], InOrderOf(s), NEW w, NEW k \in BOOLEAN,
           NEW frames \in Seq(Frame), NEW found \in Path, s[found] = "READY", NEW more \in BOOLEAN,
           \A p \in Path : s[p] = "SCHEDULED" => p \in w,
           frames = <<>> \/ \A p \in Path : s[p] # "SCHEDULED",
           k => priority,
           mode.sequential /\ ~mode.mandatory => owed = 1 /\ \A i \in DOMAIN frames : frames[i].at = End,
           deliver(s, w, k, found, frames, more)
    PROVE  TimerInv'
<1>1. /\ state' = [s EXCEPT ![found] = "DONE"]
      /\ watch' = {}
      /\ skip' = IF priority THEN FALSE ELSE k
      /\ timeout' = FALSE /\ priority' = FALSE
      /\ callback(more, frames)
      /\ fault' = fault
  BY ZenonT(30) DEF deliver
<1>2. mode' \in Orderly /\ fault' # "assert" /\ ~skip' /\ (priority' => timeout' /\ SomeReady')
  BY <1>1, Zenon DEF TimerInv
<1>3. \A p \in Path : state'[p] = IF p = found THEN "DONE" ELSE s[p]
  BY <1>1, Zenon
<1>4. /\ owed \in Int /\ owed <= 1
      /\ owed' = IF more THEN owed ELSE owed - 1
      /\ stack' = IF more THEN Append(frames, Loop) ELSE frames
  BY <1>1, Zenon DEF callback, OrderInv, Types, TimerInv, OwedFits
<1>5. WatchesFit'
  <2>1. ~timeout' => watch' = {}
    BY <1>1, Zenon
  <2>2. SomeReady' => Scheduled' \subseteq watch'
    <3> SUFFICES ASSUME NEW r \in Path, state'[r] = "READY", NEW c \in Path, state'[c] = "SCHEDULED" PROVE FALSE
      BY Zenon DEF SomeReady, Scheduled
    <3>1. s[r] = "READY" /\ s[c] = "SCHEDULED" /\ r # found /\ c # found /\ r # c
      BY <1>3, Zenon
    <3> QED  BY <3>1, NoThree, Zenon
  <2>3. ASSUME NEW p \in Path, state'[p] = "SCHEDULED", timeout' \/ stack' # <<>> PROVE Due(p)'
    <3>1. s[p] = "SCHEDULED"
      BY <1>3, <2>3, Zenon
    <3>2. frames = <<>> /\ more
      BY <1>1, <1>4, <2>3, <3>1, Zenon
    <3>3. stack' = Append(frames, Loop)
      BY <1>4, <3>2, Zenon
    <3>4. \E i \in DOMAIN stack' : stack'[i].at <= p /\ Family[p] \notin stack'[i].seen
      BY <3>3, Pushed, Zenon
    <3> QED  BY <3>4, Zenon DEF Due
  <2>4. (timeout \/ stack # <<>> => \A p \in Scheduled \ watch : Due(p))'
    BY <2>3, Zenon DEF Scheduled
  <2> QED  BY <2>1, <2>2, <2>4, Zenon DEF WatchesFit
<1>6. OwedFits'
  <2>1. owed' <= 1 /\ phase' # "resolving"
    BY <1>4
  <2>2. owed' > 0 => \E i \in DOMAIN stack' : stack'[i] = Loop
    <3>1. CASE more
      BY <1>4, <3>1, Pushed, Zenon
    <3>2. CASE ~more
      BY <1>4, <3>2
    <3> QED  BY <3>1, <3>2, Zenon
  <2> QED  BY <2>1, <2>2, Zenon DEF OwedFits
<1>7. InSequence'
  <2> SUFFICES ASSUME mode.sequential /\ ~mode.mandatory
               PROVE  /\ owed' >= 0
                      /\ owed' <= 0 => ~timeout' /\ \A i \in DOMAIN stack' : stack'[i].at = End
                      /\ \A i \in DOMAIN stack' : i < Len(stack') => stack'[i].at = End
    BY Zenon DEF InSequence
  <2>1. owed = 1 /\ \A i \in DOMAIN frames : frames[i].at = End
    BY Zenon
  <2>2. CASE more
    <3>1. stack' = Append(frames, Loop) /\ owed' = 1
      BY <1>4, <2>1, <2>2, Zenon
    <3>2. ASSUME NEW i \in DOMAIN stack', i < Len(stack') PROVE stack'[i].at = End
      <4>1. i \in 1..Len(frames) /\ stack'[i] = frames[i] /\ i \in DOMAIN frames
        BY <3>1, <3>2, Pushed
      <4> QED  BY <2>1, <4>1, Zenon
    <3> QED  BY <3>1, <3>2
  <2>3. CASE ~more
    BY <1>1, <1>4, <2>1, <2>3
  <2> QED  BY <2>2, <2>3, Zenon
<1> QED  BY <1>2, <1>5, <1>6, <1>7, Zenon DEF TimerInv

(* pickup_connected_socket arms the priority timer only for the sake of a  *)
(* ready socket.                                                           *)
LEMMA PickupTimers ==
    ASSUME OrderInv, TimerInv, mode' = mode, phase' = phase, phase = "connecting",
           NEW s \in [Path -> SocketState], InOrderOf(s), NEW w, NEW k \in BOOLEAN,
           NEW frames \in Seq(Frame), NEW more \in BOOLEAN,
           (\E p \in Path : s[p] = "READY") => \A p \in Path : s[p] = "SCHEDULED" => p \in w,
           (\E p \in Path : s[p] = "READY") => frames = <<>> \/ \A p \in Path : s[p] # "SCHEDULED",
           k \/ priority => \E p \in Path : s[p] = "READY",
           k => priority,
           mode.sequential /\ ~mode.mandatory => owed = 1 /\ \A i \in DOMAIN frames : frames[i].at = End,
           pickup_connected_socket(s, w, TRUE, k, frames, more)
    PROVE  TimerInv'
<1>1. ASSUME NEW found \in Path, s[found] = "READY", deliver(s, w, k, found, frames, more)
      PROVE  TimerInv'
  <2>1. /\ \A p \in Path : s[p] = "SCHEDULED" => p \in w
        /\ frames = <<>> \/ \A p \in Path : s[p] # "SCHEDULED"
    BY <1>1, Zenon
  <2> QED  BY <1>1, <2>1, DeliverTimers
<1>2. CASE /\ state' = s /\ watch' = w /\ timeout' = TRUE /\ skip' = k
           /\ priority' = (priority \/ \E p \in Path : s[p] = "READY")
           /\ k => ~\E p \in Path : s[p] = "READY"
           /\ stack' = Append(frames, Loop)
           /\ owed' = owed /\ asked' = asked /\ fault' = fault
  <2>1. mode' \in Orderly /\ fault' # "assert" /\ ~skip' /\ (priority' => timeout' /\ SomeReady')
    BY <1>2, Zenon DEF TimerInv, SomeReady
  <2>2. WatchesFit'
    <3>1. ASSUME NEW p \in Path PROVE Due(p)'
      BY <1>2, Pushed, Zenon DEF Due
    <3>2. SomeReady' => Scheduled' \subseteq watch'
      BY <1>2, Zenon DEF SomeReady, Scheduled
    <3> QED  BY <1>2, <3>1, <3>2, Zenon DEF WatchesFit, Scheduled
  <2>3. OwedFits'
    BY <1>2, Zenon DEF OwedFits, TimerInv
  <2>4. InSequence'
    <3> SUFFICES ASSUME mode.sequential /\ ~mode.mandatory
                 PROVE  owed' > 0 /\ \A i \in DOMAIN stack' : i < Len(stack') => stack'[i].at = End
      BY <1>2 DEF InSequence, OrderInv, Types
    <3>1. owed' = 1 /\ \A i \in DOMAIN frames : frames[i].at = End
      BY <1>2, Zenon
    <3>2. ASSUME NEW i \in DOMAIN stack', i < Len(stack') PROVE stack'[i].at = End
      <4>1. i \in 1..Len(frames) /\ stack'[i] = frames[i] /\ i \in DOMAIN frames
        BY <1>2, <3>2, Pushed
      <4> QED  BY <3>1, <4>1, Zenon
    <3> QED  BY <3>1, <3>2
  <2> QED  BY <2>1, <2>2, <2>3, <2>4, Zenon DEF TimerInv
<1>3. \/ \E found \in Path :
            /\ s[found] = "READY"
            /\ \A q \in Path : q < found /\ s[q] = "SCHEDULED" => k
            /\ deliver(s, w, k, found, frames, more)
      \/ /\ ~more
         /\ state' = s /\ watch' = w /\ timeout' = TRUE /\ skip' = k
         /\ priority' = (priority \/ \E p \in Path : s[p] = "READY")
         /\ k => ~\E p \in Path : s[p] = "READY"
         /\ stack' = Append(frames, Loop)
         /\ owed' = owed /\ asked' = asked /\ fault' = fault
  BY PickupCases, ZenonT(30)
<1> QED  BY <1>1, <1>2, <1>3, ZenonT(30)

(* A loop that moves past a path still comes to the other scheduled ones.  *)
LEMMA DueKept ==
    ASSUME OrderInv, stack # <<>>, Candidates(stack[Len(stack)]) # {},
           NEW p \in Path, state[p] = "SCHEDULED", p # Turn, Due(p)
    PROVE  \E i \in DOMAIN TurnFrames : TurnFrames[i].at <= p /\ Family[p] \notin TurnFrames[i].seen
<1>1. PICK i \in DOMAIN stack : stack[i].at <= p /\ Family[p] \notin stack[i].seen
  BY Zenon DEF Due
<1>2. CASE i # Len(stack)
  BY <1>1, <1>2, TurnFramesFit, Zenon
<1>3. CASE i = Len(stack)
  <2>1. Turn \in Path /\ state[Turn] # "DONE"
    BY TurnFacts, Zenon
  <2>2. ~(p < Turn)
    <3>1. p >= stack[Len(stack)].at
      BY <1>1, <1>3, ConnectAssumption, TurnFacts, Zenon DEF Frame, Path, End
    <3> QED  BY <1>1, <1>3, <3>1, TurnFacts, Zenon
  <2>3. Turn < p
    BY <2>1, <2>2, ConnectAssumption DEF Path
  <2>4. ~mode.sequential /\ Family[Turn] # Family[p]
    BY <2>1, <2>3, Zenon DEF OrderInv, InOrderOf
  <2>5. After(Turn) = Turn + 1 /\ After(Turn) <= p
    BY <2>1, <2>3, <2>4, ConnectAssumption DEF After, Path
  <2>6. TurnFrames[i] = [at |-> After(Turn), seen |-> stack[i].seen \cup {Family[Turn]}] /\ i \in DOMAIN TurnFrames
    BY <1>3, TurnFramesFit, Zenon
  <2> QED  BY <1>1, <2>4, <2>5, <2>6
<1> QED  BY <1>2, <1>3, Zenon

(* In sequential mode a loop with a path ahead is the only one, and a      *)
(* socket is owed.                                                         *)
LEMMA TurnInSequence ==
    ASSUME OrderInv, TimerInv, stack # <<>>, Candidates(stack[Len(stack)]) # {},
           mode.sequential /\ ~mode.mandatory
    PROVE  owed = 1 /\ \A i \in DOMAIN TurnFrames : TurnFrames[i].at = End
<1>1. Len(stack) \in DOMAIN stack /\ stack[Len(stack)].at = 1 /\ Turn \in Path
  BY TurnFacts DEF Loop
<1>2. End # 1
  BY <1>1, ConnectAssumption DEF Path, End
<1>3. owed = 1
  BY <1>1, <1>2 DEF TimerInv, InSequence, OwedFits, OrderInv, Types
<1>4. After(Turn) = End
  BY Zenon DEF After
<1>5. ASSUME NEW i \in DOMAIN stack PROVE TurnFrames[i].at = End
  <2>1. CASE i = Len(stack)
    BY <1>4, <2>1, TurnFramesFit
  <2>2. CASE i # Len(stack)
    <3>1. i < Len(stack)
      BY <2>2, Sequence DEF OrderInv, Types
    <3> QED  BY <2>2, <3>1, TurnFramesFit, Zenon DEF TimerInv, InSequence
  <2> QED  BY <2>1, <2>2, Zenon
<1> QED  BY <1>3, <1>5, TurnFramesFit, Zenon

(* A turn of the loop that leaves a connection under way.                  *)
LEMMA TimersMoveOn ==
    ASSUME OrderInv, TimerInv, mode' = mode, phase' = phase, phase = "connecting",
           stack # <<>>, Candidates(stack[Len(stack)]) # {},
           state' = state \/ (state[Turn] = "NONE" /\ state' = [state EXCEPT ![Turn] = "SCHEDULED"]),
           watch' = IF state'[Turn] = "SCHEDULED" THEN watch \cup {Turn} ELSE watch,
           timeout' = TRUE, stack' = TurnFrames,
           UNCHANGED <<priority, skip, owed, asked, fault>>
    PROVE  TimerInv'
<1>1. Turn \in Path /\ stack' # <<>> /\ DOMAIN stack' = DOMAIN stack /\ Len(stack') = Len(stack)
  BY TurnFacts, TurnFramesFit, Sequence, Zenon DEF OrderInv, Types
<1>2. \A p \in Path : p # Turn => state'[p] = state[p]
  BY Zenon DEF OrderInv, Types
<1>3. \A p \in Path : state[p] = "READY" <=> state'[p] = "READY"
  BY <1>1, Zenon DEF OrderInv, Types
<1>4. mode' \in Orderly /\ fault' # "assert" /\ ~skip' /\ (priority' => timeout' /\ SomeReady')
  BY <1>3, Zenon DEF TimerInv, SomeReady
<1>5. WatchesFit'
  <2>1. ASSUME NEW p \in Path, state'[p] = "SCHEDULED", p \notin watch' PROVE p # Turn /\ state[p] = "SCHEDULED" /\ p \notin watch
    BY <1>2, <2>1, Zenon
  <2>2. SomeReady' => Scheduled' \subseteq watch'
    <3>1. SomeReady' => SomeReady
      BY <1>3, Zenon DEF SomeReady
    <3> QED  BY <2>1, <3>1, Zenon DEF Scheduled, TimerInv, WatchesFit
  <2>3. ASSUME NEW p \in Path, state'[p] = "SCHEDULED", p \notin watch' PROVE Due(p)'
    <3>1. Due(p)
      BY <2>1, <2>3, Zenon DEF TimerInv, WatchesFit, Scheduled
    <3>2. \E i \in DOMAIN stack' : stack'[i].at <= p /\ Family[p] \notin stack'[i].seen
      BY <2>1, <2>3, <3>1, DueKept, Zenon
    <3> QED  BY <3>2, Zenon DEF Due
  <2> QED  BY <2>2, <2>3, Zenon DEF WatchesFit, Scheduled
<1>6. OwedFits'
  BY Zenon DEF OwedFits, TimerInv
<1>7. InSequence'
  <2>1. mode.sequential /\ ~mode.mandatory => owed' = 1 /\ \A i \in DOMAIN stack' : stack'[i].at = End
    BY TurnInSequence, Zenon
  <2> QED  BY <2>1 DEF InSequence
<1> QED  BY <1>4, <1>5, <1>6, <1>7, Zenon DEF TimerInv

(* A turn of the loop whose attempt is decided on the spot.                *)
LEMMA TurnLeavesNone ==
    ASSUME OrderInv, stack # <<>>, Candidates(stack[Len(stack)]) # {}, state[Turn] = "NONE",
           NEW v \in {"READY", "DONE"}, v = "READY" => mode.sequential,
           NEW r \in Path, [state EXCEPT ![Turn] = v][r] = "READY",
           NEW p \in Path
    PROVE  [state EXCEPT ![Turn] = v][p] # "SCHEDULED"
<1> DEFINE s == [state EXCEPT ![Turn] = v]
<1> SUFFICES ASSUME s[p] = "SCHEDULED" PROVE FALSE
  BY Zenon
<1>1. Turn \in Path /\ p # Turn /\ state[p] = "SCHEDULED"
  BY TurnFacts, Zenon DEF OrderInv, Types
<1>2. ~mode.sequential /\ Family[p] # Family[Turn]
  BY <1>1, TurnIsAlone, Zenon
<1>3. r # Turn /\ state[r] = "READY"
  BY <1>1, <1>2, Zenon DEF OrderInv, Types
<1>4. Family[r] # Family[Turn]
  BY <1>3, TurnIsAlone, Zenon
<1>5. Family[r] = Family[p]
  BY <1>1, <1>2, <1>4, ConnectAssumption, Zenon DEF Families
<1>6. r < p \/ p < r
  BY <1>1, <1>3, ConnectAssumption DEF Path
<1> QED  BY <1>1, <1>3, <1>5, <1>6, Zenon DEF OrderInv, InOrderOf

(* A turn of the loop of enable_sockets keeps the invariant of the timers. *)
LEMMA TimersTurn ==
    ASSUME OrderInv, TimerInv, NEW e \in Outcome, NEW more \in BOOLEAN, enable_sockets(e, more)
    PROVE  TimerInv'
<1>1. stack # <<>> /\ Candidates(stack[Len(stack)]) # {} /\ mode' = mode /\ phase' = phase /\ phase = "connecting"
  BY Zenon DEF enable_sockets, Running
<1>2. \/ state[Turn] = "NONE" /\ connect_check(Turn, e, TRUE, TurnFrames, more)
      \/ /\ state[Turn] # "NONE" /\ watch' = resume(Turn) /\ timeout' = TRUE /\ stack' = TurnFrames
         /\ UNCHANGED <<state, priority, skip, owed, asked, fault>>
  BY Zenon DEF enable_sockets, Turn, TurnFrames, Met, OrderInv, Types
<1>3. Turn \in Path /\ state \in [Path -> SocketState]
  BY <1>1, TurnFacts, Zenon DEF OrderInv, Types
<1>4. CASE state[Turn] = "NONE" /\ e = "EINPROGRESS" /\ connect_check(Turn, e, TRUE, TurnFrames, more)
  <2>1. /\ state' = [state EXCEPT ![Turn] = "SCHEDULED"] /\ watch' = watch \cup {Turn}
        /\ timeout' = TRUE /\ stack' = TurnFrames /\ UNCHANGED <<priority, skip, owed, asked, fault>>
    BY <1>4, Zenon DEF connect_check
  <2>2. state'[Turn] = "SCHEDULED"
    BY <1>3, <2>1, Zenon
  <2> QED  BY <1>1, <1>4, <2>1, <2>2, TimersMoveOn, Zenon
<1>5. CASE state[Turn] = "NONE" /\ e # "EINPROGRESS" /\ connect_check(Turn, e, TRUE, TurnFrames, more)
  <2> DEFINE v == IF e = "connected" THEN "READY" ELSE "DONE"
             s == [state EXCEPT ![Turn] = v]
  <2>1. v \in {"READY", "DONE"} /\ v \in SocketState
    BY Zenon DEF SocketState
  <2>2. v = "READY" => mode.sequential
    <3>1. e = "connected" => mode.datagram
      BY Zenon DEF Outcome
    <3> QED  BY <3>1, Zenon DEF TimerInv, Orderly
  <2>3. pickup_connected_socket(s, watch \ {Turn}, TRUE, FALSE, TurnFrames, more)
    <3>1. skip = FALSE
      BY Zenon DEF OrderInv, Types, TimerInv
    <3> QED  BY <1>5, <3>1, Zenon DEF connect_check
  <2> HIDE DEF v
  <2>4. s \in [Path -> SocketState] /\ InOrderOf(s)
    <3>1. state[Turn] # "DONE"
          /\ \A q \in Path : q < Turn /\ (mode.sequential \/ Family[q] = Family[Turn]) => state[q] = "DONE"
      BY <1>1, TurnFacts, Zenon
    <3> QED  BY <1>3, <2>1, <3>1, OrderAttempt, ZenonT(30) DEF OrderInv
  <2>5. (\E r \in Path : s[r] = "READY") => \A p \in Path : s[p] # "SCHEDULED"
    BY <1>1, <1>5, <2>1, <2>2, TurnLeavesNone, Zenon
  <2>6. priority => \E p \in Path : s[p] = "READY"
    BY <1>3, <1>5, Zenon DEF TimerInv, SomeReady
  <2>7. TurnFrames \in Seq(Frame)
    BY <1>1, TurnFramesFit, Zenon
  <2>8. mode.sequential /\ ~mode.mandatory => owed = 1 /\ \A i \in DOMAIN TurnFrames : TurnFrames[i].at = End
    BY <1>1, TurnInSequence, Zenon
  <2> HIDE DEF s
  <2> QED  BY <1>1, <2>3, <2>4, <2>5, <2>6, <2>7, <2>8, PickupTimers, Zenon
<1>6. CASE /\ state[Turn] # "NONE" /\ watch' = resume(Turn) /\ timeout' = TRUE /\ stack' = TurnFrames
           /\ UNCHANGED <<state, priority, skip, owed, asked, fault>>
  BY <1>1, <1>6, TimersMoveOn, Zenon DEF resume
<1> QED  BY <1>2, <1>4, <1>5, <1>6, ZenonT(30)

(* The first frame of a stack is a loop at its beginning.                  *)
LEMMA LoopDue ==
    ASSUME stack' = <<Loop>>, NEW p \in Path
    PROVE  Due(p)'
<1>1. Loop.at = 1 /\ Loop.seen = {} /\ 1 <= p
  BY ConnectAssumption DEF Loop, Path
<1>2. 1 \in DOMAIN stack' /\ stack'[1] = Loop
  OBVIOUS
<1> QED  BY <1>1, <1>2, Zenon DEF Due

(* So does the end of a loop: one that met no path stops the timers, as    *)
(* all paths are over.                                                     *)
LEMMA TimersEnd ==
    ASSUME OrderInv, TimerInv, enable_sockets_end
    PROVE  TimerInv'
<1> DEFINE f == stack[Len(stack)]
           none == f.seen = {}
<1>1. /\ mode' = mode /\ phase' = phase /\ phase = "connecting"
      /\ stack # <<>> /\ Candidates(f) = {} /\ stack' = SubSeq(stack, 1, Len(stack) - 1)
      /\ UNCHANGED <<state, watch, skip, owed, asked, fault>>
      /\ timeout' = (timeout /\ ~none) /\ priority' = (priority /\ ~none)
  BY Zenon DEF enable_sockets_end, Running
<1>2. /\ \A i \in DOMAIN stack' : i \in DOMAIN stack /\ stack'[i] = stack[i]
      /\ Len(stack') = Len(stack) - 1
      /\ \A i \in DOMAIN stack : i # Len(stack) => i \in DOMAIN stack'
      /\ Len(stack) \in DOMAIN stack /\ f \in Frame
  <2>1. DOMAIN stack = 1..Len(stack) /\ Len(stack) \in Nat /\ Len(stack) # 0 /\ f \in Frame
    BY <1>1 DEF OrderInv, Types
  <2> QED  BY <1>1, <2>1, PopLoop DEF OrderInv, Types
<1>3. none => Exhausted
  <2>1. none => f.at = 1
    BY <1>2, Zenon DEF OrderInv, LoopsFit, FrameFits
  <2>2. ASSUME none, NEW p \in Path PROVE state[p] = "DONE"
    <3>1. p >= f.at
      BY <2>1, <2>2, ConnectAssumption DEF Path
    <3> QED  BY <1>1, <2>2, <3>1, Zenon DEF Candidates, OrderInv, Types
  <2> QED  BY <2>2, Zenon DEF Exhausted
<1>4. Exhausted => Scheduled = {} /\ ~SomeReady /\ watch = {}
  BY Zenon DEF Exhausted, Scheduled, SomeReady, OrderInv, Watched, Types
<1>5. mode' \in Orderly /\ fault' # "assert" /\ ~skip' /\ (priority' => timeout' /\ SomeReady')
  BY <1>1, Zenon DEF TimerInv, SomeReady
<1>6. WatchesFit'
  <2>1. ~timeout' => watch' = {}
    BY <1>1, <1>3, <1>4, ZenonT(30) DEF TimerInv, WatchesFit
  <2>2. SomeReady' => Scheduled' \subseteq watch'
    BY <1>1, Zenon DEF TimerInv, WatchesFit, SomeReady, Scheduled
  <2>3. ASSUME NEW p \in Path, state[p] = "SCHEDULED", p \notin watch PROVE Due(p)'
    <3>1. Due(p)
      BY <1>1, <2>3, Zenon DEF TimerInv, WatchesFit, Scheduled
    <3>2. PICK i \in DOMAIN stack : stack[i].at <= p /\ Family[p] \notin stack[i].seen
      BY <3>1, Zenon DEF Due
    <3>3. i # Len(stack)
      <4>1. f.at <= p => p >= f.at
        BY <1>2, ConnectAssumption, Zenon DEF Frame, Path, End
      <4> QED  BY <1>1, <2>3, <3>2, <4>1, Zenon DEF Candidates
    <3>4. i \in DOMAIN stack' /\ stack'[i] = stack[i]
      BY <1>2, <3>3, Zenon
    <3> QED  BY <3>2, <3>4, Zenon DEF Due
  <2>4. \A p \in Scheduled' \ watch' : Due(p)'
    BY <1>1, <2>3, Zenon DEF Scheduled
  <2> QED  BY <2>1, <2>2, <2>4, Zenon DEF WatchesFit
<1>7. OwedFits'
  <2>1. ASSUME owed > 0, ~timeout' PROVE Exhausted \/ \E i \in DOMAIN stack' : stack'[i] = Loop
    <3>1. CASE none
      BY <1>3, <3>1, Zenon
    <3>2. CASE ~none
      <4>1. Exhausted \/ \E i \in DOMAIN stack : stack[i] = Loop
        BY <1>1, <2>1, <3>2, Zenon DEF TimerInv, OwedFits
      <4>2. stack[Len(stack)] # Loop
        BY <3>2 DEF Loop
      <4> QED  BY <1>2, <4>1, <4>2, Zenon
    <3> QED  BY <3>1, <3>2, Zenon
  <2>2. Exhausted => Exhausted'
    BY <1>1, Zenon DEF Exhausted
  <2> QED  BY <1>1, <2>1, <2>2, Zenon DEF TimerInv, OwedFits
<1>8. InSequence'
  <2>1. Len(stack) \in Nat /\ \A i \in DOMAIN stack : i \in Int
    BY Sequence DEF OrderInv, Types
  <2>2. \A i \in DOMAIN stack' : i < Len(stack') => i < Len(stack)
    BY <1>2, <2>1
  <2> QED  BY <1>1, <1>2, <2>2, ZenonT(30) DEF TimerInv, InSequence
<1> QED  BY <1>5, <1>6, <1>7, <1>8, Zenon DEF TimerInv

(* So does the event of a watch.                                           *)
LEMMA TimersReady ==
    ASSUME OrderInv, TimerInv, NEW p \in Path, NEW e \in {"connected", "failed"}, NEW more \in BOOLEAN,
           connect_ready(p, e, more)
    PROVE  TimerInv'
<1> DEFINE v == IF e = "connected" THEN "READY" ELSE "DONE"
           s == [state EXCEPT ![p] = v]
<1>1. /\ mode' = mode /\ phase' = phase /\ phase = "connecting" /\ stack = <<>> /\ p \in watch
      /\ pickup_connected_socket(s, watch \ {p}, timeout, skip, <<>>, more)
  BY Zenon DEF connect_ready, connect_check, Running
<1>2. timeout = TRUE /\ skip = FALSE
  BY <1>1, Zenon DEF TimerInv, WatchesFit, OrderInv, Types
<1>3. state \in [Path -> SocketState] /\ state[p] = "SCHEDULED"
  BY <1>1, Zenon DEF OrderInv, Types, Watched
<1>4. \A q \in Path : state[q] = "SCHEDULED" => q \in watch
  BY <1>1, <1>2 DEF TimerInv, WatchesFit, Scheduled, Due
<1>5. v \in SocketState
  BY Zenon DEF SocketState
<1>6. s \in [Path -> SocketState] /\ InOrderOf(s)
  <2>1. \A q \in Path : q < p /\ (mode.sequential \/ Family[q] = Family[p]) => state[q] = "DONE"
    BY <1>3, Zenon DEF OrderInv, InOrderOf
  <2> HIDE DEF v
  <2> QED  BY <1>3, <1>5, <2>1, OrderAttempt, ZenonT(30) DEF OrderInv
<1>7. \A q \in Path : s[q] = "SCHEDULED" => q \in watch \ {p}
  BY <1>3, <1>4, Zenon
<1>8. priority => \E q \in Path : s[q] = "READY"
  BY <1>3, Zenon DEF TimerInv, SomeReady
<1>9. mode.sequential /\ ~mode.mandatory => owed = 1
  BY <1>2 DEF TimerInv, InSequence, OwedFits, OrderInv, Types
<1>10. <<>> \in Seq(Frame) /\ \A i \in DOMAIN <<>> : <<>>[i].at = End
  OBVIOUS
<1>11. pickup_connected_socket(s, watch \ {p}, TRUE, FALSE, <<>>, more)
  BY <1>1, <1>2, Zenon
<1> HIDE DEF s
<1> QED  BY <1>1, <1>6, <1>7, <1>8, <1>9, <1>10, <1>11, PickupTimers, ZenonT(30)

(* So does the expiry of the priority timer, which delivers the ready      *)
(* socket.                                                                 *)
LEMMA TimersPriority ==
    ASSUME OrderInv, TimerInv, NEW more \in BOOLEAN, connect_priority_timeout(more)
    PROVE  TimerInv'
<1>1. /\ mode' = mode /\ phase' = phase /\ phase = "connecting" /\ stack = <<>> /\ priority
      /\ pickup_connected_socket(state, watch, timeout, TRUE, <<>>, more)
  BY Zenon DEF connect_priority_timeout, Running
<1>2. timeout = TRUE /\ \E p \in Path : state[p] = "READY"
  BY <1>1, Zenon DEF TimerInv, SomeReady, OrderInv, Types
<1>3. state \in [Path -> SocketState] /\ InOrderOf(state)
  BY Zenon DEF OrderInv, Types
<1>4. \A q \in Path : state[q] = "SCHEDULED" => q \in watch
  BY <1>1, <1>2, Zenon DEF TimerInv, WatchesFit, Scheduled, Due
<1>5. mode.sequential /\ ~mode.mandatory => owed = 1
  BY <1>2 DEF TimerInv, InSequence, OwedFits, OrderInv, Types
<1>6. <<>> \in Seq(Frame) /\ \A i \in DOMAIN <<>> : <<>>[i].at = End
  OBVIOUS
<1>7. pickup_connected_socket(state, watch, TRUE, TRUE, <<>>, more)
  BY <1>1, <1>2, ZenonT(30)
<1> QED  BY <1>1, <1>2, <1>3, <1>4, <1>5, <1>6, <1>7, PickupTimers, Zenon

(* Every handler of netresolve_connect keeps the invariant of the timers.  *)
LEMMA TimersStep ==
    ASSUME OrderInv, TimerInv, Next
    PROVE  TimerInv'
<1>1. ASSUME NEW e \in Outcome, NEW more \in BOOLEAN, enable_sockets(e, more) PROVE TimerInv'
  BY <1>1, TimersTurn, Zenon
<1>2. CASE enable_sockets_end
  BY <1>2, TimersEnd, Zenon
<1>3. CASE connect_prepare
  <2>1. CASE fault' \in {"no_paths", "lost_descriptors"}
             /\ UNCHANGED <<phase, stack, mode, state, watch, timeout, priority, skip, owed, asked>>
    <3>1. fault' # "assert"
      BY <2>1, Zenon
    <3> QED  BY <2>1, <3>1, Zenon DEF TimerInv, WatchesFit, OwedFits, InSequence, SomeReady, Scheduled, Due, Exhausted
  <2>2. CASE /\ phase' = "connecting" /\ stack' = <<Loop>> /\ fault' = fault
             /\ UNCHANGED <<mode, state, watch, timeout, priority, skip, owed, asked>>
    <3>1. phase = "resolving" \/ mode.mandatory
      BY <1>3, Zenon DEF connect_prepare
    <3>2. WatchesFit'
      BY <2>2, LoopDue, Zenon DEF TimerInv, WatchesFit, SomeReady, Scheduled
    <3>3. OwedFits' /\ (phase = "resolving" => owed' = 1)
      BY <2>2 DEF TimerInv, OwedFits
    <3>4. InSequence'
      BY <2>2, <3>1, <3>3 DEF InSequence
    <3> QED  BY <2>2, <3>2, <3>3, <3>4, Zenon DEF TimerInv, SomeReady
  <2>3. \/ fault' \in {"no_paths", "lost_descriptors"} /\ UNCHANGED <<phase, stack>>
        \/ phase' = "connecting" /\ stack' = <<Loop>> /\ fault' = fault
    BY <1>3, Zenon DEF connect_prepare
  <2>4. UNCHANGED <<mode, state, watch, timeout, priority, skip, owed, asked>>
    BY <1>3, Zenon DEF connect_prepare
  <2> QED  BY <2>1, <2>2, <2>3, <2>4, Zenon
<1>4. ASSUME NEW p \in Path, NEW e \in {"connected", "failed"}, NEW more \in BOOLEAN, connect_ready(p, e, more)
      PROVE  TimerInv'
  BY <1>4, TimersReady, Zenon
<1>5. CASE connect_timeout
  <2>1. /\ phase = "connecting" /\ timeout /\ timeout' = FALSE /\ priority' = FALSE /\ watch' = {} /\ stack' = <<Loop>>
        /\ state' = [p \in Path |-> IF state[p] = "SCHEDULED" THEN "DONE" ELSE state[p]]
        /\ UNCHANGED <<mode, phase, skip, owed, asked, fault>>
    BY <1>5, Zenon DEF connect_timeout, Running
  <2>2. \A p \in Path : state'[p] # "SCHEDULED"
    BY <2>1, Zenon
  <2>3. WatchesFit'
    BY <2>1, <2>2, Zenon DEF WatchesFit, Scheduled
  <2>4. OwedFits'
    BY <2>1 DEF TimerInv, OwedFits
  <2>5. mode.sequential /\ ~mode.mandatory => owed' = 1
    BY <2>1 DEF TimerInv, InSequence, OwedFits, OrderInv, Types
  <2>6. InSequence'
    BY <2>1, <2>5 DEF InSequence
  <2> QED  BY <2>1, <2>3, <2>4, <2>6, Zenon DEF TimerInv
<1>6. ASSUME NEW more \in BOOLEAN, connect_priority_timeout(more) PROVE TimerInv'
  BY <1>6, TimersPriority, Zenon
<1>7. CASE netresolve_connect_next
  <2>1. /\ owed' = 1 /\ stack' = <<Loop>> /\ phase = "connecting"
        /\ UNCHANGED <<mode, phase, state, watch, timeout, priority, skip, fault>>
    BY <1>7, Zenon DEF netresolve_connect_next, Running
  <2>2. WatchesFit'
    BY <2>1, LoopDue, Zenon DEF TimerInv, WatchesFit, SomeReady, Scheduled
  <2>3. OwedFits' /\ InSequence'
    BY <2>1 DEF OwedFits, InSequence
  <2> QED  BY <2>1, <2>2, <2>3, Zenon DEF TimerInv, SomeReady
<1>8. CASE netresolve_connect_free
  <2>1. stack = <<>> /\ UNCHANGED <<mode, stack, owed, asked>>
    BY <1>8, Zenon DEF netresolve_connect_free
  <2>2. CASE fault' = "no_query" /\ UNCHANGED <<phase, state, watch, timeout, priority, skip>>
    BY <2>1, <2>2, Zenon DEF TimerInv, WatchesFit, OwedFits, InSequence, SomeReady, Scheduled, Due, Exhausted
  <2>3. CASE /\ phase' = "freed" /\ state' = [p \in Path |-> "DONE"] /\ watch' = {}
             /\ timeout' = FALSE /\ priority' = FALSE /\ skip' = FALSE /\ fault' = fault
    <3>1. \A p \in Path : state'[p] = "DONE"
      BY <2>3, Zenon
    <3>2. WatchesFit' /\ OwedFits'
      BY <2>1, <2>3, <3>1, Zenon DEF TimerInv, WatchesFit, Scheduled, OwedFits
    <3>3. InSequence'
      BY <2>1, <2>3, Zenon DEF TimerInv, InSequence
    <3> QED  BY <2>1, <2>3, <3>2, <3>3, Zenon DEF TimerInv
  <2> QED  BY <1>8, <2>2, <2>3, ZenonT(30) DEF netresolve_connect_free
<1> QED  BY <1>1, <1>2, <1>3, <1>4, <1>5, <1>6, <1>7, <1>8, Zenon DEF Next, Step, PriorityTimer

(* What is owed becomes less only when a socket is delivered.              *)
LEMMA PickupPreference ==
    ASSUME NEW s \in [Path -> SocketState], NEW w, NEW t, NEW k \in BOOLEAN, NEW frames, NEW more,
           owed \in Int, pickup_connected_socket(s, w, t, k, frames, more), owed' < owed
    PROVE  \E found \in Path :
               /\ s[found] = "READY" /\ state' = [s EXCEPT ![found] = "DONE"]
               /\ \A q \in Path : q < found /\ s[q] = "SCHEDULED" => k
<1>1. \/ \E found \in Path :
            /\ s[found] = "READY"
            /\ \A q \in Path : q < found /\ s[q] = "SCHEDULED" => k
            /\ deliver(s, w, k, found, frames, more)
      \/ owed' = owed
  BY PickupCases, Zenon
<1>2. PICK found \in Path :
            /\ s[found] = "READY"
            /\ \A q \in Path : q < found /\ s[q] = "SCHEDULED" => k
            /\ deliver(s, w, k, found, frames, more)
  BY <1>1
<1>3. owed' # owed
  OBVIOUS
<1>4. state' = [s EXCEPT ![found] = "DONE"]
  BY <1>2, <1>3, ZenonT(30) DEF deliver
<1> QED  BY <1>2, <1>4, ZenonT(30)

(* A socket is delivered before an earlier connection is made or given up  *)
(* only by the priority timer.                                             *)
LEMMA PreferenceStep ==
    ASSUME OrderInv, TimerInv, Next, owed' < owed,
           NEW p \in Path, NEW q \in Path, q < p, state[p] # "DONE", state'[p] = "DONE", state'[q] = "SCHEDULED"
    PROVE  priority
<1>0. state \in [Path -> SocketState] /\ owed \in Int /\ skip = FALSE /\ q # p /\ owed' # owed
  BY ConnectAssumption DEF OrderInv, Types, TimerInv, Path
<1>1. ASSUME NEW e \in Outcome, NEW more \in BOOLEAN, enable_sockets(e, more) PROVE priority
  <2>1. stack # <<>> /\ Candidates(stack[Len(stack)]) # {}
    BY <1>1, ZenonT(30) DEF enable_sockets
  <2>2. state[Turn] = "NONE" /\ connect_check(Turn, e, TRUE, TurnFrames, more)
    BY <1>0, <1>1, ZenonT(30) DEF enable_sockets, Turn, TurnFrames, Met, OrderInv, Types
  <2> DEFINE v == IF e = "connected" THEN "READY" ELSE "DONE"
             s == [state EXCEPT ![Turn] = v]
  <2>3. state[Turn] = "NONE" /\ pickup_connected_socket(s, watch \ {Turn}, TRUE, skip, TurnFrames, more)
    BY <1>0, <2>2, Zenon DEF connect_check
  <2>4. v \in {"READY", "DONE"} /\ s \in [Path -> SocketState]
    BY <1>0, Zenon DEF SocketState
  <2>5. v = "READY" => mode.sequential
    <3>1. e = "connected" => mode.datagram
      BY <1>1, Zenon DEF Outcome
    <3> QED  BY <3>1, Zenon DEF TimerInv, Orderly
  <2> HIDE DEF v
  <2>6. PICK found \in Path : s[found] = "READY" /\ state' = [s EXCEPT ![found] = "DONE"]
    <3> HIDE DEF s
    <3> QED  BY <1>0, <2>3, <2>4, PickupPreference, ZenonT(30)
  <2>7. s[q] = "SCHEDULED"
    BY <2>4, <2>6, Zenon
  <2>8. s[q] # "SCHEDULED"
    BY <2>1, <2>3, <2>4, <2>5, <2>6, TurnLeavesNone, Zenon
  <2> QED  BY <2>7, <2>8, Zenon
<1>2. ASSUME NEW r \in Path, NEW e \in {"connected", "failed"}, NEW more \in BOOLEAN, connect_ready(r, e, more)
      PROVE  priority
  <2> DEFINE v == IF e = "connected" THEN "READY" ELSE "DONE"
             s == [state EXCEPT ![r] = v]
  <2>1. r \in watch /\ pickup_connected_socket(s, watch \ {r}, timeout, skip, <<>>, more)
    BY <1>2, Zenon DEF connect_ready, connect_check
  <2>2. state[r] = "SCHEDULED"
    BY <2>1, Zenon DEF OrderInv, Watched
  <2>3. v \in {"READY", "DONE"} /\ s \in [Path -> SocketState]
    BY <1>0, Zenon DEF SocketState
  <2> HIDE DEF v
  <2>4. PICK found \in Path : /\ s[found] = "READY" /\ state' = [s EXCEPT ![found] = "DONE"]
                              /\ \A x \in Path : x < found /\ s[x] = "SCHEDULED" => skip
    <3> HIDE DEF s
    <3> QED  BY <1>0, <2>1, <2>3, PickupPreference, ZenonT(30)
  <2>5. s[q] = "SCHEDULED" /\ q # found /\ q # r /\ state[q] = "SCHEDULED"
    BY <1>0, <2>3, <2>4, Zenon
  <2>6. p # found
    BY <1>0, <2>4, <2>5, Zenon
  <2>7. s[p] = "DONE" /\ p = r
    BY <1>0, <2>3, <2>4, <2>6, Zenon
  <2>8. state[found] = "READY" /\ found # r
    BY <1>0, <2>4, <2>6, <2>7, Zenon
  <2> QED  BY <2>2, <2>5, <2>8, NoThree, Zenon DEF OrderInv
<1>3. ASSUME NEW more \in BOOLEAN, connect_priority_timeout(more) PROVE priority
  BY <1>3, Zenon DEF connect_priority_timeout
<1>4. CASE enable_sockets_end \/ connect_prepare \/ connect_timeout \/ netresolve_connect_free
  BY <1>0, <1>4, ZenonT(30) DEF enable_sockets_end, connect_prepare, connect_timeout, netresolve_connect_free
<1>5. CASE netresolve_connect_next
  BY <1>0, <1>5, Zenon DEF netresolve_connect_next
<1> QED  BY <1>1, <1>2, <1>3, <1>4, <1>5, Zenon DEF Next, Step, PriorityTimer

(* A request for a local socket: no path is ever attempted, one loop runs  *)
(* at a time and clears the connection timer at its end.                   *)
LocalInv ==
    /\ mode \in Mode /\ mode.local
    /\ fault # "assert"
    /\ \A p \in Path : state[p] \in {"NONE", "DONE"}
    /\ watch = {} /\ ~priority /\ ~skip /\ owed = 1
    /\ stack = <<>> => timeout = FALSE
    /\ stack = <<>> \/ \E i \in Int : stack = <<[at |-> i, seen |-> {}]>>

(* What the loop of a local request does.                                  *)
LEMMA LocalLoop ==
    ASSUME LocalInv, stack # <<>>
    PROVE  /\ Len(stack) = 1 /\ stack[1].seen = {} /\ SubSeq(stack, 1, Len(stack) - 1) = <<>>
           /\ \A i : [stack EXCEPT ![1] = [at |-> i, seen |-> {}]] = <<[at |-> i, seen |-> {}]>>
<1>1. PICK i \in Int : stack = <<[at |-> i, seen |-> {}]>>
  BY Zenon DEF LocalInv
<1>2. Len(stack) = 1 /\ stack[1].seen = {} /\ SubSeq(stack, 1, Len(stack) - 1) = <<>>
  BY <1>1
<1>3. ASSUME NEW j PROVE [stack EXCEPT ![1] = [at |-> j, seen |-> {}]] = <<[at |-> j, seen |-> {}]>>
  <2> DEFINE r == [at |-> j, seen |-> {}]
             o == [at |-> i, seen |-> {}]
  <2>1. stack = <<o>>
    BY <1>1, Zenon
  <2> HIDE DEF r, o
  <2>2. [<<o>> EXCEPT ![1] = r] = <<r>>
    OBVIOUS
  <2> QED  BY <2>1, <2>2, Zenon DEF r
<1> QED  BY <1>2, <1>3, Zenon

(* A turn of the loop passes over a local path.                            *)
LEMMA LocalTurn ==
    ASSUME LocalInv, NEW e, NEW more, enable_sockets(e, more)
    PROVE  LocalInv'
<1> DEFINE p == First(Candidates(stack[Len(stack)]))
<1>1. /\ stack # <<>> /\ Candidates(stack[Len(stack)]) # {} /\ mode.local
      /\ UNCHANGED <<mode, state, priority, skip, owed, fault>>
      /\ watch' = resume(p)
      /\ stack' = [stack EXCEPT ![Len(stack)] = [at |-> After(p), seen |-> stack[Len(stack)].seen]]
  BY ZenonT(30) DEF enable_sockets, Met, LocalInv
<1>2. Candidates(stack[Len(stack)]) \in SUBSET Nat
  BY ConnectAssumption DEF Candidates, Path
<1>3. p \in Candidates(stack[Len(stack)]) /\ p \in Path
  BY <1>1, <1>2, FirstIsLeast, Zenon DEF Candidates
<1> HIDE DEF p
<1>4. After(p) \in Int
  BY <1>3, ConnectAssumption DEF After, End, Path
<1>5. watch' = {}
  BY <1>1, <1>3, Zenon DEF resume, LocalInv
<1>6. stack' = <<[at |-> After(p), seen |-> {}]>>
  BY <1>1, LocalLoop, Zenon
<1>7. stack' # <<>>
  BY <1>6
<1> QED  BY <1>1, <1>4, <1>5, <1>6, <1>7, Zenon DEF LocalInv

(* Every step keeps it so, and gives the application no socket.            *)
LEMMA LocalStep ==
    ASSUME LocalInv, Next
    PROVE  LocalInv' /\ owed' = owed
<1>1. ASSUME NEW e \in Outcome, NEW more \in BOOLEAN, enable_sockets(e, more) PROVE LocalInv'
  BY <1>1, LocalTurn, Zenon
<1>2. CASE enable_sockets_end
  <2>1. stack # <<>> /\ stack' = <<>>
    BY <1>2, LocalLoop, Zenon DEF enable_sockets_end
  <2>2. timeout' = FALSE /\ priority' = FALSE /\ UNCHANGED <<mode, state, watch, skip, owed, fault>>
    BY <1>2, <2>1, LocalLoop, Zenon DEF enable_sockets_end
  <2> QED  BY <2>1, <2>2, Zenon DEF LocalInv
<1>3. CASE connect_prepare
  <2>1. fault' # "assert" /\ UNCHANGED <<mode, state, watch, timeout, priority, skip, owed>>
    BY <1>3, Zenon DEF connect_prepare, LocalInv
  <2>2. stack = <<>> /\ (stack' = <<>> \/ stack' = <<[at |-> 1, seen |-> {}]>>)
    BY <1>3, Zenon DEF connect_prepare, Loop
  <2>3. 1 \in Int /\ <<[at |-> 1, seen |-> {}]>> # <<>>
    OBVIOUS
  <2> QED  BY <2>1, <2>2, <2>3, Zenon DEF LocalInv
<1>4. ASSUME NEW p \in Path, NEW e, NEW more, connect_ready(p, e, more) PROVE LocalInv'
  BY <1>4, Zenon DEF connect_ready, LocalInv
<1>5. CASE connect_timeout
  BY <1>5, Zenon DEF connect_timeout, LocalInv
<1>6. ASSUME NEW more, connect_priority_timeout(more) PROVE LocalInv'
  BY <1>6, Zenon DEF connect_priority_timeout, LocalInv
<1>7. CASE netresolve_connect_next
  <2>1. owed <= 0 /\ owed = 1
    BY <1>7, Zenon DEF netresolve_connect_next, LocalInv
  <2> QED  BY <2>1
<1>8. CASE netresolve_connect_free
  <2>1. stack = <<>> /\ UNCHANGED <<mode, stack, owed>>
    BY <1>8, Zenon DEF netresolve_connect_free
  <2>2. CASE fault' = "no_query" /\ UNCHANGED <<phase, state, watch, timeout, priority, skip>>
    BY <2>1, <2>2, Zenon DEF LocalInv
  <2>3. CASE /\ state' = [p \in Path |-> "DONE"] /\ watch' = {}
             /\ timeout' = FALSE /\ priority' = FALSE /\ skip' = FALSE /\ fault' = fault
    BY <2>1, <2>3, Zenon DEF LocalInv
  <2> QED  BY <1>8, <2>2, <2>3, ZenonT(30) DEF netresolve_connect_free
<1>9. LocalInv'
  BY <1>1, <1>2, <1>3, <1>4, <1>5, <1>6, <1>7, <1>8, Zenon DEF Next, Step, PriorityTimer
<1> QED  BY <1>9, Zenon DEF LocalInv

(* When netresolve_connect has been called no path is attempted.           *)
LEMMA OrderInit ==
    ASSUME Init, ~mode.local
    PROVE  OrderInv
<1>1. Types
  <2>1. mode \in Mode /\ timeout \in BOOLEAN /\ priority \in BOOLEAN /\ skip \in BOOLEAN
    BY ConnectAssumption, ZenonT(30) DEF Init
  <2>2. state \in [Path -> SocketState] /\ stack \in Seq(Frame)
    BY DEF Init, SocketState
  <2> QED  BY <2>1, <2>2 DEF Init, Types
<1>2. InOrderOf(state) /\ LoopsFit /\ Watched(watch, state)
  BY DEF Init, InOrderOf, LoopsFit, Watched
<1> QED  BY <1>1, <1>2, Zenon DEF OrderInv

(* Nor is a local one.                                                     *)
LEMMA LocalInit ==
    ASSUME Init, mode.local
    PROVE  LocalInv
<1>1. mode \in Mode
  BY ConnectAssumption, Zenon DEF Init
<1> QED  BY <1>1, Zenon DEF Init, LocalInv

(* No timer runs either.                                                   *)
LEMMA TimersInit ==
    ASSUME Init, Modes \subseteq Orderly
    PROVE  TimerInv
BY DEF Init, TimerInv, WatchesFit, Scheduled, SomeReady, OwedFits, InSequence

(* The invariant of the order is about the variables of Connect.           *)
LEMMA OrderStutters ==
    ASSUME OrderInv, UNCHANGED vars
    PROVE  OrderInv'
BY Zenon DEF OrderInv, Types, InOrderOf, LoopsFit, FrameFits, Watched, vars

(* So is that of the timers.                                               *)
LEMMA TimersStutter ==
    ASSUME TimerInv, UNCHANGED vars
    PROVE  TimerInv'
BY Zenon DEF TimerInv, WatchesFit, Scheduled, SomeReady, Due, OwedFits, InSequence, Exhausted, vars

(* So is that of a local request.                                          *)
LEMMA LocalStutters ==
    ASSUME LocalInv, UNCHANGED vars
    PROVE  LocalInv'
BY Zenon DEF LocalInv, vars

(* A query of netresolve_listen leaves the variables of Connect alone.     *)
LEMMA SocketSteps ==
    ASSUME [SocketNext]_socketVars
    PROVE  Next \/ UNCHANGED vars
BY Zenon DEF SocketNext, socketVars

(* Either query begins in an initial state of Connect.                     *)
LEMMA SocketStarts ==
    ASSUME SocketInit
    PROVE  Init
BY Zenon DEF SocketInit

(* Connections are attempted in the order of the paths, whatever the paths *)
(* and the modes.                                                          *)
THEOREM AttemptedInOrder == SocketSpec => []InOrder
<1> DEFINE I == OrderInv \/ LocalInv
<1>1. SocketInit => I
  BY SocketStarts, OrderInit, LocalInit, Zenon
<1>2. I /\ [SocketNext]_socketVars => I'
  BY SocketSteps, OrderStep, OrderStutters, LocalStep, LocalStutters, Zenon
<1>3. I => InOrder
  <2>1. OrderInv => InOrder
    BY Zenon DEF OrderInv, InOrderOf, InOrder
  <2>2. LocalInv => InOrder
    BY Zenon DEF LocalInv, InOrder
  <2> QED  BY <2>1, <2>2, Zenon
<1> QED  BY <1>1, <1>2, <1>3, PTL DEF SocketSpec

(* Both invariants of netresolve_connect, or that of a local request.      *)
ConnectInv == (OrderInv /\ TimerInv) \/ LocalInv

(* They hold throughout, for any number of paths of either family, any     *)
(* number of calls of netresolve_connect_next and any nesting of the       *)
(* loops.                                                                  *)
LEMMA ConnectInvariant ==
    ASSUME Modes \subseteq Orderly
    PROVE  SocketSpec => []ConnectInv
<1>1. SocketInit => ConnectInv
  BY SocketStarts, OrderInit, TimersInit, LocalInit, Zenon DEF ConnectInv
<1>2. ConnectInv /\ [SocketNext]_socketVars => ConnectInv'
  BY SocketSteps, OrderStep, OrderStutters, TimersStep, TimersStutter, LocalStep, LocalStutters, Zenon DEF ConnectInv
<1> QED  BY <1>1, <1>2, PTL DEF SocketSpec

(* Between two handlers of netresolve_connect the timers and the watches   *)
(* agree with the states of the paths, and no assertion of socket.c about  *)
(* them ever fails, for any number of paths.                               *)
THEOREM TimersAlwaysFit ==
    ASSUME Modes \subseteq Orderly
    PROVE  SocketSpec => []TimersFit
<1>1. ASSUME OrderInv, TimerInv, Quiet PROVE watch = IF timeout THEN {p \in Path : state[p] = "SCHEDULED"} ELSE {}
  <2>1. CASE timeout
    <3>1. \A p \in Scheduled : p \in watch
      BY <1>1, <2>1 DEF TimerInv, WatchesFit, Due, Quiet
    <3>2. \A p \in watch : p \in Scheduled
      BY <1>1, Zenon DEF OrderInv, Watched, Types, Scheduled
    <3> QED  BY <2>1, <3>1, <3>2, Zenon DEF Scheduled
  <2>2. CASE ~timeout
    BY <1>1, <2>2, Zenon DEF TimerInv, WatchesFit
  <2> QED  BY <2>1, <2>2, Zenon
<1>2. OrderInv /\ TimerInv => TimersFit
  BY <1>1, Zenon DEF TimerInv, TimersFit, SomeReady
<1>3. LocalInv => TimersFit
  BY Zenon DEF LocalInv, TimersFit, Quiet
<1>4. ConnectInv => TimersFit
  BY <1>2, <1>3, Zenon DEF ConnectInv
<1> QED  BY <1>4, ConnectInvariant, PTL

(* While a socket is owed and paths are left the connection timer of       *)
(* enable_sockets runs, for any number of paths, unless they are local     *)
(* ones; then it never runs between two handlers.                          *)
THEOREM AlwaysTimed ==
    ASSUME Modes \subseteq Orderly
    PROVE  SocketSpec => []WaitingIsTimed
<1>1. ASSUME OrderInv, TimerInv, Quiet, owed > 0, ~Exhausted PROVE timeout /\ ~mode.local
  BY <1>1 DEF OrderInv, Types, TimerInv, OwedFits, Quiet, Running
<1>2. ASSUME LocalInv, Quiet PROVE ~timeout /\ mode.local
  BY <1>2, Zenon DEF LocalInv, Quiet
<1>3. ConnectInv => WaitingIsTimed
  BY <1>1, <1>2, Zenon DEF ConnectInv, WaitingIsTimed
<1> QED  BY <1>3, ConnectInvariant, PTL

(* In sequential mode the application never gets a second socket it did    *)
(* not ask for, for any number of paths: the loop of enable_sockets that   *)
(* is left behind by the delivery has come to its end.                     *)
THEOREM CalledOnce ==
    ASSUME Modes \subseteq Orderly
    PROVE  SocketSpec => []CallbackOnce
<1>1. TimerInv => CallbackOnce
  BY Zenon DEF TimerInv, InSequence, CallbackOnce
<1>2. LocalInv => CallbackOnce
  BY DEF LocalInv, CallbackOnce
<1>3. ConnectInv => CallbackOnce
  BY <1>1, <1>2, Zenon DEF ConnectInv
<1> QED  BY <1>3, ConnectInvariant, PTL

(* pickup_connected_socket delivers no socket while an earlier path is     *)
(* being connected, unless the priority timer was running, for any number  *)
(* of paths.                                                               *)
THEOREM Preference ==
    ASSUME Modes \subseteq Orderly
    PROVE  SocketSpec => PreferenceKept
<1> DEFINE Keeps == owed' < owed =>
                        \A p, q \in Path : q < p /\ state[p] # "DONE" /\ state'[p] = "DONE"
                               /\ state'[q] = "SCHEDULED" => priority
<1>1. ConnectInv /\ [SocketNext]_socketVars => [Keeps]_vars
  <2>1. ASSUME OrderInv, TimerInv, Next PROVE Keeps
    BY <2>1, PreferenceStep, Zenon
  <2>2. ASSUME LocalInv, Next PROVE Keeps
    <3>1. owed' = 1 /\ owed = 1
      BY <2>2, LocalStep, Zenon DEF LocalInv
    <3> QED  BY <3>1
  <2> QED  BY <2>1, <2>2, SocketSteps, Zenon DEF ConnectInv
<1> QED  BY <1>1, ConnectInvariant, PTL DEF SocketSpec, PreferenceKept
=============================================================================
