---------------------------- MODULE EpollProofs ----------------------------
(***************************************************************************)
(* Proofs about the epoll loop, for any number of watches, any number of   *)
(* watches at one address, any size of the batch and any depth of nested   *)
(* loops: events are never stale, and the loop implements Watches.         *)
(***************************************************************************)
EXTENDS EpollLoop, SequenceTheorems, FiniteSetTheorems, TLAPS

(* An event of the batch, and a call of dispatch_events.                   *)
Event == [ptr : Ptr \cup {Null}, gen : 0..MaxGen, done : BOOLEAN]

(* A call of netresolve_epoll_wait or netresolve_epoll_dispatch.           *)
Frame == [mode : {"wait", "dispatch"}, i : Nat, at : {"poll", "scan", "callback"},
          cur : Ptr \cup {Null}, curgen : 0..MaxGen]

(* The types of what the loop keeps.                                       *)
Typed ==
    /\ live \in SUBSET Ptr /\ IsFiniteSet(live)
    /\ gen \in [Ptr -> 0..MaxGen]
    /\ queue \in Seq(Ptr)
    /\ events \in Seq(Event)
    /\ frames \in Seq(Frame)

(* The kernel lists a watch once, and so a batch names it once.            *)
Once ==
    /\ \A k, l \in DOMAIN queue : queue[k] = queue[l] => k = l
    /\ \A k, l \in DOMAIN events : events[k].ptr # Null /\ events[k].ptr = events[l].ptr => k = l

(* The events that are ahead of call f have not been dispatched.           *)
Fresh(f, evs) ==
    f.at # "poll" => \A k \in DOMAIN evs :
        k >= (IF f.at = "scan" THEN f.i ELSE f.i + 1) /\ evs[k].ptr # Null => ~evs[k].done

(* All calls but the innermost are in a callback, of a watch of theirs.    *)
Nested ==
    \A d \in DOMAIN frames :
        /\ d # Depth => frames[d].at = "callback"
        /\ frames[d].at # "poll" => frames[d].i >= 1
        /\ frames[d].at = "callback" => frames[d].cur \in Ptr /\ frames[d].curgen \in 1..MaxGen

(* The inductive invariant.  That a nested loop leaves behind a batch      *)
(* without anything to dispatch is what lets the outer loop go on.         *)
LoopInv ==
    /\ Typed
    /\ NoStaleEvent
    /\ \A p \in live : gen[p] >= 1
    /\ Once
    /\ Nested
    /\ Depth > 0 => Fresh(Top, events)

(* The stack of calls.                                                     *)
LEMMA DepthFacts ==
    ASSUME Typed
    PROVE  /\ Depth \in Nat /\ DOMAIN frames = 1..Depth
           /\ Depth > 0 => Depth \in DOMAIN frames /\ Top \in Frame
           /\ \A d \in DOMAIN frames : frames[d] \in Frame
           /\ DOMAIN events = 1..Len(events) /\ Len(events) \in Nat /\ \A k \in DOMAIN events : events[k] \in Event
           /\ DOMAIN queue = 1..Len(queue) /\ Len(queue) \in Nat /\ \A k \in DOMAIN queue : queue[k] \in Ptr
<1>1. Depth \in Nat /\ DOMAIN frames = 1..Depth /\ \A d \in DOMAIN frames : frames[d] \in Frame
  BY LenProperties, ElementOfSeq, Zenon DEF Typed, Depth
<1>2. Depth > 0 => Depth \in DOMAIN frames
  BY <1>1
<1>3. DOMAIN events = 1..Len(events) /\ Len(events) \in Nat /\ \A k \in DOMAIN events : events[k] \in Event
  BY LenProperties, ElementOfSeq, Zenon DEF Typed
<1>4. DOMAIN queue = 1..Len(queue) /\ Len(queue) \in Nat /\ \A k \in DOMAIN queue : queue[k] \in Ptr
  BY LenProperties, ElementOfSeq, Zenon DEF Typed
<1> QED  BY <1>1, <1>2, <1>3, <1>4, Zenon DEF Top

(* The innermost call changes.                                             *)
LEMMA SetTopFacts ==
    ASSUME Typed, Depth > 0, NEW f \in Frame
    PROVE  /\ SetTop(f) \in Seq(Frame) /\ Len(SetTop(f)) = Depth /\ DOMAIN SetTop(f) = DOMAIN frames
           /\ SetTop(f)[Depth] = f
           /\ \A d \in DOMAIN frames : d # Depth => SetTop(f)[d] = frames[d]
<1>1. Depth \in 1..Len(frames) /\ DOMAIN frames = 1..Depth /\ Len(frames) = Depth /\ frames \in Seq(Frame)
  BY DepthFacts, Zenon DEF Depth, Typed
<1>2. /\ SetTop(f) \in Seq(Frame) /\ Len(SetTop(f)) = Len(frames)
      /\ \A j \in 1..Len(frames) : SetTop(f)[j] = IF j = Depth THEN f ELSE frames[j]
  BY <1>1, ExceptSeq DEF SetTop
<1>3. DOMAIN SetTop(f) = 1..Len(SetTop(f))
  BY <1>2, LenProperties, Zenon
<1> QED  BY <1>1, <1>2, <1>3, Zenon

(* It returns.                                                             *)
LEMMA PopFacts ==
    ASSUME Typed, Depth > 0
    PROVE  /\ Pop \in Seq(Frame) /\ Len(Pop) = Depth - 1 /\ DOMAIN Pop = 1..(Depth - 1)
           /\ \A d \in DOMAIN Pop : Pop[d] = frames[d] /\ d \in DOMAIN frames /\ d # Depth
<1>1. Depth \in Nat /\ DOMAIN frames = 1..Depth /\ \A d \in 1..Depth : frames[d] \in Frame
  BY DepthFacts, Zenon
<1>2. \A d \in 1..(Depth - 1) : frames[d] \in Frame
  BY <1>1
<1>3. /\ Pop \in Seq(Frame) /\ Len(Pop) = IF 1 <= Depth - 1 THEN (Depth - 1) - 1 + 1 ELSE 0
      /\ \A i \in 1..((Depth - 1) - 1 + 1) : Pop[i] = frames[1 + i - 1]
  BY <1>1, <1>2, SubSeqProperties DEF Pop
<1>4. Len(Pop) = Depth - 1
  BY <1>1, <1>3
<1>5. DOMAIN Pop = 1..Len(Pop)
  BY <1>3, LenProperties, Zenon
<1>6. \A d \in 1..(Depth - 1) : Pop[d] = frames[d] /\ d # Depth /\ d \in DOMAIN frames
  BY <1>1, <1>3
<1> QED  BY <1>3, <1>4, <1>5, <1>6, Zenon

(* A list that was searched has lost one entry, and kept the others.       *)
LEMMA WithoutFacts ==
    ASSUME Typed, Once, NEW p
    PROVE  /\ Without(p) \in Seq(Ptr)
           /\ \A k \in DOMAIN Without(p) : Without(p)[k] # p /\ \E j \in DOMAIN queue : Without(p)[k] = queue[j]
           /\ \A k, l \in DOMAIN Without(p) : Without(p)[k] = Without(p)[l] => k = l
<1>0. queue \in Seq(Ptr) /\ DOMAIN queue = 1..Len(queue) /\ Len(queue) \in Nat /\ \A k \in DOMAIN queue : queue[k] \in Ptr
  BY DepthFacts, Zenon DEF Typed
<1>1. CASE ~Listed(p)
  BY <1>0, <1>1, Zenon DEF Without, Listed, Once
<1>2. CASE Listed(p)
  <2> DEFINE k == CHOOSE j \in DOMAIN queue : queue[j] = p
             s == SubSeq(queue, 1, k - 1)
             t == SubSeq(queue, k + 1, Len(queue))
             n == Len(queue)
  <2>1. k \in 1..n /\ queue[k] = p
    BY <1>0, <1>2, Zenon DEF Listed
  <2>2. Without(p) = s \o t
    BY <1>2, Zenon DEF Without
  <2> HIDE DEF k
  <2>3. s \in Seq(Ptr) /\ Len(s) = k - 1 /\ \A i \in 1..(k - 1) : s[i] = queue[i]
    <3>1. \A i \in 1..(k - 1) : queue[i] \in Ptr
      BY <1>0, <2>1
    <3>2. /\ s \in Seq(Ptr) /\ Len(s) = IF 1 <= k - 1 THEN (k - 1) - 1 + 1 ELSE 0
          /\ \A i \in 1..((k - 1) - 1 + 1) : s[i] = queue[1 + i - 1]
      BY <1>0, <2>1, <3>1, SubSeqProperties
    <3> HIDE DEF s
    <3> QED  BY <2>1, <3>2
  <2>4. t \in Seq(Ptr) /\ Len(t) = n - k /\ \A i \in 1..(n - k) : t[i] = queue[k + i]
    <3>1. \A i \in (k + 1)..n : queue[i] \in Ptr
      BY <1>0, <2>1
    <3>2. /\ t \in Seq(Ptr) /\ Len(t) = IF k + 1 <= n THEN n - (k + 1) + 1 ELSE 0
          /\ \A i \in 1..(n - (k + 1) + 1) : t[i] = queue[k + 1 + i - 1]
      BY <1>0, <2>1, <3>1, SubSeqProperties
    <3> HIDE DEF t
    <3>3. n \in Nat /\ k \in Int /\ k <= n
      BY <1>0, <2>1
    <3> HIDE DEF n
    <3>4. Len(t) = n - k /\ n - (k + 1) + 1 = n - k /\ \A i \in 1..(n - k) : k + 1 + i - 1 = k + i
      BY <3>2, <3>3
    <3> QED  BY <3>2, <3>4, Zenon
  <2> HIDE DEF s, t, n
  <2>5. /\ s \o t \in Seq(Ptr) /\ Len(s \o t) = Len(s) + Len(t)
        /\ \A i \in 1..(Len(s) + Len(t)) : (s \o t)[i] = IF i <= Len(s) THEN s[i] ELSE t[i - Len(s)]
    BY <2>3, <2>4, ConcatProperties, Zenon
  <2> DEFINE u == s \o t
  <2>6. DOMAIN u = 1..Len(u)
    BY <2>5, LenProperties, Zenon
  <2> HIDE DEF u
  <2>7. n \in Nat /\ DOMAIN queue = 1..n
    BY <1>0, Zenon DEF n
  <2>8. ASSUME NEW i \in DOMAIN u
        PROVE  /\ i < k => i \in 1..n /\ u[i] = queue[i]
               /\ ~(i < k) => i + 1 \in 1..n /\ u[i] = queue[i + 1]
               /\ i \in Int
    <3>1. k \in Int /\ 1 <= k /\ k <= n /\ n \in Nat
      BY <2>1, <2>7
    <3>2. Len(u) = n - 1 /\ i \in Int /\ 1 <= i /\ i <= n - 1 /\ i \in 1..(Len(s) + Len(t))
      BY <2>3, <2>4, <2>5, <2>6, <3>1 DEF u
    <3>3. CASE i < k
      <4>1. i \in 1..(k - 1) /\ i <= Len(s) /\ i \in 1..n
        BY <2>3, <3>1, <3>2, <3>3
      <4> QED  BY <2>3, <2>5, <3>2, <3>3, <4>1, Zenon DEF u
    <3>4. CASE ~(i < k)
      <4>1. i - (k - 1) \in 1..(n - k) /\ ~(i <= Len(s)) /\ i + 1 \in 1..n /\ k + (i - (k - 1)) = i + 1
        BY <2>3, <3>1, <3>2, <3>4
      <4>2. u[i] = t[i - (k - 1)]
        BY <2>3, <2>5, <3>2, <4>1, Zenon DEF u
      <4> QED  BY <2>4, <3>2, <3>4, <4>1, <4>2, Zenon
    <3> QED  BY <3>3, <3>4, Zenon
  <2>9. ASSUME NEW i \in DOMAIN u PROVE u[i] # p /\ \E j \in DOMAIN queue : u[i] = queue[j]
    BY <2>1, <2>7, <2>8 DEF Once
  <2>10. ASSUME NEW i \in DOMAIN u, NEW j \in DOMAIN u, u[i] = u[j] PROVE i = j
    BY <2>1, <2>7, <2>8, <2>10 DEF Once
  <2> QED  BY <2>2, <2>5, <2>9, <2>10, Zenon DEF u
<1> QED  BY <1>1, <1>2, Zenon

-----------------------------------------------------------------------------
(* The innermost call goes on as f.                                        *)
LEMMA Goes ==
    ASSUME LoopInv, Depth > 0, NEW f \in Frame, frames' = SetTop(f),
           f.at # "poll" => f.i >= 1,
           f.at = "callback" => f.cur \in Ptr /\ f.curgen \in 1..MaxGen
    PROVE  frames' \in Seq(Frame) /\ Nested' /\ Depth' = Depth /\ Top' = f
<1>1. /\ frames' \in Seq(Frame) /\ Len(frames') = Depth /\ DOMAIN frames' = DOMAIN frames
      /\ frames'[Depth] = f
      /\ \A d \in DOMAIN frames : d # Depth => frames'[d] = frames[d]
  BY SetTopFacts, Zenon DEF LoopInv
<1>2. Depth' = Depth /\ Top' = f
  BY <1>1, Zenon DEF Depth, Top
<1>3. Nested'
  BY <1>1, <1>2, Zenon DEF LoopInv, Nested
<1> QED  BY <1>1, <1>2, <1>3, Zenon

(* It returns to the one that called it, which is in a callback.           *)
LEMMA Returns ==
    ASSUME LoopInv, Depth > 0, frames' = Pop
    PROVE  /\ frames' \in Seq(Frame) /\ Nested' /\ Depth' = Depth - 1
           /\ Depth' > 0 => Top'.at = "callback"
<1>1. /\ frames' \in Seq(Frame) /\ Len(frames') = Depth - 1 /\ DOMAIN frames' = 1..(Depth - 1)
      /\ \A d \in DOMAIN frames' : frames'[d] = frames[d] /\ d \in DOMAIN frames /\ d # Depth
  BY PopFacts, Zenon DEF LoopInv
<1>2. Depth' = Depth - 1
  BY <1>1, Zenon DEF Depth
<1>3. Nested'
  BY <1>1, Zenon DEF LoopInv, Nested
<1>4. Depth' > 0 => Depth' \in DOMAIN frames'
  BY <1>1, <1>2, DepthFacts DEF LoopInv
<1>5. Depth' > 0 => Top'.at = "callback"
  BY <1>1, <1>4, Zenon DEF Top, LoopInv, Nested
<1> QED  BY <1>1, <1>2, <1>3, <1>5, Zenon

(* A new watch is in no batch, even when its address has been in one: the  *)
(* events of the watch that was there are disabled.                        *)
LEMMA AddKeeps ==
    ASSUME LoopInv, NEW p \in Ptr, netresolve_watch_add(p)
    PROVE  LoopInv'
<1>1. /\ p \notin live /\ live' = live \cup {p} /\ gen' = [gen EXCEPT ![p] = @ + 1] /\ count' = count + 1
      /\ gen[p] < MaxGen /\ UNCHANGED <<queue, events, frames>>
  BY LoopAssumption DEF netresolve_watch_add, LoopInv, Typed
<1>2. gen' \in [Ptr -> 0..MaxGen] /\ gen'[p] >= 1 /\ \A q \in live : gen'[q] = gen[q]
  BY <1>1, LoopAssumption DEF LoopInv, Typed
<1>3. IsFiniteSet(live') /\ Cardinality(live') = Cardinality(live) + 1
  BY <1>1, FS_AddElement, Zenon DEF LoopInv, Typed
<1>4. Typed'
  BY <1>1, <1>2, <1>3, Zenon DEF LoopInv, Typed
<1>5. NoStaleEvent'
  BY <1>1, <1>2, <1>3, Zenon DEF LoopInv, NoStaleEvent
<1>6. Once' /\ Nested' /\ (Depth > 0 => Fresh(Top, events))'
  BY <1>1, Zenon DEF LoopInv, Once, Nested, Depth, Top, Fresh
<1> QED  BY <1>1, <1>2, <1>4, <1>5, <1>6, Zenon DEF LoopInv

(* remove_watch disables every event of the watch, and takes it off the    *)
(* kernel's list.                                                          *)
LEMMA RemoveKeeps ==
    ASSUME LoopInv, NEW p \in Ptr, netresolve_watch_remove(p)
    PROVE  LoopInv'
<1>1. /\ p \in live /\ live' = live \ {p} /\ queue' = Without(p) /\ count' = count - 1
      /\ events' = [k \in DOMAIN events |-> IF events[k].ptr = p THEN [events[k] EXCEPT !.ptr = Null] ELSE events[k]]
      /\ UNCHANGED <<gen, frames>>
  BY Zenon DEF netresolve_watch_remove
<1>2. IsFiniteSet(live') /\ Cardinality(live') = Cardinality(live) - 1
  BY <1>1, FS_RemoveElement, Zenon DEF LoopInv, Typed
<1>3. /\ queue' \in Seq(Ptr)
      /\ \A k \in DOMAIN queue' : queue'[k] # p /\ \E j \in DOMAIN queue : queue'[k] = queue[j]
      /\ \A k, l \in DOMAIN queue' : queue'[k] = queue'[l] => k = l
  BY <1>1, WithoutFacts, Zenon DEF LoopInv
<1>4. /\ DOMAIN events = 1..Len(events) /\ Len(events) \in Nat /\ \A k \in DOMAIN events : events[k] \in Event
  BY DepthFacts, Zenon DEF LoopInv
<1>5. ASSUME NEW k \in DOMAIN events
      PROVE  events'[k] \in Event /\ events'[k].done = events[k].done /\ events'[k].gen = events[k].gen
             /\ events'[k].ptr = IF events[k].ptr = p THEN Null ELSE events[k].ptr
  <2>1. events[k] \in Event
    BY <1>4, Zenon
  <2>2. events'[k] = IF events[k].ptr = p THEN [events[k] EXCEPT !.ptr = Null] ELSE events[k]
    BY <1>1, Zenon
  <2> QED  BY <2>1, <2>2, Zenon DEF Event
<1>6. DOMAIN events' = DOMAIN events
  BY <1>1, Zenon
<1>7. events' \in Seq(Event)
  BY <1>4, <1>5, <1>6, <1>1
<1>8. Typed'
  BY <1>1, <1>2, <1>3, <1>7, Zenon DEF LoopInv, Typed
<1>9. NoStaleEvent'
  BY <1>1, <1>2, <1>3, <1>5, <1>6 DEF LoopInv, NoStaleEvent
<1>10. Once'
  BY <1>3, <1>5, <1>6, Zenon DEF LoopInv, Once
<1>11. Nested'
  BY <1>1, Zenon DEF LoopInv, Nested, Depth
<1>12. (Depth > 0 => Fresh(Top, events))'
  BY <1>1, <1>5, <1>6, Zenon DEF LoopInv, Depth, Top, Fresh
<1> QED  BY <1>1, <1>8, <1>9, <1>10, <1>11, <1>12, Zenon DEF LoopInv

(* The kernel lists a watch once, however often it becomes ready.          *)
LEMMA ReadyKeeps ==
    ASSUME LoopInv, NEW p \in Ptr, Ready(p)
    PROVE  LoopInv'
<1>1. p \in live /\ (\A k \in DOMAIN queue : queue[k] # p) /\ queue' = Append(queue, p) /\ UNCHANGED <<live, gen, events, count, frames>>
  BY Zenon DEF Ready, Listed
<1>2. queue \in Seq(Ptr) /\ DOMAIN queue = 1..Len(queue) /\ Len(queue) \in Nat
  BY DepthFacts, Zenon DEF LoopInv, Typed
<1>3. /\ queue' \in Seq(Ptr) /\ Len(queue') = Len(queue) + 1
      /\ \A i \in 1..Len(queue) : queue'[i] = queue[i]
      /\ queue'[Len(queue) + 1] = p
  BY <1>1, <1>2, AppendProperties
<1>4. DOMAIN queue' = 1..(Len(queue) + 1)
  BY <1>3, LenProperties, Zenon
<1>5. \A k \in DOMAIN queue' : k = Len(queue) + 1 \/ k \in DOMAIN queue
  BY <1>2, <1>4
<1>6. \A k \in DOMAIN queue' : queue'[k] = IF k = Len(queue) + 1 THEN p ELSE queue[k]
  BY <1>2, <1>3, <1>5, Zenon
<1>7. Typed'
  BY <1>1, <1>3, Zenon DEF LoopInv, Typed
<1>8. NoStaleEvent'
  BY <1>1, <1>5, <1>6, Zenon DEF LoopInv, NoStaleEvent
<1>9. Once'
  BY <1>1, <1>5, <1>6 DEF LoopInv, Once
<1>10. Nested' /\ (Depth > 0 => Fresh(Top, events))'
  BY <1>1, Zenon DEF LoopInv, Nested, Depth, Top, Fresh
<1> QED  BY <1>1, <1>7, <1>8, <1>9, <1>10, Zenon DEF LoopInv

(* A callback that starts a nested loop does not disturb the outer ones.   *)
LEMMA EnterKeeps ==
    ASSUME LoopInv, NEW mode \in {"wait", "dispatch"}, Enter(mode)
    PROVE  LoopInv'
<1> DEFINE f == [mode |-> mode, i |-> 0, at |-> "poll", cur |-> Null, curgen |-> 0]
<1>1. InCode /\ frames' = Append(frames, f) /\ UNCHANGED <<live, gen, queue, events, count>>
  BY Zenon DEF Enter
<1>2. f \in Frame /\ f.at = "poll"
  BY LoopAssumption DEF Frame
<1> HIDE DEF f
<1>3. frames \in Seq(Frame) /\ Depth \in Nat /\ DOMAIN frames = 1..Depth
  BY DepthFacts, Zenon DEF LoopInv, Typed
<1>4. /\ frames' \in Seq(Frame) /\ Len(frames') = Depth + 1
      /\ \A i \in 1..Depth : frames'[i] = frames[i]
      /\ frames'[Depth + 1] = f
  BY <1>1, <1>2, <1>3, AppendProperties DEF Depth
<1>5. Depth' = Depth + 1 /\ Top' = f
  BY <1>4, Zenon DEF Depth, Top
<1>6. DOMAIN frames' = 1..(Depth + 1)
  BY <1>4, LenProperties, Zenon
<1>7. \A d \in DOMAIN frames' : d = Depth + 1 \/ (d \in DOMAIN frames /\ frames'[d] = frames[d])
  BY <1>3, <1>4, <1>6
<1>8. \A d \in DOMAIN frames : frames[d].at = "callback"
  BY <1>1, <1>3 DEF InCode, Top, LoopInv, Nested
<1>9. Nested'
  BY <1>2, <1>4, <1>5, <1>7, <1>8, Zenon DEF LoopInv, Nested
<1>10. Typed' /\ NoStaleEvent' /\ Once'
  BY <1>1, <1>4, Zenon DEF LoopInv, Typed, NoStaleEvent, Once
<1>11. Fresh(Top, events)'
  BY <1>2, <1>5, Zenon DEF Fresh
<1> QED  BY <1>1, <1>9, <1>10, <1>11, Zenon DEF LoopInv

(* A netresolve_epoll_wait returns to its caller when there are no         *)
(* watches: then the batch has nothing left to dispatch.                   *)
LEMMA WaitReturnsKeeps ==
    ASSUME LoopInv, WaitReturns
    PROVE  LoopInv'
<1>1. Depth > 0 /\ count <= 0 /\ frames' = Pop /\ UNCHANGED <<live, gen, queue, events, count>>
  BY Zenon DEF WaitReturns
<1>2. /\ frames' \in Seq(Frame) /\ Nested' /\ Depth' = Depth - 1
      /\ Depth' > 0 => Top'.at = "callback"
  BY <1>1, Returns, Zenon
<1>3. live = {}
  <2>1. Cardinality(live) \in Nat /\ Cardinality(live) <= 0
    BY <1>1, FS_CardinalityType, Zenon DEF LoopInv, Typed, NoStaleEvent
  <2> QED  BY <2>1, FS_EmptySet DEF LoopInv, Typed
<1>4. \A k \in DOMAIN events : events[k].ptr = Null
  BY <1>3, Zenon DEF LoopInv, NoStaleEvent
<1>5. Typed' /\ NoStaleEvent' /\ Once'
  BY <1>1, <1>2, Zenon DEF LoopInv, Typed, NoStaleEvent, Once
<1>6. Fresh(Top, events)'
  BY <1>1, <1>4, Zenon DEF Fresh
<1> QED  BY <1>1, <1>2, <1>5, <1>6, Zenon DEF LoopInv

(* What epoll_wait hands out: watches of the list, each once; and the list *)
(* is the same but for its order.                                          *)
LEMMA BatchFacts ==
    ASSUME Typed, Once, NEW n \in 0..Len(queue)
    PROVE  LET batch == SubSeq(queue, 1, n)
               rest == SubSeq(queue, n + 1, Len(queue)) \o batch
           IN  /\ batch \in Seq(Ptr) /\ \A k \in 1..n : k \in DOMAIN queue /\ batch[k] = queue[k]
               /\ rest \in Seq(Ptr) /\ \A k \in DOMAIN rest : \E j \in DOMAIN queue : rest[k] = queue[j]
               /\ \A k, l \in DOMAIN rest : rest[k] = rest[l] => k = l
<1> DEFINE N == Len(queue)
           batch == SubSeq(queue, 1, n)
           tail == SubSeq(queue, n + 1, N)
           rest == tail \o batch
<1>0. N \in Nat /\ n \in Nat /\ n <= N /\ DOMAIN queue = 1..N /\ \A k \in 1..N : queue[k] \in Ptr
  BY DepthFacts
<1>1. batch \in Seq(Ptr) /\ Len(batch) = n /\ \A i \in 1..n : batch[i] = queue[i]
  <2>1. \A i \in 1..n : queue[i] \in Ptr
    BY <1>0
  <2>2. /\ batch \in Seq(Ptr) /\ Len(batch) = IF 1 <= n THEN n - 1 + 1 ELSE 0
        /\ \A i \in 1..(n - 1 + 1) : batch[i] = queue[1 + i - 1]
    BY <1>0, <2>1, SubSeqProperties
  <2> HIDE DEF batch
  <2> QED  BY <1>0, <2>2
<1>2. tail \in Seq(Ptr) /\ Len(tail) = N - n /\ \A i \in 1..(N - n) : tail[i] = queue[n + i]
  <2>1. \A i \in (n + 1)..N : queue[i] \in Ptr
    BY <1>0
  <2>2. /\ tail \in Seq(Ptr) /\ Len(tail) = IF n + 1 <= N THEN N - (n + 1) + 1 ELSE 0
        /\ \A i \in 1..(N - (n + 1) + 1) : tail[i] = queue[n + 1 + i - 1]
    BY <1>0, <2>1, SubSeqProperties
  <2> HIDE DEF tail, N
  <2>3. Len(tail) = N - n /\ N - (n + 1) + 1 = N - n /\ \A i \in 1..(N - n) : n + 1 + i - 1 = n + i
    BY <1>0, <2>2
  <2> QED  BY <2>2, <2>3, Zenon
<1> HIDE DEF batch, tail
<1>3. /\ rest \in Seq(Ptr) /\ Len(rest) = Len(tail) + Len(batch)
      /\ \A i \in 1..(Len(tail) + Len(batch)) : rest[i] = IF i <= Len(tail) THEN tail[i] ELSE batch[i - Len(tail)]
  BY <1>1, <1>2, ConcatProperties, Zenon
<1>4. DOMAIN rest = 1..Len(rest)
  BY <1>3, LenProperties, Zenon
<1> HIDE DEF N, rest
<1>5. ASSUME NEW i \in DOMAIN rest
      PROVE  /\ i \in Int
             /\ i <= N - n => n + i \in 1..N /\ rest[i] = queue[n + i]
             /\ ~(i <= N - n) => i - (N - n) \in 1..N /\ rest[i] = queue[i - (N - n)] /\ i - (N - n) <= n
  <2>1. i \in Int /\ 1 <= i /\ i <= N /\ i \in 1..(Len(tail) + Len(batch))
    BY <1>0, <1>1, <1>2, <1>3, <1>4
  <2>2. CASE i <= N - n
    <3>1. i \in 1..(N - n) /\ n + i \in 1..N
      BY <1>0, <2>1, <2>2
    <3> QED  BY <1>2, <1>3, <2>1, <2>2, <3>1, Zenon
  <2>3. CASE ~(i <= N - n)
    <3>1. i - (N - n) \in 1..n /\ i - (N - n) \in 1..N /\ i - (N - n) <= n
      BY <1>0, <2>1, <2>3
    <3> QED  BY <1>1, <1>2, <1>3, <2>1, <2>3, <3>1
  <2> QED  BY <2>2, <2>3, Zenon
<1>6. \A k \in DOMAIN rest : \E j \in DOMAIN queue : rest[k] = queue[j]
  BY <1>0, <1>5, Zenon
<1>7. ASSUME NEW k \in DOMAIN rest, NEW l \in DOMAIN rest, rest[k] = rest[l] PROVE k = l
  <2> DEFINE pos(i) == IF i <= N - n THEN n + i ELSE i - (N - n)
  <2>1. pos(k) \in 1..N /\ rest[k] = queue[pos(k)] /\ pos(l) \in 1..N /\ rest[l] = queue[pos(l)]
    BY <1>5, Zenon
  <2>2. pos(k) = pos(l)
    <3> HIDE DEF pos
    <3> QED  BY <1>0, <1>7, <2>1, Zenon DEF Once
  <2>3. k \in Int /\ l \in Int /\ (k > N - n => pos(k) <= n) /\ (l > N - n => pos(l) <= n) /\ k >= 1 /\ l >= 1
    BY <1>0, <1>1, <1>2, <1>3, <1>4, <1>5
  <2> QED  BY <1>0, <2>2, <2>3
<1>8. \A k \in 1..n : k \in DOMAIN queue
  BY <1>0
<1> QED  BY <1>1, <1>3, <1>6, <1>7, <1>8, Zenon DEF batch, tail, rest, N

(* epoll_wait fills the batch.                                             *)
LEMMA PollFacts ==
    ASSUME LoopInv, epoll_wait
    PROVE  /\ Depth > 0 /\ UNCHANGED <<live, gen, count>>
           /\ frames' = SetTop([Top EXCEPT !.i = 1, !.at = "scan"])
           /\ queue' \in Seq(Ptr) /\ \A k \in DOMAIN queue' : queue'[k] \in live
           /\ \A k, l \in DOMAIN queue' : queue'[k] = queue'[l] => k = l
           /\ events' \in Seq(Event)
           /\ \A k \in DOMAIN events' : /\ events'[k].ptr \in live /\ events'[k].gen = gen[events'[k].ptr]
                                        /\ ~events'[k].done
           /\ \A k, l \in DOMAIN events' : events'[k].ptr = events'[l].ptr => k = l
<1> DEFINE n == IF Len(queue) < MaxEvents THEN Len(queue) ELSE MaxEvents
           batch == SubSeq(queue, 1, n)
           rest == SubSeq(queue, n + 1, Len(queue)) \o batch
<1>1. /\ Depth > 0 /\ UNCHANGED <<live, gen, count>>
      /\ frames' = SetTop([Top EXCEPT !.i = 1, !.at = "scan"])
      /\ events' = [k \in 1..n |-> [ptr |-> batch[k], gen |-> gen[batch[k]], done |-> FALSE]]
      /\ queue' = rest
  BY Zenon DEF epoll_wait
<1>2. n \in 0..Len(queue)
  BY DepthFacts, LoopAssumption DEF LoopInv
<1> HIDE DEF n
<1>3. /\ batch \in Seq(Ptr) /\ \A k \in 1..n : k \in DOMAIN queue /\ batch[k] = queue[k]
      /\ rest \in Seq(Ptr) /\ \A k \in DOMAIN rest : \E j \in DOMAIN queue : rest[k] = queue[j]
      /\ \A k, l \in DOMAIN rest : rest[k] = rest[l] => k = l
  BY <1>2, BatchFacts, Zenon DEF LoopInv
<1> HIDE DEF batch, rest
<1>4. \A k \in DOMAIN queue' : queue'[k] \in live
  BY <1>1, <1>3, Zenon DEF LoopInv, NoStaleEvent
<1>5. DOMAIN events' = 1..n
  BY <1>1, Zenon
<1>6. ASSUME NEW k \in 1..n
      PROVE  /\ events'[k] \in Event /\ events'[k].ptr = queue[k] /\ events'[k].ptr \in live
             /\ events'[k].gen = gen[events'[k].ptr] /\ ~events'[k].done
  <2>1. batch[k] = queue[k] /\ batch[k] \in live /\ batch[k] \in Ptr /\ gen[batch[k]] \in 0..MaxGen
    BY <1>3, Zenon DEF LoopInv, NoStaleEvent, Typed
  <2>2. events'[k] = [ptr |-> batch[k], gen |-> gen[batch[k]], done |-> FALSE]
    BY <1>1, Zenon
  <2> QED  BY <2>1, <2>2 DEF Event
<1>7. n \in Nat
  BY <1>2, DepthFacts DEF LoopInv
<1>8. events' \in Seq(Event)
  BY <1>1, <1>5, <1>6, <1>7
<1>9. \A k, l \in DOMAIN events' : events'[k].ptr = events'[l].ptr => k = l
  BY <1>3, <1>5, <1>6 DEF LoopInv, Once
<1> QED  BY <1>1, <1>3, <1>4, <1>5, <1>6, <1>8, <1>9, Zenon

(* epoll_wait overwrites the batch with events of live watches.            *)
LEMMA PollKeeps ==
    ASSUME LoopInv, epoll_wait
    PROVE  LoopInv'
<1> DEFINE f == [Top EXCEPT !.i = 1, !.at = "scan"]
<1>1. f \in Frame /\ f.at = "scan" /\ f.i = 1
  BY PollFacts, DepthFacts, Zenon DEF LoopInv, Frame
<1>2. frames' = SetTop(f) /\ Depth > 0
  BY PollFacts, Zenon
<1> HIDE DEF f
<1>3. frames' \in Seq(Frame) /\ Nested' /\ Depth' = Depth /\ Top' = f
  BY <1>1, <1>2, Goes
<1>4. Typed'
  BY <1>3, PollFacts, Zenon DEF LoopInv, Typed
<1>5. NoStaleEvent' /\ Once'
  BY PollFacts, Zenon DEF LoopInv, NoStaleEvent, Once
<1>6. Fresh(Top, events)'
  BY PollFacts, Zenon DEF Fresh
<1> QED  BY <1>3, <1>4, <1>5, <1>6, PollFacts, Zenon DEF LoopInv

(* A disabled event is passed over.                                        *)
LEMMA SkipKeeps ==
    ASSUME LoopInv, Skip
    PROVE  LoopInv'
<1> DEFINE f == [Top EXCEPT !.i = @ + 1]
<1>1. /\ Depth > 0 /\ Top.at = "scan" /\ events[Top.i].ptr = Null /\ frames' = SetTop(f)
      /\ UNCHANGED <<live, gen, queue, events, count>>
  BY Zenon DEF Skip
<1>2. Top \in Frame /\ Top.i >= 1 /\ Depth \in DOMAIN frames
  BY <1>1, DepthFacts, Zenon DEF LoopInv, Nested, Top
<1>3. f \in Frame /\ f.at = "scan" /\ f.i = Top.i + 1 /\ f.i >= 1
  BY <1>1, <1>2 DEF Frame
<1> HIDE DEF f
<1>4. frames' \in Seq(Frame) /\ Nested' /\ Depth' = Depth /\ Top' = f
  BY <1>1, <1>3, Goes, Zenon
<1>5. Typed' /\ NoStaleEvent' /\ Once'
  BY <1>1, <1>4, Zenon DEF LoopInv, Typed, NoStaleEvent, Once
<1>6. Fresh(f, events)
  <2>1. Fresh(Top, events) /\ Top.i \in Nat /\ DOMAIN events \in SUBSET Nat
    BY <1>1, <1>2, DepthFacts DEF LoopInv, Frame
  <2> QED  BY <1>1, <1>3, <2>1 DEF Fresh
<1>7. Fresh(Top, events)'
  BY <1>1, <1>4, <1>6, Zenon DEF Fresh
<1> QED  BY <1>1, <1>4, <1>5, <1>7, Zenon DEF LoopInv

(* A dispatch goes to a live watch, for an event that has not been         *)
(* dispatched.                                                             *)
LEMMA DispatchFacts ==
    ASSUME LoopInv, netresolve_dispatch
    PROVE  /\ Depth > 0 /\ Top.at = "scan" /\ Top \in Frame /\ Top.i \in DOMAIN events
           /\ events[Top.i] \in Event /\ events[Top.i].ptr \in live /\ events[Top.i].gen = gen[events[Top.i].ptr]
           /\ ~events[Top.i].done
           /\ frames' = SetTop([Top EXCEPT !.at = "callback", !.cur = events[Top.i].ptr, !.curgen = events[Top.i].gen])
           /\ events' \in Seq(Event) /\ DOMAIN events' = DOMAIN events
           /\ events'[Top.i] = [events[Top.i] EXCEPT !.done = TRUE]
           /\ \A k \in DOMAIN events : k # Top.i => events'[k] = events[k]
           /\ UNCHANGED <<live, gen, queue, count>>
<1>1. /\ Depth > 0 /\ Top.at = "scan" /\ Top.i <= Len(events) /\ events[Top.i].ptr # Null
      /\ frames' = SetTop([Top EXCEPT !.at = "callback", !.cur = events[Top.i].ptr, !.curgen = events[Top.i].gen])
      /\ events' = [events EXCEPT ![Top.i].done = TRUE]
      /\ UNCHANGED <<live, gen, queue, count>>
  BY Zenon DEF netresolve_dispatch
<1>2. Top \in Frame /\ Top.i >= 1 /\ Depth \in DOMAIN frames
  BY <1>1, DepthFacts, Zenon DEF LoopInv, Nested, Top
<1>3. events \in Seq(Event) /\ DOMAIN events = 1..Len(events) /\ Len(events) \in Nat
  BY DepthFacts, Zenon DEF LoopInv, Typed
<1>4. Top.i \in 1..Len(events) /\ Top.i \in Nat
  BY <1>1, <1>2, <1>3 DEF Frame
<1>5. events[Top.i] \in Event
  BY <1>3, <1>4, ElementOfSeq, Zenon
<1>6. /\ events[Top.i].ptr \in live /\ events[Top.i].gen = gen[events[Top.i].ptr]
  BY <1>1, <1>3, <1>4, Zenon DEF LoopInv, NoStaleEvent
<1>7. ~events[Top.i].done
  BY <1>1, <1>3, <1>4 DEF LoopInv, Fresh
<1>8. [events[Top.i] EXCEPT !.done = TRUE] \in Event
  BY <1>5, Zenon DEF Event
<1>9. /\ events' \in Seq(Event) /\ Len(events') = Len(events)
      /\ \A j \in 1..Len(events) : events'[j] = IF j = Top.i THEN [events[Top.i] EXCEPT !.done = TRUE] ELSE events[j]
  <2> DEFINE e == [events[Top.i] EXCEPT !.done = TRUE]
  <2>1. events' = [events EXCEPT ![Top.i] = e]
    BY <1>1, Zenon
  <2>2. e \in Event
    BY <1>8, Zenon
  <2> HIDE DEF e
  <2>3. /\ events' \in Seq(Event) /\ Len(events') = Len(events)
        /\ \A j \in 1..Len(events) : events'[j] = IF j = Top.i THEN e ELSE events[j]
    BY <1>3, <1>4, <2>1, <2>2, ExceptSeq
  <2> QED  BY <2>3, Zenon DEF e
<1>10. DOMAIN events' = 1..Len(events')
  BY <1>9, LenProperties, Zenon
<1> QED  BY <1>1, <1>2, <1>3, <1>4, <1>5, <1>6, <1>7, <1>9, <1>10, Zenon

(* A dispatch marks the event it has come to, and no event ahead.          *)
LEMMA DispatchKeeps ==
    ASSUME LoopInv, netresolve_dispatch
    PROVE  LoopInv'
<1> DEFINE e == events[Top.i]
           f == [Top EXCEPT !.at = "callback", !.cur = e.ptr, !.curgen = e.gen]
<1>1. /\ Depth > 0 /\ Top.at = "scan" /\ Top \in Frame /\ Top.i \in DOMAIN events
      /\ e \in Event /\ e.ptr \in live /\ e.gen = gen[e.ptr]
      /\ frames' = SetTop(f)
      /\ events' \in Seq(Event) /\ DOMAIN events' = DOMAIN events
      /\ events'[Top.i] = [e EXCEPT !.done = TRUE]
      /\ \A k \in DOMAIN events : k # Top.i => events'[k] = events[k]
      /\ UNCHANGED <<live, gen, queue, count>>
  BY DispatchFacts, Zenon
<1>2. e.ptr \in Ptr /\ e.gen \in 1..MaxGen
  BY <1>1, LoopAssumption DEF LoopInv, Typed
<1> HIDE DEF e
<1>3. f \in Frame /\ f.at = "callback" /\ f.i = Top.i /\ f.cur = e.ptr /\ f.curgen = e.gen
  BY <1>1, <1>2, Zenon DEF Frame, Event
<1>4. Top.i >= 1 /\ Top.i \in Nat
  BY <1>1, DepthFacts, Zenon DEF LoopInv, Nested, Top, Frame
<1> HIDE DEF f
<1>5. frames' \in Seq(Frame) /\ Nested' /\ Depth' = Depth /\ Top' = f
  BY <1>1, <1>2, <1>3, <1>4, Goes, Zenon
<1>6. ASSUME NEW k \in DOMAIN events PROVE events'[k].ptr = events[k].ptr /\ events'[k].gen = events[k].gen
  <2>1. CASE k = Top.i
    BY <1>1, <2>1, Zenon DEF Event, e
  <2>2. CASE k # Top.i
    BY <1>1, <2>2, Zenon
  <2> QED  BY <2>1, <2>2, Zenon
<1>7. Typed'
  BY <1>1, <1>5, Zenon DEF LoopInv, Typed
<1>8. NoStaleEvent' /\ Once'
  BY <1>1, <1>6, Zenon DEF LoopInv, NoStaleEvent, Once
<1>9. Fresh(Top, events)'
  <2>1. Fresh(Top, events) /\ DOMAIN events \in SUBSET Nat
    BY <1>1, DepthFacts DEF LoopInv
  <2>2. ASSUME NEW k \in DOMAIN events, k >= Top.i + 1, events'[k].ptr # Null PROVE ~events'[k].done
    <3>1. k # Top.i /\ k >= Top.i
      BY <1>4, <2>1, <2>2
    <3> QED  BY <1>1, <2>1, <2>2, <3>1, Zenon DEF Fresh
  <2>3. Fresh(f, events')
    BY <1>1, <1>3, <2>2, Zenon DEF Fresh
  <2> QED  BY <1>5, <2>3, Zenon DEF Fresh
<1> QED  BY <1>1, <1>5, <1>7, <1>8, <1>9, Zenon DEF LoopInv

(* A callback returns, to a batch that may be another than the one it was  *)
(* called from.                                                            *)
LEMMA ReturnKeeps ==
    ASSUME LoopInv, NEW consumed \in BOOLEAN, Return(consumed)
    PROVE  LoopInv'
<1> DEFINE f == [Top EXCEPT !.at = "scan", !.i = @ + 1, !.cur = Null, !.curgen = 0]
<1>1. /\ Depth > 0 /\ Top.at = "callback" /\ (queue' = Without(Top.cur) \/ queue' = queue)
      /\ frames' = SetTop(f) /\ UNCHANGED <<live, gen, events, count>>
  BY Zenon DEF Return
<1>2. Top \in Frame
  BY <1>1, DepthFacts, Zenon DEF LoopInv
<1>3. f \in Frame /\ f.at = "scan" /\ f.i = Top.i + 1 /\ f.i >= 1 /\ Top.i \in Nat
  <2>1. Top.i \in Nat /\ Top.i + 1 \in Nat /\ Top.i + 1 >= 1 /\ 0 \in 0..MaxGen
    BY <1>2, LoopAssumption DEF Frame
  <2>2. f \in Frame
    BY <1>2, <2>1, Zenon DEF Frame
  <2>3. f.at = "scan" /\ f.i = Top.i + 1
    BY <1>2, Zenon DEF Frame
  <2> QED  BY <2>1, <2>2, <2>3, Zenon
<1> HIDE DEF f
<1>4. frames' \in Seq(Frame) /\ Nested' /\ Depth' = Depth /\ Top' = f
  BY <1>1, <1>3, Goes, Zenon
<1>5. /\ queue' \in Seq(Ptr)
      /\ \A k \in DOMAIN queue' : \E j \in DOMAIN queue : queue'[k] = queue[j]
      /\ \A k, l \in DOMAIN queue' : queue'[k] = queue'[l] => k = l
  <2>1. CASE queue' = queue
    BY <2>1, Zenon DEF LoopInv, Typed, Once
  <2>2. CASE queue' = Without(Top.cur)
    BY <2>2, WithoutFacts DEF LoopInv
  <2> QED  BY <1>1, <2>1, <2>2, Zenon
<1>6. Typed'
  BY <1>1, <1>4, <1>5, Zenon DEF LoopInv, Typed
<1>7. NoStaleEvent' /\ Once'
  BY <1>1, <1>5, Zenon DEF LoopInv, NoStaleEvent, Once
<1>8. Fresh(Top, events)'
  <2>1. Fresh(f, events)
    BY <1>1, <1>3, Zenon DEF LoopInv, Fresh
  <2> QED  BY <1>1, <1>4, <2>1, Zenon DEF Fresh
<1> QED  BY <1>1, <1>4, <1>6, <1>7, <1>8, Zenon DEF LoopInv

(* netresolve_epoll_dispatch returns with an empty batch; any other loop   *)
(* asks the kernel again.                                                  *)
LEMMA EndKeeps ==
    ASSUME LoopInv, EndOfBatch
    PROVE  LoopInv'
<1>1. Depth > 0 /\ UNCHANGED <<live, gen, queue, events, count>>
  BY Zenon DEF EndOfBatch
<1>2. CASE frames' = Pop /\ events = <<>>
  <2>1. /\ frames' \in Seq(Frame) /\ Nested' /\ Depth' = Depth - 1
    BY <1>1, <1>2, Returns, Zenon
  <2>2. DOMAIN events' = {}
    BY <1>1, <1>2
  <2>3. Fresh(Top, events)'
    BY <2>2, Zenon DEF Fresh
  <2>4. Typed' /\ NoStaleEvent' /\ Once'
    BY <1>1, <2>1, Zenon DEF LoopInv, Typed, NoStaleEvent, Once
  <2> QED  BY <1>1, <2>1, <2>3, <2>4, Zenon DEF LoopInv
<1>3. CASE frames' = SetTop([Top EXCEPT !.at = "poll"])
  <2> DEFINE f == [Top EXCEPT !.at = "poll"]
  <2>1. f \in Frame /\ f.at = "poll"
    BY <1>1, DepthFacts, Zenon DEF LoopInv, Frame
  <2>2. frames' = SetTop(f)
    BY <1>3, Zenon
  <2> HIDE DEF f
  <2>3. frames' \in Seq(Frame) /\ Nested' /\ Depth' = Depth /\ Top' = f
    BY <1>1, <2>1, <2>2, Goes, Zenon
  <2>4. Fresh(Top, events)'
    BY <2>1, <2>3, Zenon DEF Fresh
  <2>5. Typed' /\ NoStaleEvent' /\ Once'
    BY <1>1, <2>3, Zenon DEF LoopInv, Typed, NoStaleEvent, Once
  <2> QED  BY <1>1, <2>3, <2>4, <2>5, Zenon DEF LoopInv
<1> QED  BY <1>2, <1>3, Zenon DEF EndOfBatch

(* Every step of the loop, of a callback and of the kernel keeps it.       *)
LEMMA LoopKeeps == LoopInv /\ [Next]_vars => LoopInv'
<1> SUFFICES ASSUME LoopInv, [Next]_vars PROVE LoopInv'
  BY Zenon
<1>1. ASSUME NEW p \in Ptr, netresolve_watch_add(p) \/ netresolve_watch_remove(p) \/ Ready(p) PROVE LoopInv'
  BY <1>1, AddKeeps, RemoveKeeps, ReadyKeeps, Zenon
<1>2. ASSUME NEW mode \in {"wait", "dispatch"}, Enter(mode) PROVE LoopInv'
  BY <1>2, EnterKeeps, Zenon
<1>3. CASE Loop
  BY <1>3, WaitReturnsKeeps, PollKeeps, SkipKeeps, DispatchKeeps, EndKeeps, Zenon DEF Loop
<1>4. ASSUME NEW consumed \in BOOLEAN, Return(consumed) PROVE LoopInv'
  BY <1>4, ReturnKeeps, Zenon
<1>5. CASE UNCHANGED vars
  BY <1>5, Zenon DEF vars, LoopInv, Typed, NoStaleEvent, Once, Nested, Fresh, Depth, Top
<1> QED  BY <1>1, <1>2, <1>3, <1>4, <1>5, Zenon DEF Next

(* It holds before the first watch is added.                               *)
LEMMA LoopStarts == Init => LoopInv
<1> SUFFICES ASSUME Init PROVE LoopInv
  BY Zenon
<1>1. Typed
  BY FS_EmptySet, LoopAssumption DEF Init, Typed
<1>2. NoStaleEvent
  BY FS_EmptySet DEF Init, NoStaleEvent
<1>3. Once /\ Nested
  BY DEF Init, Once, Nested
<1>4. Depth = 0
  BY Zenon DEF Init, Depth
<1> QED  BY <1>1, <1>2, <1>3, <1>4 DEF Init, LoopInv

(* The batch never names a watch that was removed, nor another one that    *)
(* was put at its address, and loop->count is the number of watches,       *)
(* however many there are and however deep the loops are nested.           *)
THEOREM NeverStale == Spec => []NoStaleEvent
<1>1. LoopInv => NoStaleEvent
  BY Zenon DEF LoopInv
<1> QED  BY <1>1, LoopStarts, LoopKeeps, PTL DEF Spec

-----------------------------------------------------------------------------
(* The variables of Watches, as EpollLoop maps them: the watches, the      *)
(* events ahead, and how often each watch is being called.                 *)
watches == {<<p, gen[p]>> : p \in live}

(* The events that are to be dispatched yet.                               *)
Undone == {j \in DOMAIN events : events[j].ptr # Null /\ ~events[j].done}

(* Their watches.                                                          *)
ahead == {<<events[k].ptr, events[k].gen>> : k \in Undone}

(* The calls that are in a callback of watch w.                            *)
Calls(fs, w) == {d \in DOMAIN fs : fs[d].at = "callback" /\ <<fs[d].cur, fs[d].curgen>> = w}

(* Their number, watch by watch.                                           *)
called == [w \in Ptr \X (1..MaxGen) |-> Cardinality(Calls(frames, w))]

(* The watch of a call, or of a live address, is one of Watches'.          *)
LEMMA WatchOf ==
    ASSUME LoopInv, NEW p \in live
    PROVE  <<p, gen[p]>> \in Ptr \X (1..MaxGen) /\ <<p, gen[p]>> \in watches
<1>1. gen[p] \in 1..MaxGen /\ p \in Ptr
  BY LoopAssumption DEF LoopInv, Typed
<1> QED  BY <1>1, Zenon DEF watches

(* The calls of a watch are finitely many.                                 *)
LEMMA CallsFinite ==
    ASSUME Typed, NEW w
    PROVE  IsFiniteSet(Calls(frames, w)) /\ Cardinality(Calls(frames, w)) \in Nat
<1>1. Depth \in Nat /\ DOMAIN frames = 1..Depth
  BY DepthFacts, Zenon
<1>2. IsFiniteSet(1..Depth)
  BY <1>1, FS_Interval
<1>3. Calls(frames, w) \subseteq 1..Depth
  BY <1>1, Zenon DEF Calls
<1>4. IsFiniteSet(Calls(frames, w))
  BY <1>2, <1>3, FS_Subset, Zenon
<1> QED  BY <1>4, FS_CardinalityType, Zenon

(* A step of the loop that neither starts a callback nor ends one leaves   *)
(* the calls alone: it moves the innermost call, which is in none, enters  *)
(* a new one, or returns from it.                                          *)
LEMMA SameCalls ==
    ASSUME \A d \in DOMAIN frames : frames[d].at = "callback" => d \in DOMAIN frames' /\ frames'[d] = frames[d],
           \A d \in DOMAIN frames' : frames'[d].at = "callback" => d \in DOMAIN frames /\ frames'[d] = frames[d]
    PROVE  called' = called
<1>1. \A w : Calls(frames', w) = Calls(frames, w)
  BY Zenon DEF Calls
<1> QED  BY <1>1, Zenon DEF called

(* A loop that moves on outside of a callback.                             *)
LEMMA MovesOn ==
    ASSUME LoopInv, Depth > 0, Top.at # "callback", NEW f \in Frame, f.at # "callback", frames' = SetTop(f)
    PROVE  called' = called
<1>1. /\ DOMAIN frames' = DOMAIN frames /\ frames'[Depth] = f
      /\ \A d \in DOMAIN frames : d # Depth => frames'[d] = frames[d]
  BY SetTopFacts, Zenon DEF LoopInv
<1>2. frames[Depth].at # "callback"
  BY Zenon DEF Top
<1> QED  BY <1>1, <1>2, SameCalls, Zenon

(* A loop that returns.                                                    *)
LEMMA Leaves ==
    ASSUME LoopInv, Depth > 0, Top.at # "callback", frames' = Pop
    PROVE  called' = called
<1>1. /\ DOMAIN frames' = 1..(Depth - 1)
      /\ \A d \in DOMAIN frames' : frames'[d] = frames[d] /\ d \in DOMAIN frames /\ d # Depth
  BY PopFacts, Zenon DEF LoopInv
<1>2. frames[Depth].at # "callback" /\ Depth \in Nat /\ DOMAIN frames = 1..Depth
  BY DepthFacts, Zenon DEF Top, LoopInv
<1>3. \A d \in DOMAIN frames : d # Depth => d \in DOMAIN frames'
  BY <1>1, <1>2
<1> QED  BY <1>1, <1>2, <1>3, SameCalls, Zenon

(* A loop that begins.                                                     *)
LEMMA EnterStutters ==
    ASSUME LoopInv, NEW mode \in {"wait", "dispatch"}, Enter(mode)
    PROVE  called' = called
<1> DEFINE f == [mode |-> mode, i |-> 0, at |-> "poll", cur |-> Null, curgen |-> 0]
<1>1. frames' = Append(frames, f)
  BY Zenon DEF Enter
<1>2. f \in Frame /\ f.at = "poll"
  BY LoopAssumption DEF Frame
<1> HIDE DEF f
<1>3. frames \in Seq(Frame) /\ Depth \in Nat /\ DOMAIN frames = 1..Depth
  BY DepthFacts, Zenon DEF LoopInv, Typed
<1>4. /\ frames' \in Seq(Frame) /\ Len(frames') = Depth + 1
      /\ \A i \in 1..Depth : frames'[i] = frames[i]
      /\ frames'[Depth + 1] = f
  BY <1>1, <1>2, <1>3, AppendProperties DEF Depth
<1>5. DOMAIN frames' = 1..(Depth + 1)
  BY <1>4, LenProperties, Zenon
<1>6. \A d \in DOMAIN frames' : d = Depth + 1 \/ d \in DOMAIN frames
  BY <1>3, <1>5
<1>7. \A d \in DOMAIN frames : d \in DOMAIN frames'
  BY <1>3, <1>5
<1> QED  BY <1>2, <1>3, <1>4, <1>6, <1>7, SameCalls, Zenon

(* netresolve_watch_add is Add.                                            *)
LEMMA AddRefines ==
    ASSUME LoopInv, LoopInv', NEW p \in Ptr, netresolve_watch_add(p)
    PROVE  \E w \in Ptr \X (1..MaxGen) : W!Add(w)
<1> DEFINE w == <<p, gen'[p]>>
<1>1. /\ p \notin live /\ live' = live \cup {p} /\ gen' = [gen EXCEPT ![p] = @ + 1]
      /\ UNCHANGED <<events, frames>>
  BY Zenon DEF netresolve_watch_add
<1>2. \A x \in live : gen'[x] = gen[x]
  BY <1>1, Zenon DEF LoopInv, Typed
<1>3. w \in Ptr \X (1..MaxGen)
  <2>1. gen'[p] \in 1..MaxGen
    BY <1>1, LoopAssumption DEF LoopInv, Typed
  <2> QED  BY <2>1, Zenon
<1>4. watches' = watches \cup {w}
  BY <1>1, <1>2, Zenon DEF watches
<1>5. ahead' = ahead /\ called' = called
  BY <1>1, Zenon DEF ahead, Undone, called, Calls
<1> HIDE DEF w
<1> QED  BY <1>3, <1>4, <1>5, Zenon DEF W!Add, watches, ahead, Undone, called, Calls

(* netresolve_watch_remove is Remove: the events it disables are those of  *)
(* the watch, and all of them.                                             *)
LEMMA RemoveRefines ==
    ASSUME LoopInv, NEW p \in Ptr, netresolve_watch_remove(p)
    PROVE  \E w \in Ptr \X (1..MaxGen) : W!Remove(w)
<1> DEFINE w == <<p, gen[p]>>
<1>1. /\ p \in live /\ live' = live \ {p}
      /\ events' = [k \in DOMAIN events |-> IF events[k].ptr = p THEN [events[k] EXCEPT !.ptr = Null] ELSE events[k]]
      /\ UNCHANGED <<gen, frames>>
  BY Zenon DEF netresolve_watch_remove
<1>2. w \in Ptr \X (1..MaxGen)
  BY <1>1, WatchOf, Zenon
<1>3. watches' = watches \ {w}
  BY <1>1 DEF watches
<1>4. DOMAIN events' = DOMAIN events
  BY <1>1, Zenon
<1>5. ASSUME NEW k \in DOMAIN events
      PROVE  /\ events'[k].done = events[k].done /\ events'[k].gen = events[k].gen
             /\ events'[k].ptr = IF events[k].ptr = p THEN Null ELSE events[k].ptr
  <2>1. events[k] \in Event
    BY DepthFacts, Zenon DEF LoopInv
  <2>2. events'[k] = IF events[k].ptr = p THEN [events[k] EXCEPT !.ptr = Null] ELSE events[k]
    BY <1>1, Zenon
  <2> QED  BY <2>1, <2>2, Zenon DEF Event
<1>6. \A k \in DOMAIN events : events[k].ptr = p => events[k].gen = gen[p]
  BY LoopAssumption, Zenon DEF LoopInv, NoStaleEvent
<1>7. Undone' = {k \in Undone : events[k].ptr # p}
  BY <1>4, <1>5, Zenon DEF Undone
<1>8. ahead' = ahead \ {w}
  <2>1. \A k \in Undone' : events'[k].ptr = events[k].ptr /\ events'[k].gen = events[k].gen
    BY <1>5, <1>7, Zenon DEF Undone
  <2>2. \A k \in Undone : k \in Undone' <=> <<events[k].ptr, events[k].gen>> # w
    BY <1>6, <1>7, Zenon DEF Undone
  <2>3. Undone' \subseteq Undone
    BY <1>7, Zenon
  <2> HIDE DEF w
  <2> QED  BY <2>1, <2>2, <2>3, Zenon DEF ahead
<1>9. called' = called
  BY <1>1, Zenon DEF called, Calls
<1> HIDE DEF w
<1> QED  BY <1>2, <1>3, <1>8, <1>9, Zenon DEF W!Remove, watches, ahead, Undone, called, Calls

(* epoll_wait is Poll: it reports live watches, and forgets what was left  *)
(* of the batch before it.                                                 *)
LEMMA PollRefines ==
    ASSUME LoopInv, epoll_wait
    PROVE  \E S \in SUBSET (Ptr \X (1..MaxGen)) : W!Poll(S)
<1> DEFINE f == [Top EXCEPT !.i = 1, !.at = "scan"]
<1>1. /\ Depth > 0 /\ UNCHANGED <<live, gen>> /\ frames' = SetTop(f)
      /\ \A k \in DOMAIN events' : events'[k].ptr \in live /\ events'[k].gen = gen[events'[k].ptr]
  BY PollFacts, Zenon
<1>2. Top \in Frame /\ Top.at # "callback"
  BY <1>1, DepthFacts, Zenon DEF LoopInv, epoll_wait
<1>3. f \in Frame /\ f.at # "callback"
  BY <1>2, Zenon DEF Frame
<1> HIDE DEF f
<1>4. called' = called
  BY <1>1, <1>2, <1>3, MovesOn, Zenon
<1>5. watches' = watches
  BY <1>1, Zenon DEF watches
<1>6. \A w \in watches : w \in Ptr \X (1..MaxGen)
  BY WatchOf, Zenon DEF watches
<1>7. ahead' \subseteq watches
  BY <1>1, Zenon DEF ahead, Undone, watches
<1>8. ahead' \in SUBSET (Ptr \X (1..MaxGen))
  BY <1>6, <1>7, Zenon
<1> DEFINE S == ahead'
<1>9. S \in SUBSET (Ptr \X (1..MaxGen)) /\ S \subseteq watches /\ ahead' = S
  BY <1>7, <1>8, Zenon
<1> HIDE DEF S
<1> QED  BY <1>4, <1>5, <1>9, Zenon DEF W!Poll, watches, ahead, Undone, called, Calls

(* netresolve_dispatch is Dispatch: the batch names the watch only once,   *)
(* so no other event of it is left.                                        *)
LEMMA DispatchRefines ==
    ASSUME LoopInv, netresolve_dispatch
    PROVE  \E w \in Ptr \X (1..MaxGen) : W!Dispatch(w)
<1> DEFINE e == events[Top.i]
           f == [Top EXCEPT !.at = "callback", !.cur = e.ptr, !.curgen = e.gen]
           w == <<e.ptr, e.gen>>
<1>1. /\ Depth > 0 /\ Top.at = "scan" /\ Top \in Frame /\ Top.i \in DOMAIN events
      /\ e \in Event /\ e.ptr \in live /\ e.gen = gen[e.ptr] /\ ~e.done
      /\ frames' = SetTop(f)
      /\ DOMAIN events' = DOMAIN events
      /\ events'[Top.i] = [e EXCEPT !.done = TRUE]
      /\ \A k \in DOMAIN events : k # Top.i => events'[k] = events[k]
      /\ UNCHANGED <<live, gen>>
  BY DispatchFacts, Zenon
<1>2. w \in Ptr \X (1..MaxGen) /\ w \in watches
  BY <1>1, WatchOf, Zenon
<1>3. e.ptr # Null
  BY <1>1, LoopAssumption, Zenon DEF LoopInv, Typed
<1>4. Top.i \in Undone
  BY <1>1, <1>3, Zenon DEF Undone
<1>5. w \in ahead
  BY <1>4, Zenon DEF ahead
<1>6. Undone' = Undone \ {Top.i}
  <2>1. events'[Top.i].done
    BY <1>1, Zenon DEF Event
  <2>2. ASSUME NEW k \in DOMAIN events PROVE k \in Undone' <=> k \in Undone /\ k # Top.i
    <3>1. CASE k = Top.i
      BY <2>1, <3>1, Zenon DEF Undone
    <3>2. CASE k # Top.i
      BY <1>1, <2>2, <3>2, Zenon DEF Undone
    <3> QED  BY <3>1, <3>2, Zenon
  <2>3. Undone \subseteq DOMAIN events /\ Undone' \subseteq DOMAIN events
    BY <1>1, Zenon DEF Undone
  <2> QED  BY <2>2, <2>3, Zenon
<1>7. \A k \in Undone : events[k].ptr = e.ptr => k = Top.i
  BY <1>1, <1>3, Zenon DEF Undone, LoopInv, Once
<1>8. ahead' = ahead \ {w}
  <2>1. \A k \in Undone : k # Top.i => events'[k] = events[k] /\ <<events[k].ptr, events[k].gen>> # w
    BY <1>1, <1>7, Zenon DEF Undone
  <2>2. <<events[Top.i].ptr, events[Top.i].gen>> = w
    BY Zenon
  <2> HIDE DEF w
  <2> QED  BY <1>4, <1>6, <2>1, <2>2, ZenonT(40) DEF ahead
<1>9. watches' = watches
  BY <1>1, Zenon DEF watches
<1>10. f \in Frame /\ f.at = "callback" /\ <<f.cur, f.curgen>> = w
  BY <1>1, Zenon DEF Frame, Event
<1> HIDE DEF f
<1>11. /\ DOMAIN frames' = DOMAIN frames /\ frames'[Depth] = f
       /\ \A d \in DOMAIN frames : d # Depth => frames'[d] = frames[d]
  BY <1>1, <1>10, SetTopFacts, Zenon DEF LoopInv
<1>12. Depth \in DOMAIN frames /\ frames[Depth].at # "callback"
  BY <1>1, DepthFacts, Zenon DEF Top, LoopInv
<1> HIDE DEF w, e
<1>13. Calls(frames', w) = Calls(frames, w) \cup {Depth} /\ Depth \notin Calls(frames, w)
  BY <1>10, <1>11, <1>12, Zenon DEF Calls
<1>14. ASSUME NEW v, v # w PROVE Calls(frames', v) = Calls(frames, v)
  BY <1>10, <1>11, <1>12, <1>14, Zenon DEF Calls
<1>15. IsFiniteSet(Calls(frames, w)) /\ Cardinality(Calls(frames, w)) \in Nat
  BY CallsFinite, Zenon DEF LoopInv
<1>16. Cardinality(Calls(frames', w)) = Cardinality(Calls(frames, w)) + 1
  BY <1>13, <1>15, FS_AddElement, Zenon
<1>17. called' = [called EXCEPT ![w] = @ + 1]
  BY <1>2, <1>14, <1>16, Zenon DEF called
<1> QED  BY <1>2, <1>5, <1>8, <1>9, <1>17, Zenon DEF W!Dispatch, watches, ahead, Undone, called, Calls

(* The return of a callback is Return of its watch.                        *)
LEMMA ReturnRefines ==
    ASSUME LoopInv, NEW consumed \in BOOLEAN, Return(consumed)
    PROVE  \E w \in Ptr \X (1..MaxGen) : W!Return(w)
<1> DEFINE f == [Top EXCEPT !.at = "scan", !.i = @ + 1, !.cur = Null, !.curgen = 0]
           w == <<Top.cur, Top.curgen>>
<1>1. /\ Depth > 0 /\ Top.at = "callback" /\ frames' = SetTop(f) /\ UNCHANGED <<live, gen, events>>
  BY Zenon DEF Return
<1>2. Top \in Frame /\ Depth \in DOMAIN frames /\ frames[Depth] = Top
  BY <1>1, DepthFacts, Zenon DEF LoopInv, Top
<1>3. w \in Ptr \X (1..MaxGen)
  <2>1. Top.cur \in Ptr /\ Top.curgen \in 1..MaxGen
    BY <1>1, <1>2, Zenon DEF LoopInv, Nested
  <2> QED  BY <2>1, Zenon
<1>4. f \in Frame /\ f.at = "scan"
  <2>1. Top.i + 1 \in Nat /\ 0 \in 0..MaxGen
    BY <1>2, LoopAssumption DEF Frame
  <2> QED  BY <1>2, <2>1, Zenon DEF Frame
<1> HIDE DEF f
<1>5. /\ DOMAIN frames' = DOMAIN frames /\ frames'[Depth] = f
      /\ \A d \in DOMAIN frames : d # Depth => frames'[d] = frames[d]
  BY <1>1, <1>4, SetTopFacts, Zenon DEF LoopInv
<1>6. Calls(frames', w) = Calls(frames, w) \ {Depth} /\ Depth \in Calls(frames, w)
  BY <1>1, <1>2, <1>4, <1>5, Zenon DEF Calls
<1>7. ASSUME NEW v, v # w PROVE Calls(frames', v) = Calls(frames, v)
  BY <1>1, <1>2, <1>4, <1>5, <1>7, Zenon DEF Calls
<1> HIDE DEF w
<1>8. IsFiniteSet(Calls(frames, w)) /\ Cardinality(Calls(frames, w)) \in Nat
  BY CallsFinite, Zenon DEF LoopInv
<1>9. Cardinality(Calls(frames', w)) = Cardinality(Calls(frames, w)) - 1 /\ Cardinality(Calls(frames, w)) > 0
  <2>1. Cardinality(Calls(frames', w)) = Cardinality(Calls(frames, w)) - 1
    BY <1>6, <1>8, FS_RemoveElement, SMTT(40)
  <2>2. Cardinality(Calls(frames, w)) # 0
    BY <1>6, <1>8, FS_EmptySet, Zenon
  <2> QED  BY <1>8, <2>1, <2>2
<1>10. called' = [called EXCEPT ![w] = @ - 1] /\ called[w] > 0
  BY <1>3, <1>7, <1>9, Zenon DEF called
<1>11. watches' = watches /\ ahead' = ahead
  BY <1>1, Zenon DEF watches, ahead, Undone
<1> QED  BY <1>3, <1>10, <1>11, Zenon DEF W!Return, watches, ahead, Undone, called, Calls

(* The other steps of the loop are not visible to Watches.                 *)
LEMMA Stutters ==
    ASSUME LoopInv, WaitReturns \/ Skip \/ EndOfBatch
    PROVE  UNCHANGED <<watches, ahead, called>>
<1>1. UNCHANGED <<live, gen, events>> /\ Depth > 0 /\ Top.at # "callback"
  BY Zenon DEF WaitReturns, Skip, EndOfBatch
<1>2. Top \in Frame /\ Top.i \in Nat
  BY <1>1, DepthFacts, Zenon DEF LoopInv, Frame
<1>3. called' = called
  <2>1. CASE frames' = Pop
    BY <1>1, <2>1, Leaves, Zenon
  <2>2. CASE frames' = SetTop([Top EXCEPT !.at = "poll"])
    <3>1. [Top EXCEPT !.at = "poll"] \in Frame /\ [Top EXCEPT !.at = "poll"].at # "callback"
      BY <1>2, Zenon DEF Frame
    <3> QED  BY <1>1, <2>2, <3>1, MovesOn, Zenon
  <2>3. CASE frames' = SetTop([Top EXCEPT !.i = @ + 1])
    <3>1. Top.i + 1 \in Nat
      BY <1>2
    <3>2. [Top EXCEPT !.i = @ + 1] \in Frame /\ [Top EXCEPT !.i = @ + 1].at # "callback"
      BY <1>1, <1>2, <3>1, Zenon DEF Frame
    <3> QED  BY <1>1, <2>3, <3>2, MovesOn, Zenon
  <2> QED  BY <2>1, <2>2, <2>3, Zenon DEF WaitReturns, Skip, EndOfBatch
<1> QED  BY <1>1, <1>3, Zenon DEF watches, ahead, Undone

(* The epoll loop implements Watches, whatever the callbacks do: they may  *)
(* remove any watch, add others at its address, and run nested loops that  *)
(* overwrite the batch.                                                    *)
THEOREM Refinement == Spec => ImplementsWatches
<1>1. Init => W!Init
  <2> SUFFICES ASSUME Init PROVE W!Init
    BY Zenon
  <2>1. watches = {} /\ Undone = {} /\ \A w : Calls(frames, w) = {}
    BY DEF Init, watches, Undone, Calls
  <2>2. ahead = {}
    BY <2>1, Zenon DEF ahead
  <2>3. called = [w \in Ptr \X (1..MaxGen) |-> 0]
    BY <2>1, FS_EmptySet, Zenon DEF called
  <2> QED  BY <2>1, <2>2, <2>3, Zenon DEF W!Init, watches, ahead, Undone, called, Calls
<1>2. LoopInv /\ LoopInv' /\ [Next]_vars => [W!Next]_<<watches, ahead, called>>
  <2> SUFFICES ASSUME LoopInv, LoopInv', [Next]_vars
               PROVE  W!Next \/ UNCHANGED <<watches, ahead, called>>
    BY Zenon
  <2>1. ASSUME NEW p \in Ptr, netresolve_watch_add(p) PROVE W!Next
    BY <2>1, AddRefines, Zenon DEF W!Next
  <2>2. ASSUME NEW p \in Ptr, netresolve_watch_remove(p) PROVE W!Next
    BY <2>2, RemoveRefines, Zenon DEF W!Next
  <2>3. ASSUME NEW p \in Ptr, Ready(p) PROVE UNCHANGED <<watches, ahead, called>>
    BY <2>3, Zenon DEF Ready, watches, ahead, Undone, called, Calls
  <2>4. ASSUME NEW mode \in {"wait", "dispatch"}, Enter(mode) PROVE UNCHANGED <<watches, ahead, called>>
    <3>1. called' = called
      BY <2>4, EnterStutters, Zenon
    <3> QED  BY <2>4, <3>1, Zenon DEF Enter, watches, ahead, Undone
  <2>5. CASE epoll_wait
    BY <2>5, PollRefines, Zenon DEF W!Next
  <2>6. CASE netresolve_dispatch
    BY <2>6, DispatchRefines, Zenon DEF W!Next
  <2>7. ASSUME NEW consumed \in BOOLEAN, Return(consumed) PROVE W!Next
    BY <2>7, ReturnRefines, Zenon DEF W!Next
  <2>8. CASE WaitReturns \/ Skip \/ EndOfBatch
    BY <2>8, Stutters, Zenon
  <2>9. CASE UNCHANGED vars
    BY <2>9, Zenon DEF vars, watches, ahead, Undone, called, Calls
  <2> QED  BY <2>1, <2>2, <2>3, <2>4, <2>5, <2>6, <2>7, <2>8, <2>9, Zenon DEF Next, Loop
<1> QED  BY LoopStarts, LoopKeeps, <1>1, <1>2, PTL
         DEF Spec, ImplementsWatches, W!Spec, watches, ahead, Undone, called, Calls
=============================================================================
