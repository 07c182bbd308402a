---------------------------- MODULE ListenProofs ----------------------------
(***************************************************************************)
(* Proofs about netresolve_listen (Listen), for any number of paths and of *)
(* descriptors.                                                            *)
(*                                                                         *)
(* ListenInv relates the numbers of the descriptors to their owners.  The  *)
(* loops of listen_callback and of netresolve_listen_free are recursive    *)
(* functions: LoopExists says that there are such functions, and UpTo goes *)
(* through them turn by turn.                                              *)
(***************************************************************************)
EXTENDS Listen, WellFoundedInduction, TLAPS

(* A non-empty set of natural numbers has a least element.                 *)
LEMMA LeastNat ==
    ASSUME NEW T \in SUBSET Nat, T # {}
    PROVE  \E i \in T : \A j \in T : i <= j
<1> DEFINE R == {ss \in Nat \X Nat : ss[1] < ss[2]}
<1>1. IsWellFoundedOn(R, Nat)
  BY NatLessThanWellFounded, Zenon DEF OpToRel
<1>2. PICK i \in T : \A j \in T : ~(<<j, i>> \in R)
  <2> HIDE DEF R
  <2> QED  BY <1>1, WFMin, Zenon
<1>3. ASSUME NEW j \in T PROVE i <= j
  <2>1. ~(<<j, i>>[1] < <<j, i>>[2])
    BY <1>2, Zenon
  <2> QED  BY <2>1
<1> QED  BY <1>3

(* Induction up to N, on a set.                                            *)
LEMMA UpTo ==
    ASSUME NEW N \in Nat, NEW P, 0 \in P, \A i \in 1..N : i - 1 \in P => i \in P
    PROVE  \A i \in 0..N : i \in P
<1> DEFINE T == {n \in 0..N : n \notin P}
<1> SUFFICES ASSUME T # {} PROVE FALSE
  OBVIOUS
<1>1. T \in SUBSET Nat
  OBVIOUS
<1>2. PICK n \in T : \A j \in T : n <= j
  <2> HIDE DEF T
  <2> QED  BY <1>1, LeastNat
<1>3. n \in 1..N /\ n - 1 \in 0..N /\ ~(n <= n - 1)
  OBVIOUS
<1>4. n - 1 \in P
  BY <1>2, <1>3
<1> QED  BY <1>3, <1>4

(* What the turns of a loop may do with a value of S.                      *)
Steps(N, S) == [S \X (1..N) -> S]

(* What a loop of N turns that starts from base has done after each.       *)
Looped(N, S, base, step) ==
    {g \in [0..N -> S] : g[0] = base /\ \A i \in 1..N : g[i] = step[<<g[i - 1], i>>]}

(* Every loop over values of S does something: there is a function from    *)
(* its turns to the values.                                                *)
LEMMA LoopExists ==
    ASSUME NEW N \in Nat, NEW S, NEW base \in S, NEW step \in Steps(N, S)
    PROVE  Looped(N, S, base, step) # {}
<1> DEFINE Upto(n) == \E g \in [0..n -> S] : g[0] = base /\ \A i \in 1..n : g[i] = step[<<g[i - 1], i>>]
<1>1. Upto(0)
  <2> DEFINE g == [i \in 0..0 |-> base]
  <2>1. g \in [0..0 -> S] /\ g[0] = base /\ 1..0 = {}
    OBVIOUS
  <2> HIDE DEF g
  <2> QED  BY <2>1
<1>2. ASSUME NEW n \in 1..N, Upto(n - 1) PROVE Upto(n)
  <2>1. PICK g \in [0..(n - 1) -> S] : g[0] = base /\ \A i \in 1..(n - 1) : g[i] = step[<<g[i - 1], i>>]
    BY <1>2
  <2> DEFINE h == [i \in 0..n |-> IF i = n THEN step[<<g[n - 1], n>>] ELSE g[i]]
  <2>2. n - 1 \in 0..(n - 1) /\ \A i \in 0..n : i # n => i \in 0..(n - 1)
    OBVIOUS
  <2>3. step[<<g[n - 1], n>>] \in S
    BY <2>2 DEF Steps
  <2>4. h \in [0..n -> S]
    BY <2>2, <2>3
  <2>5. h[n] = step[<<g[n - 1], n>>] /\ \A i \in 0..(n - 1) : h[i] = g[i]
    OBVIOUS
  <2> HIDE DEF h
  <2>6. h[0] = base
    BY <2>1, <2>5
  <2>7. ASSUME NEW i \in 1..n PROVE h[i] = step[<<h[i - 1], i>>]
    <3>1. i - 1 \in 0..(n - 1) /\ h[i - 1] = g[i - 1]
      BY <2>5
    <3>2. CASE i = n
      BY <2>5, <3>1, <3>2
    <3>3. CASE i # n
      <4>1. i \in 1..(n - 1) /\ i \in 0..(n - 1)
        BY <3>3
      <4> QED  BY <2>1, <2>5, <3>1, <4>1
    <3> QED  BY <3>2, <3>3
  <2> QED  BY <2>4, <2>6, <2>7
<1> HIDE DEF Upto
<1> DEFINE P == {n \in 0..N : Upto(n)}
<1>3. 0 \in P /\ \A i \in 1..N : i - 1 \in P => i \in P
  BY <1>1, <1>2
<1> HIDE DEF P
<1>4. \A i \in 0..N : i \in P
  BY <1>3, UpTo
<1>5. Upto(N)
  BY <1>4 DEF P
<1> QED  BY <1>5 DEF Upto, Looped

(* The lowest of some numbers is one of them, and none is lower.           *)
LEMMA FirstIsLeast ==
    ASSUME NEW S \in SUBSET Nat, S # {}
    PROVE  First(S) \in S /\ \A j \in S : First(S) <= j
<1>1. \E i \in S : \A j \in S : i <= j
  BY LeastNat
<1> QED  BY <1>1, Zenon DEF First
-----------------------------------------------------------------------------
(* Who may have opened a descriptor.                                       *)
Owner == {Nobody, App, Lost} \cup Socket

(* What path->socket.fd may be.                                            *)
Number == Descriptor \cup {-1}

(* What the loop of listen_callback works on.                              *)
Opening ==
    [fd : [Socket -> Number], owner : [Descriptor -> Owner], bound : [Socket -> {"NONE", "SCHEDULED", "DONE"}]]

(* The numbers that stand for owners are not those of paths, and -1 is no  *)
(* descriptor.                                                             *)
LEMMA Numbers ==
    /\ -1 \notin Descriptor /\ 0 \in Descriptor /\ Descriptor \in SUBSET Nat
    /\ Nobody \notin Socket /\ App \notin Socket /\ Lost \notin Socket
    /\ Nobody \in Owner /\ App \in Owner /\ Lost \in Owner /\ Socket \in SUBSET Owner
    /\ Socket = 1..Addresses /\ Addresses \in Nat
BY ListenAssumption DEF Descriptor, Socket, Nobody, App, Lost, Owner

(* The kernel hands out a descriptor that is free.                         *)
LEMMA FirstFree ==
    ASSUME NEW o, Free(o) # {}
    PROVE  First(Free(o)) \in Descriptor /\ o[First(Free(o))] = Nobody
<1>1. Free(o) \in SUBSET Nat
  BY Numbers, ZenonT(30) DEF Free
<1>2. First(Free(o)) \in Free(o)
  BY <1>1, FirstIsLeast
<1> QED  BY <1>2 DEF Free

(* What a path with a descriptor of its own gets.                          *)
Given(s, p, fate, n) ==
    [s EXCEPT !.fd[p] = n, !.owner[n] = IF fate = "not_bound" THEN Nobody ELSE p,
              !.bound[p] = IF fate = "bound" THEN "SCHEDULED" ELSE @]

(* What one turn of the loop of listen_callback does.                      *)
LEMMA OpenedCases ==
    ASSUME NEW s, NEW p, NEW fate
    PROVE  \/ fate = "no_sockaddr" /\ Opened(s, p, fate) = s
           \/ fate # "no_sockaddr" /\ Opened(s, p, fate) = [s EXCEPT !.fd[p] = -1]
           \/ /\ fate \notin {"no_sockaddr", "no_socket"}
              /\ \E n \in Descriptor : s.owner[n] = Nobody /\ Opened(s, p, fate) = Given(s, p, fate, n)
<1>1. CASE fate = "no_sockaddr"
  BY <1>1 DEF Opened
<1>2. CASE fate # "no_sockaddr" /\ (fate = "no_socket" \/ Free(s.owner) = {})
  BY <1>2 DEF Opened
<1>3. CASE fate # "no_sockaddr" /\ fate # "no_socket" /\ Free(s.owner) # {}
  <2>1. First(Free(s.owner)) \in Descriptor /\ s.owner[First(Free(s.owner))] = Nobody
    BY <1>3, FirstFree
  <2>2. Opened(s, p, fate) = Given(s, p, fate, First(Free(s.owner)))
    BY <1>3, Zenon DEF Opened, Given
  <2> QED  BY <1>3, <2>1, <2>2
<1> QED  BY <1>1, <1>2, <1>3, Zenon

(* A turn of the loop of listen_callback keeps the types.                  *)
LEMMA OpenedType ==
    ASSUME NEW s \in Opening, NEW p \in Socket, NEW fate \in Fate
    PROVE  Opened(s, p, fate) \in Opening
<1>1. [s EXCEPT !.fd[p] = -1] \in Opening
  BY DEF Opening, Number
<1>2. \A n \in Descriptor : Given(s, p, fate, n) \in Opening
  BY Numbers, Zenon DEF Opening, Number, Given
<1> QED  BY <1>1, <1>2, OpenedCases

(* The loop of listen_callback begins with what there is, and each of its  *)
(* turns goes on from the one before.                                      *)
LEMMA OpenedLoop ==
    ASSUME NEW fates \in [Socket -> Fate], [fd |-> fd, owner |-> owner, bound |-> bound] \in Opening
    PROVE  /\ OpenedUpTo(fates) \in [0..Addresses -> Opening]
           /\ OpenedUpTo(fates)[0] = [fd |-> fd, owner |-> owner, bound |-> bound]
           /\ \A p \in 1..Addresses : OpenedUpTo(fates)[p] = Opened(OpenedUpTo(fates)[p - 1], p, fates[p])
<1> DEFINE base == [fd |-> fd, owner |-> owner, bound |-> bound]
           step == [x \in Opening \X (1..Addresses) |-> Opened(x[1], x[2], fates[x[2]])]
           Is(g) == g = [p \in 0..Addresses |-> IF p = 0 THEN base ELSE Opened(g[p - 1], p, fates[p])]
<1>1. step \in Steps(Addresses, Opening)
  BY OpenedType, Numbers DEF Steps
<1>2. base \in Opening
  OBVIOUS
<1>3. \A s \in Opening, p \in 1..Addresses : step[<<s, p>>] = Opened(s, p, fates[p])
  BY ZenonT(30)
<1> HIDE DEF step, base
<1>4. PICK g \in [0..Addresses -> Opening] : g[0] = base /\ \A i \in 1..Addresses : g[i] = step[<<g[i - 1], i>>]
  <2>1. Addresses \in Nat
    BY Numbers
  <2>2. Looped(Addresses, Opening, base, step) # {}
    BY <1>1, <1>2, <2>1, LoopExists
  <2> QED  BY <2>2, ZenonT(30) DEF Looped
<1>5. ASSUME NEW p \in 0..Addresses PROVE g[p] = IF p = 0 THEN base ELSE Opened(g[p - 1], p, fates[p])
  <2>1. CASE p = 0
    BY <1>4, <2>1
  <2>2. CASE p # 0
    <3>1. p \in 1..Addresses /\ p - 1 \in 0..Addresses
      BY <2>2, Numbers
    <3> QED  BY <1>3, <1>4, <2>2, <3>1, ZenonT(30)
  <2> QED  BY <2>1, <2>2
<1>6. Is(g)
  BY <1>4, <1>5
<1>7. OpenedUpTo(fates) = CHOOSE h : Is(h)
  BY DEF OpenedUpTo, base
<1>8. Is(OpenedUpTo(fates))
  BY <1>6, <1>7, Zenon
<1> DEFINE h == OpenedUpTo(fates)
           P == {p \in 0..Addresses : h[p] = g[p]}
<1>9. ASSUME NEW p \in 0..Addresses PROVE h[p] = IF p = 0 THEN base ELSE Opened(h[p - 1], p, fates[p])
  BY <1>8, Zenon
<1>10. 0 \in P /\ \A p \in 1..Addresses : p - 1 \in P => p \in P
  BY <1>5, <1>9, Numbers
<1> HIDE DEF P
<1>11. \A p \in 0..Addresses : p \in P
  BY <1>10, UpTo, Numbers, ZenonT(30)
<1>12. DOMAIN h = 0..Addresses
  BY <1>8
<1>13. h = g
  BY <1>8, <1>11, <1>12 DEF P
<1> QED  BY <1>4, <1>9, <1>13, Numbers DEF base

-----------------------------------------------------------------------------
(* A path that owns a descriptor has its number.                           *)
Owned(f, o) == \A n \in Descriptor, p \in Socket : o[n] = p => f[p] = n

(* A socket that is bound is open under the number its path has.           *)
Held(b, f, o) == \A p \in Socket : b[p] = "SCHEDULED" => f[p] \in Descriptor /\ o[f[p]] = p

(* Path p has no descriptor, or one of its own.                            *)
Own(f, o, p) == f[p] = -1 \/ (f[p] \in Descriptor /\ o[f[p]] = p)

(* The fates after which a path keeps a number that is not its own.        *)
Mislaid == {"no_sockaddr", "not_bound"}

(* After k turns of the loop of listen_callback.                           *)
OpenInv(s, fates, k) ==
    /\ Owned(s.fd, s.owner)
    /\ Held(s.bound, s.fd, s.owner)
    /\ \A p \in Socket : p > k => s.bound[p] = "NONE" /\ \A n \in Descriptor : s.owner[n] # p
    /\ \A p \in Socket : p <= k /\ fates[p] \notin Mislaid => Own(s.fd, s.owner, p)

(* A turn of the loop of listen_callback keeps what the sockets have to    *)
(* satisfy.                                                                *)
LEMMA OpenTurn ==
    ASSUME NEW s \in Opening, NEW fates \in [Socket -> Fate], NEW p \in Socket, OpenInv(s, fates, p - 1)
    PROVE  OpenInv(Opened(s, p, fates[p]), fates, p)
<1> DEFINE fate == fates[p]
           t == Opened(s, p, fate)
<1>0. fate \in Fate /\ p \in 1..Addresses /\ p \in Int /\ \A q \in Socket : q \in Int
  BY Numbers
<1>1. \A q \in Socket : q > p => q > p - 1
  BY <1>0
<1>2. \A q \in Socket : q <= p => q = p \/ q <= p - 1
  BY <1>0
<1>3. p > p - 1
  BY <1>0
<1>4. ASSUME fate = "no_sockaddr", t = s PROVE OpenInv(t, fates, p)
  BY <1>1, <1>2, <1>4, ZenonT(30) DEF OpenInv, Mislaid
<1>5. ASSUME fate # "no_sockaddr", t = [s EXCEPT !.fd[p] = -1] PROVE OpenInv(t, fates, p)
  <2>1. t.owner = s.owner /\ t.bound = s.bound /\ t.fd = [s.fd EXCEPT ![p] = -1]
    BY <1>5 DEF Opening
  <2>2. t.fd[p] = -1 /\ \A q \in Socket : q # p => t.fd[q] = s.fd[q]
    BY <2>1 DEF Opening
  <2> HIDE DEF t
  <2>3. Owned(t.fd, t.owner)
    BY <1>3, <2>1, <2>2 DEF OpenInv, Owned
  <2>4. Held(t.bound, t.fd, t.owner)
    BY <1>3, <2>1, <2>2 DEF OpenInv, Held
  <2>5. ASSUME NEW q \in Socket, q > p PROVE t.bound[q] = "NONE" /\ \A m \in Descriptor : t.owner[m] # q
    BY <1>1, <2>1, <2>5 DEF OpenInv
  <2>6. ASSUME NEW q \in Socket, q <= p, fates[q] \notin Mislaid PROVE Own(t.fd, t.owner, q)
    <3>1. CASE q = p
      BY <2>2, <3>1 DEF Own
    <3>2. CASE q # p
      BY <1>2, <2>1, <2>2, <2>6, <3>2 DEF OpenInv, Own
    <3> QED  BY <3>1, <3>2
  <2> QED  BY <2>3, <2>4, <2>5, <2>6 DEF OpenInv
<1>6. ASSUME NEW n \in Descriptor, fate \notin {"no_sockaddr", "no_socket"},
             s.owner[n] = Nobody, t = Given(s, p, fate, n)
      PROVE  OpenInv(t, fates, p)
  <2>1. /\ t.owner = [s.owner EXCEPT ![n] = IF fate = "not_bound" THEN Nobody ELSE p]
        /\ t.bound = [s.bound EXCEPT ![p] = IF fate = "bound" THEN "SCHEDULED" ELSE @]
        /\ t.fd = [s.fd EXCEPT ![p] = n]
    BY <1>6 DEF Opening, Given
  <2>2. t.fd[p] = n /\ \A q \in Socket : q # p => t.fd[q] = s.fd[q]
    BY <2>1 DEF Opening
  <2>3. t.owner[n] = (IF fate = "not_bound" THEN Nobody ELSE p) /\ \A m \in Descriptor : m # n => t.owner[m] = s.owner[m]
    BY <2>1 DEF Opening
  <2>4. t.bound[p] = (IF fate = "bound" THEN "SCHEDULED" ELSE s.bound[p]) /\ \A q \in Socket : q # p => t.bound[q] = s.bound[q]
    BY <2>1 DEF Opening
  <2>5. s.bound[p] = "NONE" /\ \A m \in Descriptor : s.owner[m] # p
    BY <1>3 DEF OpenInv
  <2>6. \A q \in Socket : q # Nobody
    BY Numbers
  <2> HIDE DEF t, fate
  <2>7. Owned(t.fd, t.owner)
    BY <2>2, <2>3, <2>5, <2>6 DEF OpenInv, Owned
  <2>8. ASSUME NEW q \in Socket, q # p, s.fd[q] \in Descriptor, s.owner[s.fd[q]] = q
        PROVE  t.fd[q] \in Descriptor /\ t.owner[t.fd[q]] = q
    BY <1>6, <2>2, <2>3, <2>6, <2>8
  <2>9. ASSUME fate # "not_bound" PROVE t.fd[p] \in Descriptor /\ t.owner[t.fd[p]] = p
    BY <2>2, <2>3, <2>9
  <2>10. Held(t.bound, t.fd, t.owner)
    BY <2>4, <2>5, <2>8, <2>9, ZenonT(30) DEF OpenInv, Held
  <2>11. ASSUME NEW q \in Socket, q > p PROVE t.bound[q] = "NONE" /\ \A m \in Descriptor : t.owner[m] # q
    BY <1>0, <1>1, <2>3, <2>4, <2>6, <2>11 DEF OpenInv
  <2>12. ASSUME NEW q \in Socket, q <= p, fates[q] \notin Mislaid PROVE Own(t.fd, t.owner, q)
    <3>1. CASE q = p
      BY <2>9, <2>12, <3>1 DEF Own, Mislaid, fate
    <3>2. CASE q # p
      BY <1>2, <2>2, <2>8, <2>12, <3>2, ZenonT(30) DEF OpenInv, Own
    <3> QED  BY <3>1, <3>2
  <2> QED  BY <2>7, <2>10, <2>11, <2>12 DEF OpenInv
<1>7. \/ fate = "no_sockaddr" /\ t = s
      \/ fate # "no_sockaddr" /\ t = [s EXCEPT !.fd[p] = -1]
      \/ /\ fate \notin {"no_sockaddr", "no_socket"}
         /\ \E n \in Descriptor : s.owner[n] = Nobody /\ t = Given(s, p, fate, n)
  BY OpenedCases
<1> HIDE DEF t, fate
<1>8. OpenInv(t, fates, p)
  BY <1>4, <1>5, <1>6, <1>7
<1> QED  BY <1>8 DEF t, fate

(* So does the whole loop.                                                 *)
LEMMA OpenedAll ==
    ASSUME NEW fates \in [Socket -> Fate], [fd |-> fd, owner |-> owner, bound |-> bound] \in Opening,
           OpenInv([fd |-> fd, owner |-> owner, bound |-> bound], fates, 0)
    PROVE  OpenedUpTo(fates)[Addresses] \in Opening /\ OpenInv(OpenedUpTo(fates)[Addresses], fates, Addresses)
<1> DEFINE h == OpenedUpTo(fates)
           P == {p \in 0..Addresses : OpenInv(h[p], fates, p)}
<1>1. /\ h \in [0..Addresses -> Opening]
      /\ h[0] = [fd |-> fd, owner |-> owner, bound |-> bound]
      /\ \A p \in 1..Addresses : h[p] = Opened(h[p - 1], p, fates[p])
  BY OpenedLoop
<1> HIDE DEF h
<1>2. 0 \in P
  BY <1>1, Numbers
<1>3. ASSUME NEW p \in 1..Addresses, p - 1 \in P PROVE p \in P
  <2>1. p \in Socket /\ p - 1 \in 0..Addresses /\ p \in 0..Addresses
    BY Numbers
  <2>2. h[p - 1] \in Opening /\ OpenInv(h[p - 1], fates, p - 1)
    BY <1>1, <1>3, <2>1
  <2>3. OpenInv(h[p], fates, p)
    BY <1>1, <2>1, <2>2, OpenTurn
  <2> QED  BY <2>1, <2>3, ZenonT(30)
<1> HIDE DEF P
<1>4. Addresses \in Nat /\ Addresses \in 0..Addresses
  BY Numbers
<1>5. \A p \in 0..Addresses : p \in P
  BY <1>2, <1>3, <1>4, UpTo
<1>6. OpenInv(h[Addresses], fates, Addresses) /\ h[Addresses] \in Opening
  BY <1>1, <1>4, <1>5 DEF P
<1> QED  BY <1>6, ZenonT(30) DEF h

-----------------------------------------------------------------------------
(* What may stop the process.                                              *)
Stop == {"none", "no_paths", "assert", "epoll_ctl", "freed_query"}

(* What the loop of netresolve_listen_free works on.                       *)
Closing ==
    [bound : [Socket -> {"NONE", "SCHEDULED", "DONE"}], fd : [Socket -> Number], watched : [Socket -> Number],
     owner : [Descriptor -> Owner], stolen : SUBSET Owner, crash : Stop]

(* What remains when path p is closed.                                     *)
Closed(s, p) ==
    [s EXCEPT !.bound[p] = "DONE", !.watched[p] = -1, !.fd[p] = -1,
              !.owner = IF s.fd[p] = -1 THEN @ ELSE [@ EXCEPT ![s.fd[p]] = Nobody],
              !.stolen = IF s.fd[p] = -1 \/ s.owner[s.fd[p]] \in {p, Nobody} THEN @
                         ELSE @ \cup {s.owner[s.fd[p]]}]

(* socket_cleanup fails to remove the watch, or closes the path.           *)
LEMMA ClosedCases ==
    ASSUME NEW s, NEW p
    PROVE  \/ s.crash # "none" /\ socket_cleanup(s, p) = s
           \/ /\ s.crash = "none" /\ s.watched[p] # -1 /\ s.owner[s.watched[p]] # p
              /\ socket_cleanup(s, p) = [s EXCEPT !.crash = "epoll_ctl"]
           \/ s.crash = "none" /\ socket_cleanup(s, p) = Closed(s, p)
BY ZenonT(30) DEF socket_cleanup, Closed

(* What is changed when a path is closed.                                  *)
LEMMA ClosedFields ==
    ASSUME NEW s \in Closing, NEW p \in Socket
    PROVE  /\ Closed(s, p) \in Closing
           /\ Closed(s, p).crash = s.crash
           /\ Closed(s, p).watched[p] = -1 /\ Closed(s, p).fd[p] = -1
           /\ \A q \in Socket : q # p => Closed(s, p).watched[q] = s.watched[q] /\ Closed(s, p).fd[q] = s.fd[q]
           /\ \A n \in Descriptor : Closed(s, p).owner[n] = IF n = s.fd[p] THEN Nobody ELSE s.owner[n]
           /\ (s.fd[p] = -1 \/ s.owner[s.fd[p]] = p) => Closed(s, p).stolen = s.stolen
<1> DEFINE c == Closed(s, p)
<1>1. s.fd[p] = -1 \/ s.fd[p] \in Descriptor
  BY DEF Closing, Number
<1>2. /\ s.bound \in [Socket -> {"NONE", "SCHEDULED", "DONE"}] /\ s.fd \in [Socket -> Number]
      /\ s.watched \in [Socket -> Number] /\ s.owner \in [Descriptor -> Owner]
      /\ s.stolen \in SUBSET Owner /\ s.crash \in Stop
  BY DEF Closing
<1>3. /\ c.bound = [s.bound EXCEPT ![p] = "DONE"] /\ c.fd = [s.fd EXCEPT ![p] = -1]
      /\ c.watched = [s.watched EXCEPT ![p] = -1]
      /\ c.owner = IF s.fd[p] = -1 THEN s.owner ELSE [s.owner EXCEPT ![s.fd[p]] = Nobody]
      /\ c.stolen = IF s.fd[p] = -1 \/ s.owner[s.fd[p]] \in {p, Nobody} THEN s.stolen
                    ELSE s.stolen \cup {s.owner[s.fd[p]]}
      /\ c.crash = s.crash
  <2>1. c.bound = [s.bound EXCEPT ![p] = "DONE"]
    BY DEF Closing, Closed
  <2>2. c.fd = [s.fd EXCEPT ![p] = -1]
    BY DEF Closing, Closed
  <2>3. c.watched = [s.watched EXCEPT ![p] = -1]
    BY DEF Closing, Closed
  <2>4. c.owner = IF s.fd[p] = -1 THEN s.owner ELSE [s.owner EXCEPT ![s.fd[p]] = Nobody]
    BY DEF Closing, Closed
  <2>5. c.stolen = IF s.fd[p] = -1 \/ s.owner[s.fd[p]] \in {p, Nobody} THEN s.stolen
                   ELSE s.stolen \cup {s.owner[s.fd[p]]}
    BY DEF Closing, Closed
  <2>6. c.crash = s.crash
    BY DEF Closing, Closed
  <2> QED  BY <2>1, <2>2, <2>3, <2>4, <2>5, <2>6, Zenon
<1>4. c = [s EXCEPT !.bound = c.bound, !.watched = c.watched, !.fd = c.fd, !.owner = c.owner, !.stolen = c.stolen]
  BY <1>3, ZenonT(30) DEF Closed
<1> HIDE DEF c
<1>5. c.bound \in [Socket -> {"NONE", "SCHEDULED", "DONE"}] /\ c.fd \in [Socket -> Number] /\ c.watched \in [Socket -> Number]
  BY <1>2, <1>3 DEF Number
<1>6. c.owner \in [Descriptor -> Owner]
  BY <1>1, <1>2, <1>3, Numbers
<1>7. c.stolen \in SUBSET Owner
  BY <1>1, <1>2, <1>3
<1>8. c \in Closing
  BY <1>2, <1>3, <1>4, <1>5, <1>6, <1>7, Zenon DEF Closing
<1>9. c.watched[p] = -1 /\ c.fd[p] = -1 /\ \A q \in Socket : q # p => c.watched[q] = s.watched[q] /\ c.fd[q] = s.fd[q]
  BY <1>2, <1>3
<1>10. \A n \in Descriptor : c.owner[n] = IF n = s.fd[p] THEN Nobody ELSE s.owner[n]
  BY <1>1, <1>2, <1>3, Numbers
<1>11. (s.fd[p] = -1 \/ s.owner[s.fd[p]] = p) => c.stolen = s.stolen
  BY <1>3
<1> QED  BY <1>3, <1>4, <1>8, <1>9, <1>10, <1>11, ZenonT(30) DEF c

(* socket_cleanup keeps the types.                                         *)
LEMMA ClosedType ==
    ASSUME NEW s \in Closing, NEW p \in Socket
    PROVE  socket_cleanup(s, p) \in Closing
<1>1. [s EXCEPT !.crash = "epoll_ctl"] \in Closing
  BY DEF Closing, Stop
<1> QED  BY <1>1, ClosedFields, ClosedCases

(* The loop of netresolve_listen_free begins with what there is, and each  *)
(* of its turns goes on from the one before.                               *)
LEMMA ClosedLoop ==
    ASSUME NEW own,
           [bound |-> bound, fd |-> fd, watched |-> watched, owner |-> own, stolen |-> stolen, crash |-> crash] \in Closing
    PROVE  /\ ClosedUpTo(own) \in [0..Addresses -> Closing]
           /\ ClosedUpTo(own)[0] = [bound |-> bound, fd |-> fd, watched |-> watched,
                                    owner |-> own, stolen |-> stolen, crash |-> crash]
           /\ \A p \in 1..Addresses : ClosedUpTo(own)[p] = socket_cleanup(ClosedUpTo(own)[p - 1], p)
<1> DEFINE base == [bound |-> bound, fd |-> fd, watched |-> watched, owner |-> own, stolen |-> stolen, crash |-> crash]
           step == [x \in Closing \X (1..Addresses) |-> socket_cleanup(x[1], x[2])]
           Is(g) == g = [p \in 0..Addresses |-> IF p = 0 THEN base ELSE socket_cleanup(g[p - 1], p)]
<1>1. step \in Steps(Addresses, Closing)
  BY ClosedType, Numbers DEF Steps
<1>2. base \in Closing
  OBVIOUS
<1>3. \A s \in Closing, p \in 1..Addresses : step[<<s, p>>] = socket_cleanup(s, p)
  OBVIOUS
<1> HIDE DEF step, base
<1>4. PICK g \in [0..Addresses -> Closing] : g[0] = base /\ \A i \in 1..Addresses : g[i] = step[<<g[i - 1], i>>]
  <2>1. Addresses \in Nat
    BY Numbers
  <2>2. Looped(Addresses, Closing, base, step) # {}
    BY <1>1, <1>2, <2>1, LoopExists
  <2> QED  BY <2>2 DEF Looped
<1>5. ASSUME NEW p \in 0..Addresses PROVE g[p] = IF p = 0 THEN base ELSE socket_cleanup(g[p - 1], p)
  <2>1. CASE p = 0
    BY <1>4, <2>1
  <2>2. CASE p # 0
    <3>1. p \in 1..Addresses /\ p - 1 \in 0..Addresses
      BY <2>2, Numbers
    <3> QED  BY <1>3, <1>4, <2>2, <3>1, ZenonT(30)
  <2> QED  BY <2>1, <2>2
<1>6. Is(g)
  BY <1>4, <1>5, ZenonT(30)
<1>7. ClosedUpTo(own) = CHOOSE h : Is(h)
  BY DEF ClosedUpTo, base
<1>8. Is(ClosedUpTo(own))
  BY <1>6, <1>7, Zenon
<1> DEFINE h == ClosedUpTo(own)
           P == {p \in 0..Addresses : h[p] = g[p]}
<1>9. ASSUME NEW p \in 0..Addresses PROVE h[p] = IF p = 0 THEN base ELSE socket_cleanup(h[p - 1], p)
  BY <1>8, Zenon
<1>10. 0 \in P /\ \A p \in 1..Addresses : p - 1 \in P => p \in P
  BY <1>5, <1>9, Numbers
<1> HIDE DEF P
<1>11. \A p \in 0..Addresses : p \in P
  BY <1>10, UpTo, Numbers, SMTT(30)
<1>12. DOMAIN h = 0..Addresses
  BY <1>8
<1>13. h = g
  BY <1>8, <1>11, <1>12 DEF P
<1> QED  BY <1>4, <1>9, <1>13, Numbers DEF base

-----------------------------------------------------------------------------
(* After k sockets have been closed.                                       *)
CloseInv(s, k) ==
    /\ s.crash \in {"none", "epoll_ctl"}
    /\ s.crash = "none" =>
          /\ \A p \in Socket : p <= k => s.watched[p] = -1 /\ \A n \in Descriptor : s.owner[n] # p
          /\ \A p \in Socket : p > k => s.watched[p] \in {-1, s.fd[p]}
          /\ Owned(s.fd, s.owner)
    /\ ~mislaid => /\ s.crash = "none" /\ s.stolen = {}
                   /\ \A p \in Socket : p > k => Own(s.fd, s.owner, p)

(* One more socket is closed.                                              *)
LEMMA CloseTurn ==
    ASSUME NEW s \in Closing, NEW p \in Socket, CloseInv(s, p - 1)
    PROVE  CloseInv(socket_cleanup(s, p), p)
<1> DEFINE t == socket_cleanup(s, p)
<1>0. /\ p \in Int /\ p > p - 1 /\ \A q \in Socket : q \in Int /\ q # Nobody
      /\ \A q \in Socket : q > p => q > p - 1 /\ q # p
      /\ \A q \in Socket : q <= p => q = p \/ q <= p - 1
  BY Numbers
<1>1. \/ s.crash # "none" /\ t = s
      \/ /\ s.crash = "none" /\ s.watched[p] # -1 /\ s.owner[s.watched[p]] # p
         /\ t = [s EXCEPT !.crash = "epoll_ctl"]
      \/ s.crash = "none" /\ t = Closed(s, p)
  BY ClosedCases
<1> HIDE DEF t
<1>2. ASSUME s.crash # "none", t = s PROVE CloseInv(t, p)
  BY <1>2, ZenonT(30) DEF CloseInv
<1>3. ASSUME s.crash = "none", s.watched[p] # -1, s.owner[s.watched[p]] # p, t = [s EXCEPT !.crash = "epoll_ctl"]
      PROVE  CloseInv(t, p)
  <2>1. t.crash = "epoll_ctl"
    BY <1>3 DEF Closing
  <2>2. s.watched[p] = s.fd[p]
    BY <1>0, <1>3 DEF CloseInv
  <2>3. mislaid
    BY <1>0, <1>3, <2>2 DEF CloseInv, Own
  <2> QED  BY <2>1, <2>3 DEF CloseInv
<1>4. ASSUME s.crash = "none", t = Closed(s, p) PROVE CloseInv(t, p)
  <2>1. /\ t.crash = "none"
        /\ t.watched[p] = -1 /\ t.fd[p] = -1
        /\ \A q \in Socket : q # p => t.watched[q] = s.watched[q] /\ t.fd[q] = s.fd[q]
        /\ \A n \in Descriptor : t.owner[n] = IF n = s.fd[p] THEN Nobody ELSE s.owner[n]
        /\ (s.fd[p] = -1 \/ s.owner[s.fd[p]] = p) => t.stolen = s.stolen
    BY <1>4, ClosedFields
  <2>2. \A n \in Descriptor : t.owner[n] # p
    BY <1>0, <1>4, <2>1 DEF CloseInv, Owned
  <2>3. ASSUME NEW q \in Socket, q <= p PROVE t.watched[q] = -1 /\ \A n \in Descriptor : t.owner[n] # q
    <3>1. CASE q = p
      BY <2>1, <2>2, <3>1
    <3>2. CASE q # p
      BY <1>0, <1>4, <2>1, <2>3, <3>2 DEF CloseInv
    <3> QED  BY <3>1, <3>2
  <2>4. \A q \in Socket : q > p => t.watched[q] \in {-1, t.fd[q]}
    BY <1>0, <1>4, <2>1, Zenon DEF CloseInv
  <2>5. Owned(t.fd, t.owner)
    BY <1>0, <1>4, <2>1, <2>2 DEF CloseInv, Owned
  <2>6. ASSUME ~mislaid PROVE t.stolen = {}
    BY <1>0, <2>1, <2>6, ZenonT(30) DEF CloseInv, Own
  <2>7. ASSUME ~mislaid, NEW q \in Socket, q > p PROVE Own(t.fd, t.owner, q)
    <3>1. Own(s.fd, s.owner, p) /\ Own(s.fd, s.owner, q) /\ q # p
      BY <1>0, <2>7, ZenonT(30) DEF CloseInv
    <3>2. t.fd[q] = s.fd[q]
      BY <2>1, <3>1, ZenonT(30)
    <3> QED  BY <2>1, <3>1, <3>2, ZenonT(30) DEF Own
  <2> QED  BY <2>1, <2>3, <2>4, <2>5, <2>6, <2>7, ZenonT(30) DEF CloseInv
<1>5. CloseInv(t, p)
  BY <1>1, <1>2, <1>3, <1>4
<1> QED  BY <1>5 DEF t

(* All sockets are closed.                                                 *)
LEMMA ClosedAll ==
    ASSUME NEW own,
           [bound |-> bound, fd |-> fd, watched |-> watched, owner |-> own, stolen |-> stolen, crash |-> crash] \in Closing,
           CloseInv([bound |-> bound, fd |-> fd, watched |-> watched, owner |-> own, stolen |-> stolen, crash |-> crash], 0)
    PROVE  ClosedUpTo(own)[Addresses] \in Closing /\ CloseInv(ClosedUpTo(own)[Addresses], Addresses)
<1> DEFINE h == ClosedUpTo(own)
           P == {p \in 0..Addresses : CloseInv(h[p], p)}
<1>1. /\ h \in [0..Addresses -> Closing]
      /\ h[0] = [bound |-> bound, fd |-> fd, watched |-> watched, owner |-> own, stolen |-> stolen, crash |-> crash]
      /\ \A p \in 1..Addresses : h[p] = socket_cleanup(h[p - 1], p)
  BY ClosedLoop, ZenonT(30)
<1> HIDE DEF h
<1>2. 0 \in P
  BY <1>1, Numbers
<1>3. ASSUME NEW p \in 1..Addresses, p - 1 \in P PROVE p \in P
  <2>1. p \in Socket /\ p - 1 \in 0..Addresses /\ p \in 0..Addresses
    BY Numbers
  <2>2. h[p - 1] \in Closing /\ CloseInv(h[p - 1], p - 1)
    BY <1>1, <1>3, <2>1
  <2>3. CloseInv(h[p], p)
    BY <1>1, <2>1, <2>2, CloseTurn
  <2> QED  BY <2>1, <2>3, ZenonT(30)
<1> HIDE DEF P
<1>4. Addresses \in Nat /\ Addresses \in 0..Addresses
  BY Numbers
<1>5. \A p \in 0..Addresses : p \in P
  BY <1>2, <1>3, <1>4, UpTo
<1>6. CloseInv(h[Addresses], Addresses) /\ h[Addresses] \in Closing
  BY <1>1, <1>4, <1>5 DEF P
<1> QED  BY <1>6, ZenonT(30) DEF h
-----------------------------------------------------------------------------
(* The types of what netresolve_listen keeps.                              *)
ListenTypes ==
    /\ bound \in [Socket -> {"NONE", "SCHEDULED", "DONE"}]
    /\ fd \in [Socket -> Number]
    /\ watched \in [Socket -> Number]
    /\ owner \in [Descriptor -> Owner]
    /\ stolen \in SUBSET Owner
    /\ crash \in Stop
    /\ listening \in {"resolving", "listening", "freed"}

(* Nothing has been opened.                                                *)
Untouched ==
    /\ ~accepting /\ ~mislaid /\ stolen = {}
    /\ \A p \in Socket : bound[p] = "NONE" /\ watched[p] = -1
    /\ \A n \in Descriptor : owner[n] \notin Socket

(* The sockets listen, with the descriptors as in own.                     *)
Serving(own) ==
    /\ Owned(fd, own)
    /\ Held(bound, fd, own)
    /\ \A p \in Socket : watched[p] = IF accepting /\ bound[p] = "SCHEDULED" THEN fd[p] ELSE -1
    /\ ~mislaid => stolen = {} /\ \A p \in Socket : Own(fd, own, p)

(* The inductive invariant of netresolve_listen.  That each descriptor of  *)
(* a path is known to the path by its number, which no property says, is   *)
(* what makes the sockets of the paths go when they are freed.             *)
ListenInv ==
    /\ ListenTypes
    /\ role # "listen" => listening = "freed"
    /\ listening = "resolving" /\ crash = "none" => Untouched
    /\ Listening => Serving(owner)
    /\ ListenReleased
    /\ OthersKept

(* When netresolve_listen has been called nothing is open.                 *)
LEMMA ListenStarts == ASSUME ListenInit PROVE ListenInv
<1>1. ListenTypes
  BY Numbers DEF ListenInit, ListenTypes, Number, Owner, Stop
<1>2. Untouched
  BY Numbers DEF ListenInit, Untouched
<1>3. role # "listen" => listening = "freed"
  BY DEF ListenInit
<1>4. ~Listening
  BY DEF ListenInit, Listening
<1>5. ListenReleased
  BY <1>2, ZenonT(30) DEF ListenReleased, Untouched
<1>6. OthersKept
  BY DEF ListenInit, OthersKept
<1> QED  BY <1>1, <1>2, <1>3, <1>4, <1>5, <1>6 DEF ListenInv

(* A query of netresolve_connect leaves the variables of Listen alone.     *)
LEMMA ListenRests == ASSUME ListenInv, UNCHANGED <<role, listenVars>> PROVE ListenInv'
BY DEF ListenInv, ListenTypes, Untouched, Serving, Listening, ListenReleased, OthersKept, listenVars, Owned, Held, Own

(* listen_callback keeps the invariant, whatever becomes of each path.     *)
LEMMA CallbackKeeps ==
    ASSUME ListenInv, NEW fates \in [Socket -> Fate], listen_callback(fates)
    PROVE  ListenInv'
<1> DEFINE base == [fd |-> fd, owner |-> owner, bound |-> bound]
           t == OpenedUpTo(fates)[Addresses]
<1>1. ListenTypes /\ Untouched /\ role = "listen" /\ listening = "resolving" /\ crash = "none"
  BY DEF ListenInv, listen_callback
<1>2. base \in Opening
  BY <1>1 DEF ListenTypes, Opening
<1>3. OpenInv(base, fates, 0)
  <2>1. \A p \in Socket : ~(p <= 0)
    BY Numbers
  <2>2. base.fd = fd /\ base.owner = owner /\ base.bound = bound
    OBVIOUS
  <2> HIDE DEF base
  <2> QED  BY <1>1, <2>1, <2>2 DEF OpenInv, Owned, Held, Untouched
<1>4. t \in Opening /\ OpenInv(t, fates, Addresses)
  BY <1>2, <1>3, OpenedAll, ZenonT(30)
<1>5. fd' = t.fd /\ owner' = t.owner /\ bound' = t.bound
  BY DEF listen_callback
<1> HIDE DEF t
<1>6. /\ mislaid' = \E p \in Socket : fates[p] \in Mislaid
      /\ (crash' = "no_paths" /\ listening' = "resolving") \/ (crash' = "none" /\ listening' = "listening")
      /\ UNCHANGED <<role, watched, accepting, stolen>>
  BY <1>1 DEF listen_callback, Mislaid
<1>7. ListenTypes'
  BY <1>1, <1>4, <1>5, <1>6 DEF ListenTypes, Opening, Stop
<1>8. \A p \in Socket : p <= Addresses
  BY Numbers
<1>9. Serving(owner)'
  <2>1. Owned(fd', owner') /\ Held(bound', fd', owner')
    BY <1>4, <1>5 DEF OpenInv
  <2>2. \A p \in Socket : watched'[p] = IF accepting' /\ bound'[p] = "SCHEDULED" THEN fd'[p] ELSE -1
    BY <1>1, <1>6 DEF Untouched
  <2>3. ~mislaid' => stolen' = {} /\ \A p \in Socket : Own(fd', owner', p)
    BY <1>1, <1>4, <1>5, <1>6, <1>8, ZenonT(30) DEF Untouched, OpenInv
  <2> QED  BY <2>1, <2>2, <2>3, ZenonT(30) DEF Serving
<1>10. ListenReleased' /\ OthersKept'
  BY <1>1, <1>6 DEF ListenReleased, OthersKept, Untouched
<1> QED  BY <1>1, <1>6, <1>7, <1>9, <1>10 DEF ListenInv, Listening

(* netresolve_accept keeps the invariant.                                  *)
LEMMA AcceptKeeps == ASSUME ListenInv, netresolve_accept PROVE ListenInv'
<1>1. ListenTypes /\ Serving(owner) /\ role = "listen" /\ listening = "listening" /\ crash = "none"
  BY DEF ListenInv, netresolve_accept, Listening
<1>2. /\ accepting' = TRUE
      /\ watched' = [p \in Socket |-> IF bound[p] = "SCHEDULED" /\ watched[p] = -1 THEN fd[p] ELSE watched[p]]
      /\ UNCHANGED <<role, listening, bound, fd, owner, mislaid, stolen, crash>>
  BY ZenonT(30) DEF netresolve_accept
<1>3. ListenTypes'
  BY <1>1, <1>2 DEF ListenTypes
<1>4. \A p \in Socket : watched'[p] = IF accepting' /\ bound'[p] = "SCHEDULED" THEN fd'[p] ELSE -1
  BY <1>1, <1>2, ZenonT(30) DEF Serving
<1>5. Serving(owner)'
  BY <1>1, <1>2, <1>4, ZenonT(30) DEF Serving, Owned, Held, Own
<1>6. ListenReleased' /\ OthersKept'
  BY <1>1, <1>2, ZenonT(30) DEF ListenReleased, OthersKept, Serving
<1> QED  BY <1>1, <1>2, <1>3, <1>5, <1>6 DEF ListenInv, Listening

(* Freeing the query keeps the invariant, from outside and from within the *)
(* callback.                                                               *)
LEMMA ReleaseKeeps ==
    ASSUME ListenTypes, Listening, NEW own \in [Descriptor -> Owner], Serving(own),
           NEW astray \in BOOLEAN, Release(own, astray), UNCHANGED <<role, accepting, mislaid>>
    PROVE  ListenInv'
<1> DEFINE base == [bound |-> bound, fd |-> fd, watched |-> watched, owner |-> own, stolen |-> stolen, crash |-> crash]
           t == ClosedUpTo(own)[Addresses]
<1>1. base \in Closing
  BY DEF ListenTypes, Closing
<1>2. CloseInv(base, 0)
  <2>1. \A p \in Socket : ~(p <= 0)
    BY Numbers
  <2>2. base.fd = fd /\ base.owner = own /\ base.watched = watched /\ base.stolen = stolen /\ base.crash = crash
    OBVIOUS
  <2> HIDE DEF base
  <2> QED  BY <2>1, <2>2, ZenonT(30) DEF CloseInv, Serving, Listening
<1>3. t \in Closing /\ CloseInv(t, Addresses)
  BY <1>1, <1>2, ClosedAll, ZenonT(30)
<1>4. /\ bound' = t.bound /\ fd' = t.fd /\ watched' = t.watched
      /\ owner' = t.owner /\ stolen' = t.stolen
      /\ crash' = IF t.crash = "none" /\ astray THEN "freed_query" ELSE t.crash
      /\ listening' = IF t.crash = "none" THEN "freed" ELSE listening
  BY ZenonT(30) DEF Release
<1> HIDE DEF t
<1>5. role' = "listen" /\ ~Listening' /\ (crash' = "none" => listening' = "freed") /\ (listening' = "freed" => t.crash = "none")
  BY <1>4 DEF Listening
<1>6. ListenTypes'
  BY <1>3, <1>4 DEF ListenTypes, Closing, Stop
<1>7. \A p \in Socket : p <= Addresses
  BY Numbers
<1>8. ListenReleased'
  BY <1>3, <1>4, <1>5, <1>7, ZenonT(30) DEF ListenReleased, CloseInv
<1>9. OthersKept'
  BY <1>3, <1>4 DEF OthersKept, CloseInv
<1> QED  BY <1>5, <1>6, <1>8, <1>9 DEF ListenInv

(* A descriptor that is free goes to nobody of the paths.                  *)
LEMMA ServingStill ==
    ASSUME Serving(owner), NEW n \in Descriptor, NEW o, o \notin Socket, owner[n] \notin Socket,
           owner \in [Descriptor -> Owner]
    PROVE  Serving([owner EXCEPT ![n] = o])
<1> DEFINE own == [owner EXCEPT ![n] = o]
<1>1. own[n] = o /\ \A m \in Descriptor : m # n => own[m] = owner[m]
  OBVIOUS
<1> HIDE DEF own
<1>2. Owned(fd, own)
  BY <1>1, ZenonT(30) DEF Serving, Owned
<1>3. Held(bound, fd, own)
  BY <1>1 DEF Serving, Held
<1>4. \A p \in Socket : Own(fd, owner, p) => Own(fd, own, p)
  BY <1>1 DEF Own
<1>5. Serving(own)
  BY <1>2, <1>3, <1>4, ZenonT(30) DEF Serving
<1> QED  BY <1>5 DEF own

(* The application or the kernel changes who has a descriptor that is no   *)
(* path's.                                                                 *)
LEMMA OwnersKeep ==
    ASSUME ListenInv, crash = "none", role = "listen", listening # "freed",
           NEW n \in Descriptor, NEW o \in {Nobody, App, Lost}, owner[n] \notin Socket,
           owner' = [owner EXCEPT ![n] = o],
           UNCHANGED <<role, listening, bound, fd, watched, accepting, mislaid, stolen, crash>>
    PROVE  ListenInv'
<1>1. ListenTypes'
  BY Numbers DEF ListenInv, ListenTypes
<1>2. o \notin Socket
  BY Numbers
<1>3. listening = "resolving" => Untouched'
  BY <1>2 DEF ListenInv, ListenTypes, Untouched
<1>4. listening = "listening" => Serving(owner')
  BY <1>2, ServingStill, ZenonT(30) DEF ListenInv, ListenTypes, Listening
<1>5. listening = "listening" => Serving(owner)'
  BY <1>4, Zenon DEF Serving, Owned, Held, Own
<1> QED  BY <1>1, <1>3, <1>5 DEF ListenInv, Listening, ListenReleased, OthersKept

(* accept_callback keeps the invariant, whether the application frees the  *)
(* query or not.                                                           *)
LEMMA AcceptCallbackKeeps ==
    ASSUME ListenInv, NEW p \in Socket, NEW fcntl \in BOOLEAN, NEW frees \in BOOLEAN,
           NEW astray \in BOOLEAN, accept_callback(p, fcntl, frees, astray)
    PROVE  ListenInv'
<1>1. ListenTypes /\ Listening /\ Serving(owner) /\ role = "listen" /\ listening = "listening" /\ crash = "none"
  BY ZenonT(30) DEF ListenInv, accept_callback, Listening
<1>2. watched[p] = fd[p] /\ bound[p] = "SCHEDULED"
  BY <1>1, ZenonT(30) DEF accept_callback, Serving
<1> DEFINE n == First(Free(owner))
<1>3. ASSUME Free(owner) # {} PROVE n \in Descriptor /\ owner[n] \notin Socket
  BY <1>3, FirstFree, Numbers
<1>4. UNCHANGED <<role, accepting, mislaid>>
  BY DEF accept_callback
<1>5. CASE Free(owner) = {}
  <2>1. UNCHANGED <<role, listening, bound, fd, watched, owner, accepting, mislaid, stolen, crash>>
    BY <1>2, <1>4, <1>5 DEF accept_callback
  <2> QED  BY <2>1, ListenRests DEF listenVars
<1>6. CASE Free(owner) # {} /\ ~fcntl
  <2>1. /\ owner' = [owner EXCEPT ![n] = Lost]
        /\ UNCHANGED <<role, listening, bound, fd, watched, accepting, mislaid, stolen, crash>>
    BY <1>2, <1>4, <1>6 DEF accept_callback
  <2> HIDE DEF n
  <2> QED  BY <1>1, <1>3, <1>6, <2>1, OwnersKeep, ZenonT(30)
<1>7. CASE Free(owner) # {} /\ fcntl /\ ~frees
  <2>1. /\ owner' = [owner EXCEPT ![n] = App]
        /\ UNCHANGED <<role, listening, bound, fd, watched, accepting, mislaid, stolen, crash>>
    BY <1>2, <1>4, <1>7, Zenon DEF accept_callback
  <2> HIDE DEF n
  <2> QED  BY <1>1, <1>3, <1>7, <2>1, OwnersKeep, ZenonT(30)
<1>8. CASE Free(owner) # {} /\ fcntl /\ frees
  <2>1. Release([owner EXCEPT ![n] = App], astray)
    BY <1>2, <1>8, Zenon DEF accept_callback
  <2> HIDE DEF n
  <2>2. [owner EXCEPT ![n] = App] \in [Descriptor -> Owner]
    BY <1>1, Numbers, Zenon DEF ListenTypes
  <2>3. Serving([owner EXCEPT ![n] = App])
    BY <1>1, <1>3, <1>8, ServingStill, Numbers, ZenonT(30) DEF ListenTypes
  <2> QED  BY <1>1, <1>4, <2>1, <2>2, <2>3, ReleaseKeeps, ZenonT(30)
<1> QED  BY <1>5, <1>6, <1>7, <1>8

(* Every handler of netresolve_listen keeps the invariant.                 *)
LEMMA ListenStep == ASSUME ListenInv, ListenNext PROVE ListenInv'
<1>1. ASSUME NEW fates \in [Socket -> Fate], listen_callback(fates) PROVE ListenInv'
  BY <1>1, CallbackKeeps
<1>2. CASE netresolve_accept
  BY <1>2, AcceptKeeps
<1>3. ASSUME NEW p \in Socket, NEW fcntl \in BOOLEAN, NEW frees \in BOOLEAN, NEW astray \in BOOLEAN,
             accept_callback(p, fcntl, frees, astray)
      PROVE  ListenInv'
  BY <1>3, AcceptCallbackKeeps
<1>4. CASE netresolve_listen_free
  <2>1. Listening /\ Release(owner, FALSE) /\ UNCHANGED <<role, accepting, mislaid>>
    BY <1>4 DEF netresolve_listen_free
  <2>2. ListenTypes /\ Serving(owner) /\ owner \in [Descriptor -> Owner]
    BY <2>1 DEF ListenInv, ListenTypes
  <2> QED  BY <2>1, <2>2, ReleaseKeeps
<1>5. CASE Elsewhere
  <2>1. /\ crash = "none" /\ role = "listen" /\ listening # "freed"
        /\ UNCHANGED <<role, listening, bound, fd, watched, accepting, mislaid, stolen, crash>>
    BY <1>5 DEF Elsewhere
  <2>2. CASE Free(owner) # {} /\ owner' = [owner EXCEPT ![First(Free(owner))] = App]
    <3>1. First(Free(owner)) \in Descriptor /\ owner[First(Free(owner))] \notin Socket
      BY <2>2, FirstFree, Numbers
    <3> QED  BY <2>1, <2>2, <3>1, OwnersKeep, Zenon
  <2>3. ASSUME NEW n \in Descriptor, owner[n] = App, owner' = [owner EXCEPT ![n] = Nobody] PROVE ListenInv'
    <3>1. owner[n] \notin Socket
      BY <2>3, Numbers
    <3> QED  BY <2>1, <2>3, <3>1, OwnersKeep, ZenonT(30)
  <2> QED  BY <1>5, <2>2, <2>3 DEF Elsewhere
<1> QED  BY <1>1, <1>2, <1>3, <1>4, <1>5 DEF ListenNext

(* It holds throughout, for any number of paths and of descriptors.        *)
LEMMA ListenInvariant == SocketSpec => []ListenInv
<1>1. SocketInit => ListenInv
  BY ListenStarts DEF SocketInit
<1>2. ListenInv /\ [SocketNext]_socketVars => ListenInv'
  BY ListenStep, ListenRests DEF SocketNext, socketVars
<1> QED  BY <1>1, <1>2, PTL DEF SocketSpec

(* Every socket that listen_callback has bound stays open under the number *)
(* its path has, and is watched from the call of netresolve_accept on, for *)
(* any number of paths and of descriptors.                                 *)
THEOREM ServedEverywhere == SocketSpec => []AcceptsEverywhere
<1>1. ListenInv => AcceptsEverywhere
  BY DEF ListenInv, Serving, Held, AcceptsEverywhere
<1> QED  BY <1>1, ListenInvariant, PTL

(* netresolve_listen_free leaves no descriptor of a path open and no       *)
(* watch, for any number of paths and of descriptors.                      *)
THEOREM AllReleased == SocketSpec => []ListenReleased
<1>1. ListenInv => ListenReleased
  BY DEF ListenInv
<1> QED  BY <1>1, ListenInvariant, PTL

(* Unless a path has mislaid a number, netresolve_listen_free and          *)
(* accept_callback close no descriptor of the application, and remove no   *)
(* watch of a closed one.                                                  *)
THEOREM OthersStayOpen == SocketSpec => []OthersKept
<1>1. ListenInv => OthersKept
  BY DEF ListenInv
<1> QED  BY <1>1, ListenInvariant, PTL
=============================================================================
