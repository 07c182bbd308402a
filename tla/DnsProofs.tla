---------------------------- MODULE DnsProofs ----------------------------
(***************************************************************************)
(* Proofs about Dns, for answers with any number of SRV records.           *)
(*                                                                         *)
(* The invariant DnsInv says of the variables what Good says of the worlds *)
(* that the handlers pass on: one lemma per operator, one per action.      *)
(* While an answer is applied parts of it do not hold (an SRV entry is in  *)
(* the list before it is looked up, an answer is noted before the flag is  *)
(* withdrawn), hence its division into Sound, Followed, Vouched, Counted.  *)
(***************************************************************************)
EXTENDS Dns, FiniteSetTheorems, TLAPS

(* A non-empty set of natural numbers has a least element.                 *)
LEMMA LeastNat ==
    ASSUME NEW T \in SUBSET Nat, T # {}
    PROVE  \E i \in T : \A j \in T : i <= j
<1> DEFINE R == {ss \in Nat \X Nat : ss[1] < ss[2]}
<1>1. IsWellFoundedOn(R, Nat)
  BY NatLessThanWellFounded, Zenon DEF OpToRel
<1>2. PICK i \in T : \A j \in T : ~(<<j, i>> \in R)
  <2> HIDE DEF R
  <2> QED  BY <1>1, WFMin, Zenon
<1>3. ASSUME NEW j \in T PROVE i <= j
  <2>1. ~(<<j, i>>[1] < <<j, i>>[2])
    BY <1>2, Zenon
  <2> QED  BY <2>1
<1> QED  BY <1>3

(* Induction up to N, on a set.                                            *)
LEMMA UpTo ==
    ASSUME NEW N \in Nat, NEW P, 0 \in P, \A i \in 1..N : i - 1 \in P => i \in P
    PROVE  \A i \in 0..N : i \in P
<1> DEFINE T == {n \in 0..N : n \notin P}
<1> SUFFICES ASSUME T # {} PROVE FALSE
  OBVIOUS
<1>1. T \in SUBSET Nat
  OBVIOUS
<1>2. PICK n \in T : \A j \in T : n <= j
  <2> HIDE DEF T
  <2> QED  BY <1>1, LeastNat
<1>3. n \in 1..N /\ n - 1 \in 0..N /\ ~(n <= n - 1)
  OBVIOUS
<1>4. n - 1 \in P
  BY <1>2, <1>3
<1> QED  BY <1>3, <1>4

(* What the turns of a loop may do with a value of S.                      *)
Steps(N, S) == [S \X (1..N) -> S]

(* What a loop of N turns that starts from base has done after each.       *)
Looped(N, S, base, step) ==
    {g \in [0..N -> S] : g[0] = base /\ \A i \in 1..N : g[i] = step[<<g[i - 1], i>>]}

(* Every loop over values of S does something: there is a function from    *)
(* its turns to the values.                                                *)
LEMMA LoopExists ==
    ASSUME NEW N \in Nat, NEW S, NEW base \in S, NEW step \in Steps(N, S)
    PROVE  Looped(N, S, base, step) # {}
<1> DEFINE Upto(n) == \E g \in [0..n -> S] : g[0] = base /\ \A i \in 1..n : g[i] = step[<<g[i - 1], i>>]
<1>1. Upto(0)
  <2> DEFINE g == [i \in 0..0 |-> base]
  <2>1. g \in [0..0 -> S] /\ g[0] = base /\ 1..0 = {}
    OBVIOUS
  <2> HIDE DEF g
  <2> QED  BY <2>1
<1>2. ASSUME NEW n \in 1..N, Upto(n - 1) PROVE Upto(n)
  <2>1. PICK g \in [0..(n - 1) -> S] : g[0] = base /\ \A i \in 1..(n - 1) : g[i] = step[<<g[i - 1], i>>]
    BY <1>2
  <2> DEFINE h == [i \in 0..n |-> IF i = n THEN step[<<g[n - 1], n>>] ELSE g[i]]
  <2>2. n - 1 \in 0..(n - 1) /\ \A i \in 0..n : i # n => i \in 0..(n - 1)
    OBVIOUS
  <2>3. step[<<g[n - 1], n>>] \in S
    BY <2>2 DEF Steps
  <2>4. h \in [0..n -> S]
    BY <2>2, <2>3
  <2>5. h[n] = step[<<g[n - 1], n>>] /\ \A i \in 0..(n - 1) : h[i] = g[i]
    OBVIOUS
  <2> HIDE DEF h
  <2>6. h[0] = base
    BY <2>1, <2>5
  <2>7. ASSUME NEW i \in 1..n PROVE h[i] = step[<<h[i - 1], i>>]
    <3>1. i - 1 \in 0..(n - 1) /\ h[i - 1] = g[i - 1]
      BY <2>5
    <3>2. CASE i = n
      BY <2>5, <3>1, <3>2
    <3>3. CASE i # n
      <4>1. i \in 1..(n - 1) /\ i \in 0..(n - 1)
        BY <3>3
      <4> QED  BY <2>1, <2>5, <3>1, <4>1
    <3> QED  BY <3>2, <3>3
  <2> QED  BY <2>4, <2>6, <2>7
<1> HIDE DEF Upto
<1> DEFINE P == {n \in 0..N : Upto(n)}
<1>3. 0 \in P /\ \A i \in 1..N : i - 1 \in P => i \in P
  BY <1>1, <1>2
<1> HIDE DEF P
<1>4. \A i \in 0..N : i \in P
  BY <1>3, UpTo
<1>5. Upto(N)
  BY <1>4 DEF P
<1> QED  BY <1>5 DEF Upto, Looped

Queried == Nat \X {"SRV", "A", "AAAA", "PTR", "DNS"}

Privates == [pending : Nat, answered : BOOLEAN, failed : BOOLEAN, secure : BOOLEAN, srvs : Nat]

Responses == [paths : BOOLEAN, secure : BOOLEAN]

Histories == [asked : SUBSET Queried, dead : SUBSET Queried, tainted : BOOLEAN]

Watches == {"udp", "tcp", "library"} \X {"POLLIN", "POLLOUT"}

(* What the handlers work on.                                              *)
Worlds == [priv : Privates, lookups : SUBSET Queried, watching : SUBSET Watches, response : Responses,
           verdict : {"none", "finished", "failed"}, history : Histories,
           fault : {"none", "freed_srv", "watched_twice"}]

(* The backend has not reported success: it may start lookups.             *)
Open(w) == w.verdict # "finished" /\ ~w.response.secure

(* The count is right, until something is reported.                        *)
Counted(w) == w.verdict = "none" => w.priv.pending = Cardinality(w.lookups)

(* No SRV lookup is under way.                                             *)
Unfollowed(w) == \A l \in w.lookups : l[2] # "SRV"

(* Every lookup is counted and of an entry in the list, an SRV lookup is   *)
(* the only one, and there is none when the backend has reported success.  *)
Sound(w) ==
    /\ w \in Worlds
    /\ w.priv.srvs \in Srv
    /\ IsFiniteSet(w.lookups)
    /\ Cardinality(w.lookups) <= w.priv.pending
    /\ \A l \in w.lookups : l[1] <= w.priv.srvs
    /\ \A l \in w.lookups : l[2] = "SRV" => w.lookups = {l} /\ w.priv.srvs = 0
    /\ ~Open(w) => w.lookups = {}

(* Every SRV target has been looked up.                                    *)
Followed(w) == \A srv \in 1..w.priv.srvs : Hosts(srv) \subseteq w.history.asked

(* As long as the flag stands, everything was vouched for.                 *)
Vouched(w) ==
    request.type # "DNS" /\ library # "AVAHI" /\ (w.priv.secure \/ w.response.secure) => ~w.history.tainted

(* What does not change when lookups are started.                          *)
Starts(w, x) ==
    /\ x.priv.secure = w.priv.secure /\ x.response.secure = w.response.secure
    /\ x.history.tainted = w.history.tainted
    /\ w.history.asked \subseteq x.history.asked
    /\ Counted(w) => Counted(x)

(* lookup_dns, field by field.                                             *)
LEMMA LookupFields ==
    ASSUME NEW w \in Worlds, NEW l \in Queried
    PROVE  LET x == lookup_dns(w, l)
           IN  /\ x \in Worlds
               /\ x.priv.secure = w.priv.secure /\ x.priv.srvs = w.priv.srvs
               /\ x.response = w.response
               /\ x.history.tainted = w.history.tainted
               /\ x.history.asked = w.history.asked \cup {l}
               /\ \/ x.lookups = w.lookups \cup {l} /\ x.priv.pending = w.priv.pending + 1 /\ x.verdict = w.verdict
                  \/ x.lookups = w.lookups /\ x.priv.pending = w.priv.pending /\ x.verdict = w.verdict
                  \/ x.lookups = w.lookups /\ x.priv.pending = w.priv.pending + 1 /\ x.verdict = "failed"
<1> DEFINE w1 == [w EXCEPT !.priv.pending = @ + 1, !.history.asked = @ \cup {l}]
<1>1. /\ w1 \in Worlds
      /\ w1.priv.secure = w.priv.secure /\ w1.priv.srvs = w.priv.srvs /\ w1.response = w.response
      /\ w1.history.tainted = w.history.tainted /\ w1.history.asked = w.history.asked \cup {l}
      /\ w1.lookups = w.lookups /\ w1.priv.pending = w.priv.pending + 1 /\ w1.verdict = w.verdict
  <2>1. w1.priv = [w.priv EXCEPT !.pending = @ + 1] /\ w1.history = [w.history EXCEPT !.asked = @ \cup {l}]
    BY DEF Worlds
  <2>2. w1 = [w EXCEPT !.priv = w1.priv, !.history = w1.history]
    BY <2>1 DEF Worlds
  <2>3. w1.priv \in Privates /\ w1.history \in Histories
    BY <2>1 DEF Worlds, Privates, Histories
  <2>4. /\ w1.priv.secure = w.priv.secure /\ w1.priv.srvs = w.priv.srvs
        /\ w1.history.tainted = w.history.tainted /\ w1.history.asked = w.history.asked \cup {l}
        /\ w1.priv.pending = w.priv.pending + 1
    BY <2>1 DEF Worlds, Privates, Histories
  <2> HIDE DEF w1
  <2> QED  BY <2>2, <2>3, <2>4, Zenon DEF Worlds
<1>2. CASE l[1] \notin request.refused
  <2>1. lookup_dns(w, l) = [w1 EXCEPT !.lookups = @ \cup {l}]
    BY <1>2 DEF lookup_dns
  <2> HIDE DEF w1
  <2> QED  BY <1>1, <2>1 DEF Worlds
<1>3. CASE l[1] \in request.refused /\ library = "ARES"
  BY <1>3, ZenonT(30) DEF lookup_dns, Worlds, Privates, Responses, Histories
<1>4. CASE l[1] \in request.refused /\ library # "ARES"
  <2>1. lookup_dns(w, l) = [w1 EXCEPT !.verdict = "failed"]
    BY <1>4 DEF lookup_dns
  <2> HIDE DEF w1
  <2> QED  BY <1>1, <2>1 DEF Worlds
<1> QED  BY <1>2, <1>3, <1>4

(* lookup_dns counts what it hands to the library.                         *)
LEMMA LookupKeeps ==
    ASSUME NEW w, Sound(w), Open(w), NEW l \in Queried, l \notin w.lookups, l[1] <= w.priv.srvs,
           l[2] = "SRV" => w.lookups = {} /\ w.priv.srvs = 0, Unfollowed(w)
    PROVE  LET x == lookup_dns(w, l)
           IN  /\ Sound(x) /\ Open(x) /\ Starts(w, x)
               /\ x.priv.srvs = w.priv.srvs
               /\ x.lookups \subseteq w.lookups \cup {l}
               /\ x.history.asked = w.history.asked \cup {l}
<1> DEFINE x == lookup_dns(w, l)
<1>1. /\ w \in Worlds /\ w.priv.srvs \in Srv /\ IsFiniteSet(w.lookups) /\ Cardinality(w.lookups) <= w.priv.pending
      /\ w.priv.pending \in Nat /\ \A k \in w.lookups : k[1] <= w.priv.srvs
  BY DEF Sound, Worlds, Privates
<1>2. /\ x \in Worlds
      /\ x.priv.secure = w.priv.secure /\ x.priv.srvs = w.priv.srvs
      /\ x.response = w.response
      /\ x.history.tainted = w.history.tainted
      /\ x.history.asked = w.history.asked \cup {l}
      /\ \/ x.lookups = w.lookups \cup {l} /\ x.priv.pending = w.priv.pending + 1 /\ x.verdict = w.verdict
         \/ x.lookups = w.lookups /\ x.priv.pending = w.priv.pending /\ x.verdict = w.verdict
         \/ x.lookups = w.lookups /\ x.priv.pending = w.priv.pending + 1 /\ x.verdict = "failed"
  BY <1>1, LookupFields
<1>3. /\ IsFiniteSet(w.lookups \cup {l}) /\ Cardinality(w.lookups \cup {l}) = Cardinality(w.lookups) + 1
      /\ Cardinality(w.lookups) \in Nat
  BY <1>1, FS_AddElement, FS_CardinalityType
<1> HIDE DEF x
<1>4. Open(x)
  BY <1>2 DEF Open
<1>5. IsFiniteSet(x.lookups) /\ Cardinality(x.lookups) <= x.priv.pending /\ (Counted(w) => Counted(x))
  <2> DEFINE c == Cardinality(w.lookups)
  <2>1. c \in Nat /\ c <= w.priv.pending
    BY <1>1, <1>3
  <2>2. CASE x.lookups = w.lookups \cup {l} /\ x.priv.pending = w.priv.pending + 1 /\ x.verdict = w.verdict
    BY <1>1, <1>3, <2>1, <2>2 DEF Counted
  <2>3. CASE x.lookups = w.lookups /\ x.priv.pending = w.priv.pending /\ x.verdict = w.verdict
    BY <1>1, <2>3 DEF Counted
  <2>4. CASE x.lookups = w.lookups /\ x.priv.pending = w.priv.pending + 1 /\ x.verdict = "failed"
    BY <1>1, <2>1, <2>4 DEF Counted
  <2> QED  BY <1>2, <2>2, <2>3, <2>4
<1>6. x.lookups \subseteq w.lookups \cup {l}
  BY <1>2
<1>7. \A k \in x.lookups : k[1] <= x.priv.srvs
  BY <1>1, <1>2, <1>6
<1>8. \A k \in x.lookups : k[2] = "SRV" => x.lookups = {k} /\ x.priv.srvs = 0
  BY <1>2, <1>6 DEF Unfollowed
<1>9. Sound(x)
  BY <1>1, <1>2, <1>4, <1>5, <1>7, <1>8 DEF Sound
<1>10. Starts(w, x)
  BY <1>2, <1>5 DEF Starts
<1> QED  BY <1>2, <1>4, <1>6, <1>9, <1>10 DEF x

(* Starting more lookups is starting lookups.                              *)
LEMMA StartsTransitive ==
    ASSUME NEW w, NEW x, NEW y, Starts(w, x), Starts(x, y)
    PROVE  Starts(w, y)
BY DEF Starts

(* Nothing is started where nothing changes.                               *)
LEMMA StartsReflexive ==
    ASSUME NEW w
    PROVE  Starts(w, w)
BY DEF Starts

(* The address lookups of an entry.                                        *)
LEMMA HostsFacts ==
    ASSUME NEW srv \in Nat
    PROVE  /\ Hosts(srv) \subseteq Queried
           /\ \A l \in Hosts(srv) : l[1] = srv /\ l[2] # "SRV"
           /\ \A l \in Hosts(srv) : l = <<srv, "A">> \/ l = <<srv, "AAAA">>
BY DEF Hosts, Queried

(* lookup_host, for an entry without lookups, starts the ones for its      *)
(* addresses.                                                              *)
LEMMA HostKeeps ==
    ASSUME NEW w, Sound(w), Open(w), Unfollowed(w), NEW srv \in Nat, srv <= w.priv.srvs,
           \A l \in w.lookups : l[1] # srv
    PROVE  LET x == lookup_host(w, srv)
           IN  /\ Sound(x) /\ Open(x) /\ Unfollowed(x) /\ Starts(w, x)
               /\ x.priv.srvs = w.priv.srvs
               /\ Hosts(srv) \subseteq x.history.asked
<1> DEFINE four == <<srv, "A">>
           six == <<srv, "AAAA">>
           y == IF four \in Hosts(srv) THEN lookup_dns(w, four) ELSE w
           x == IF six \in Hosts(srv) THEN lookup_dns(y, six) ELSE y
<1>1. lookup_host(w, srv) = x
  BY DEF lookup_host
<1>2. /\ four \in Queried /\ four[1] = srv /\ four[2] # "SRV"
      /\ six \in Queried /\ six[1] = srv /\ six[2] # "SRV" /\ four # six
  BY DEF Queried
<1>3. four \notin w.lookups /\ six \notin w.lookups
  BY <1>2
<1>4. \A l \in Hosts(srv) : l = four \/ l = six
  BY HostsFacts
<1> HIDE DEF four, six
<1>5. /\ Sound(y) /\ Open(y) /\ Starts(w, y) /\ y.priv.srvs = w.priv.srvs
      /\ y.lookups \subseteq w.lookups \cup {four}
      /\ four \in Hosts(srv) => four \in y.history.asked
  <2>1. CASE four \in Hosts(srv)
    BY <1>2, <1>3, <2>1, LookupKeeps
  <2>2. CASE four \notin Hosts(srv)
    BY <2>2, StartsReflexive
  <2> QED  BY <2>1, <2>2
<1> HIDE DEF y
<1>6. Unfollowed(y) /\ six \notin y.lookups
  BY <1>2, <1>3, <1>5 DEF Unfollowed
<1>7. /\ Sound(x) /\ Open(x) /\ Starts(y, x) /\ x.priv.srvs = y.priv.srvs
      /\ x.lookups \subseteq y.lookups \cup {six}
      /\ six \in Hosts(srv) => six \in x.history.asked
  <2>1. CASE six \in Hosts(srv)
    BY <1>2, <1>5, <1>6, <2>1, LookupKeeps
  <2>2. CASE six \notin Hosts(srv)
    BY <1>5, <2>2, StartsReflexive
  <2> QED  BY <2>1, <2>2
<1> HIDE DEF x
<1>8. Unfollowed(x)
  BY <1>2, <1>6, <1>7 DEF Unfollowed
<1>9. Hosts(srv) \subseteq x.history.asked
  BY <1>4, <1>5, <1>7 DEF Starts
<1>10. Starts(w, x)
  BY <1>5, <1>7, StartsTransitive
<1> QED  BY <1>1, <1>5, <1>7, <1>8, <1>9, <1>10

(* An entry is added to the list.                                          *)
Entered(w) == [w EXCEPT !.priv.srvs = @ + 1]

(* What the new entry changes.                                             *)
LEMMA EnteredFields ==
    ASSUME NEW w \in Worlds
    PROVE  LET x == Entered(w)
           IN  /\ x \in Worlds
               /\ x.priv.srvs = w.priv.srvs + 1 /\ x.priv.pending = w.priv.pending /\ x.priv.secure = w.priv.secure
               /\ x.lookups = w.lookups /\ x.response = w.response
               /\ x.verdict = w.verdict /\ x.history = w.history
BY DEF Entered, Worlds, Privates

(* apply_srv adds an entry and looks it up.                                *)
LEMMA SrvKeeps ==
    ASSUME NEW w, Sound(w), Open(w), Unfollowed(w), Followed(w), w.priv.srvs < MaxSrv
    PROVE  LET x == apply_srv(w)
           IN  /\ Sound(x) /\ Open(x) /\ Unfollowed(x) /\ Followed(x) /\ Starts(w, x)
               /\ x.priv.srvs = w.priv.srvs + 1
<1> DEFINE e == Entered(w)
           srv == w.priv.srvs + 1
           x == lookup_host(e, srv)
<1>1. apply_srv(w) = x
  BY DEF apply_srv, Entered
<1>2. w \in Worlds /\ w.priv.srvs \in Nat /\ \A l \in w.lookups : l[1] \in Nat /\ l[1] <= w.priv.srvs
  BY DEF Sound, Worlds, Privates, Queried
<1>3. /\ e \in Worlds
      /\ e.priv.srvs = w.priv.srvs + 1 /\ e.priv.pending = w.priv.pending /\ e.priv.secure = w.priv.secure
      /\ e.lookups = w.lookups /\ e.response = w.response
      /\ e.verdict = w.verdict /\ e.history = w.history
  BY <1>2, EnteredFields
<1> HIDE DEF e
<1>4. Open(e) /\ Unfollowed(e)
  BY <1>3 DEF Open, Unfollowed
<1>5. e.priv.srvs \in Srv
  BY <1>2, <1>3, ConstantsAssumption DEF Srv
<1>6. \A l \in e.lookups : l[1] <= e.priv.srvs
  BY <1>2, <1>3
<1>7. Sound(e)
  BY <1>3, <1>4, <1>5, <1>6 DEF Sound, Unfollowed
<1>8. srv \in Nat /\ srv <= e.priv.srvs /\ \A l \in e.lookups : l[1] # srv
  BY <1>2, <1>3
<1>9. Starts(w, e)
  BY <1>3 DEF Starts, Counted
<1> HIDE DEF srv
<1>10. /\ Sound(x) /\ Open(x) /\ Unfollowed(x) /\ Starts(e, x)
       /\ x.priv.srvs = e.priv.srvs
       /\ Hosts(srv) \subseteq x.history.asked
  BY <1>4, <1>7, <1>8, HostKeeps
<1> HIDE DEF x
<1>11. Starts(w, x)
  BY <1>9, <1>10, StartsTransitive
<1>12. Followed(x)
  <2> SUFFICES ASSUME NEW s \in 1..x.priv.srvs PROVE Hosts(s) \subseteq x.history.asked
    BY DEF Followed
  <2>1. CASE s = srv
    BY <1>10, <2>1
  <2>2. CASE s # srv
    <3>1. s \in 1..w.priv.srvs
      BY <1>2, <1>3, <1>10, <2>2 DEF srv
    <3> QED  BY <1>11, <3>1 DEF Followed, Starts
  <2> QED  BY <2>1, <2>2
<1> QED  BY <1>1, <1>3, <1>10, <1>11, <1>12

(* apply_srv keeps the types.                                              *)
LEMMA SrvType ==
    ASSUME NEW w \in Worlds
    PROVE  apply_srv(w) \in Worlds
<1> DEFINE e == Entered(w)
           srv == w.priv.srvs + 1
           y == IF <<srv, "A">> \in Hosts(srv) THEN lookup_dns(e, <<srv, "A">>) ELSE e
           x == IF <<srv, "AAAA">> \in Hosts(srv) THEN lookup_dns(y, <<srv, "AAAA">>) ELSE y
<1>1. apply_srv(w) = x
  BY DEF apply_srv, lookup_host, Entered
<1>2. e \in Worlds /\ <<srv, "A">> \in Queried /\ <<srv, "AAAA">> \in Queried
  BY EnteredFields DEF Worlds, Privates, Queried
<1> HIDE DEF e, srv
<1>3. y \in Worlds
  BY <1>2, LookupFields
<1> HIDE DEF y
<1>4. x \in Worlds
  BY <1>2, <1>3, LookupFields
<1> QED  BY <1>1, <1>4

(* The loop over the records begins with what there is, and each of its    *)
(* turns goes on from the one before.                                      *)
LEMMA AppliedLoop ==
    ASSUME NEW w \in Worlds, NEW found \in Nat
    PROVE  /\ AppliedUpTo(w, found)[0] = w
           /\ \A i \in 1..found : AppliedUpTo(w, found)[i] = apply_srv(AppliedUpTo(w, found)[i - 1])
<1> DEFINE step == [x \in Worlds \X (1..found) |-> apply_srv(x[1])]
           Is(g) == g = [i \in 0..found |-> IF i = 0 THEN w ELSE apply_srv(g[i - 1])]
<1>1. step \in Steps(found, Worlds)
  BY SrvType DEF Steps
<1>2. \A s \in Worlds, i \in 1..found : step[<<s, i>>] = apply_srv(s)
  OBVIOUS
<1> HIDE DEF step
<1>3. PICK g \in [0..found -> Worlds] : g[0] = w /\ \A i \in 1..found : g[i] = step[<<g[i - 1], i>>]
  <2>1. Looped(found, Worlds, w, step) # {}
    BY <1>1, LoopExists
  <2> QED  BY <2>1 DEF Looped
<1>4. ASSUME NEW i \in 0..found PROVE g[i] = IF i = 0 THEN w ELSE apply_srv(g[i - 1])
  <2>1. CASE i = 0
    BY <1>3, <2>1
  <2>2. CASE i # 0
    <3>1. i \in 1..found /\ i - 1 \in 0..found
      BY <2>2
    <3> QED  BY <1>2, <1>3, <2>2, <3>1, Zenon
  <2> QED  BY <2>1, <2>2
<1>5. Is(g)
  BY <1>3, <1>4
<1>6. AppliedUpTo(w, found) = CHOOSE h : Is(h)
  BY DEF AppliedUpTo
<1>7. Is(AppliedUpTo(w, found))
  BY <1>5, <1>6, Zenon
<1> QED  BY <1>7

(* The records of the answer to the SRV lookup start the lookups of all    *)
(* targets.                                                                *)
LEMMA AppliedKeeps ==
    ASSUME NEW w, Sound(w), Open(w), w.lookups = {}, w.priv.srvs = 0, NEW found \in 0..MaxSrv
    PROVE  LET x == AppliedUpTo(w, found)[found]
           IN  Sound(x) /\ Open(x) /\ Followed(x) /\ Starts(w, x)
<1> DEFINE loop == AppliedUpTo(w, found)
           Kept(x, i) == /\ Sound(x) /\ Open(x) /\ Unfollowed(x) /\ Followed(x) /\ Starts(w, x)
                         /\ x.priv.srvs = i
           P == {i \in 0..found : Kept(loop[i], i)}
<1>1. w \in Worlds /\ found \in Nat /\ found <= MaxSrv /\ MaxSrv \in Nat
  BY ConstantsAssumption DEF Sound
<1>2. loop[0] = w /\ \A i \in 1..found : loop[i] = apply_srv(loop[i - 1])
  BY <1>1, AppliedLoop
<1> HIDE DEF loop
<1>3. Kept(loop[0], 0)
  <2>1. Followed(w) /\ Unfollowed(w)
    BY DEF Followed, Unfollowed
  <2> QED  BY <1>2, <2>1, StartsReflexive
<1>4. ASSUME NEW i \in 1..found, Kept(loop[i - 1], i - 1) PROVE Kept(loop[i], i)
  <2> DEFINE y == loop[i - 1]
  <2>1. loop[i] = apply_srv(y) /\ y.priv.srvs = i - 1 /\ i - 1 < MaxSrv
    BY <1>1, <1>2, <1>4
  <2>2. Sound(y) /\ Open(y) /\ Unfollowed(y) /\ Followed(y) /\ Starts(w, y)
    BY <1>4
  <2> HIDE DEF y
  <2> DEFINE x == apply_srv(y)
  <2>3. Sound(x) /\ Open(x) /\ Unfollowed(x) /\ Followed(x) /\ Starts(y, x) /\ x.priv.srvs = y.priv.srvs + 1
    BY <2>1, <2>2, SrvKeeps
  <2> HIDE DEF x
  <2>4. Starts(w, x)
    BY <2>2, <2>3, StartsTransitive
  <2>5. x.priv.srvs = i
    BY <2>1, <2>3
  <2>6. loop[i] = x
    BY <2>1 DEF x
  <2> QED  BY <2>3, <2>4, <2>5, <2>6
<1> HIDE DEF Kept
<1>5. 0 \in P /\ \A i \in 1..found : i - 1 \in P => i \in P
  BY <1>1, <1>3, <1>4
<1> HIDE DEF P
<1>6. \A i \in 0..found : i \in P
  BY <1>1, <1>5, UpTo
<1>7. Kept(loop[found], found)
  BY <1>1, <1>6 DEF P
<1> QED  BY <1>7 DEF Kept, loop

(* A world that differs in flags only.                                     *)
Like(w, x) ==
    /\ x \in Worlds
    /\ x.priv.pending = w.priv.pending /\ x.priv.srvs = w.priv.srvs
    /\ x.lookups = w.lookups /\ x.verdict = w.verdict
    /\ x.response.secure = w.response.secure
    /\ x.history.asked = w.history.asked /\ x.history.tainted = w.history.tainted

(* Flags do not bear on the count.                                         *)
LEMMA LikeKeeps ==
    ASSUME NEW w, NEW x, Like(w, x), Sound(w)
    PROVE  /\ Sound(x) /\ Open(w) = Open(x)
           /\ Followed(w) => Followed(x)
           /\ Counted(w) => Counted(x)
<1>1. Open(w) = Open(x)
  BY DEF Open, Like
<1>2. Sound(x)
  BY <1>1 DEF Sound, Like
<1> QED  BY <1>1, <1>2 DEF Followed, Counted, Like

(* The flags of struct priv_dns are set.                                   *)
Failing(w) == [w EXCEPT !.priv.failed = TRUE]
Giving(w) == [w EXCEPT !.priv.answered = TRUE]
Judging(w, b) == [w EXCEPT !.priv.secure = b]
Recorded(w, b) == [w EXCEPT !.priv.answered = TRUE, !.response.paths = b]

(* Setting a flag changes nothing else.                                    *)
LEMMA FlagFields ==
    ASSUME NEW w \in Worlds, NEW b \in BOOLEAN
    PROVE  /\ Like(w, Failing(w)) /\ Failing(w).priv.secure = w.priv.secure
           /\ Like(w, Giving(w)) /\ Giving(w).priv.secure = w.priv.secure
           /\ Like(w, Judging(w, b)) /\ Judging(w, b).priv.secure = b
           /\ Like(w, Recorded(w, b)) /\ Recorded(w, b).priv.secure = w.priv.secure
<1>1. Like(w, Failing(w)) /\ Failing(w).priv.secure = w.priv.secure
  BY Zenon DEF Failing, Like, Worlds, Privates
<1>2. Like(w, Giving(w)) /\ Giving(w).priv.secure = w.priv.secure
  BY Zenon DEF Giving, Like, Worlds, Privates
<1>3. Like(w, Judging(w, b)) /\ Judging(w, b).priv.secure = b
  BY DEF Judging, Like, Worlds, Privates
<1>4. Like(w, Recorded(w, b)) /\ Recorded(w, b).priv.secure = w.priv.secure
  <2> DEFINE y == Giving(w)
             x == [y EXCEPT !.response.paths = b]
  <2>1. y \in Worlds
    BY <1>2 DEF Like
  <2> HIDE DEF y
  <2>2. Like(y, x) /\ x.priv.secure = y.priv.secure
    BY <2>1 DEF Like, Worlds, Responses
  <2>3. x = Recorded(w, b)
    BY Zenon DEF y, Giving, Recorded
  <2>4. Like(w, y) /\ y.priv.secure = w.priv.secure
    BY <1>2 DEF y
  <2> HIDE DEF x
  <2>5. Like(w, x) /\ x.priv.secure = w.priv.secure
    BY <2>2, <2>4 DEF Like
  <2> QED  BY <2>3, <2>5
<1> QED  BY <1>1, <1>2, <1>3, <1>4

(* apply_record starts lookups for SRV records, and nothing otherwise.     *)
LEMMA RecordKeeps ==
    ASSUME NEW w, Sound(w), Followed(w), NEW l \in Queried, NEW found \in Nat,
           l[2] = "SRV" => Open(w) /\ w.lookups = {} /\ w.priv.srvs = 0 /\ found <= MaxSrv
    PROVE  LET x == apply_record(w, l, found)
           IN  Sound(x) /\ Followed(x) /\ Starts(w, x)
<1>1. CASE l[2] = "SRV"
  <2>1. found \in 0..MaxSrv
    BY <1>1, ConstantsAssumption
  <2>2. apply_record(w, l, found) = AppliedUpTo(w, found)[found]
    BY <1>1 DEF apply_record
  <2> QED  BY <1>1, <2>1, <2>2, AppliedKeeps
<1>2. CASE l[2] # "SRV" /\ found = 0
  <2>1. apply_record(w, l, found) = w
    BY <1>2 DEF apply_record
  <2> QED  BY <2>1, StartsReflexive
<1>3. CASE l[2] # "SRV" /\ found # 0
  <2> DEFINE b == w.response.paths \/ l[2] # "PTR"
             x == Recorded(w, b)
  <2>1. w \in Worlds /\ b \in BOOLEAN
    BY DEF Sound
  <2>2. apply_record(w, l, found) = x
    <3>1. [w EXCEPT !.priv.answered = TRUE].response.paths = w.response.paths
      BY <2>1 DEF Worlds
    <3>2. apply_record(w, l, found) = [w EXCEPT !.priv.answered = TRUE, !.response.paths = @ \/ l[2] # "PTR"]
      BY <1>3, Zenon DEF apply_record
    <3>3. [w EXCEPT !.priv.answered = TRUE, !.response.paths = @ \/ l[2] # "PTR"] = x
      BY <2>1, <3>1 DEF Recorded, Worlds, Privates, Responses
    <3> QED  BY <3>2, <3>3, Zenon
  <2> HIDE DEF b
  <2>3. Like(w, x) /\ x.priv.secure = w.priv.secure
    BY <2>1, FlagFields
  <2> HIDE DEF x
  <2>4. Sound(x) /\ Followed(x) /\ (Counted(w) => Counted(x))
    BY <2>3, LikeKeeps
  <2>5. Starts(w, x)
    BY <2>3, <2>4 DEF Like, Starts
  <2> QED  BY <2>2, <2>4, <2>5
<1> QED  BY <1>1, <1>2, <1>3

(* What the handlers keep.                                                 *)
Good(w) == Sound(w) /\ Followed(w) /\ Vouched(w) /\ Counted(w)

(* check reports, if at all, when there is no lookup left.                 *)
LEMMA CheckKeeps ==
    ASSUME NEW w, Good(w)
    PROVE  /\ Good(check(w))
           /\ check(w).verdict = "none" => check(w) = w /\ w.priv.pending # 0
           /\ check(w).lookups = w.lookups /\ check(w).watching = w.watching
<1> DEFINE vouched == IF w.priv.answered /\ w.priv.secure THEN netresolve_backend_set_secure(w) ELSE w
           success == IF library = "AVAHI" THEN w.priv.answered ELSE ~w.priv.failed
           v == IF success THEN "finished" ELSE "failed"
           x == [vouched EXCEPT !.verdict = v]
<1>1. CASE w.priv.pending # 0
  <2>1. check(w) = w
    BY <1>1 DEF check
  <2> QED  BY <1>1, <2>1
<1>2. CASE w.priv.pending = 0
  <2>1. check(w) = x
    BY <1>2, Zenon DEF check
  <2>2. w \in Worlds
    BY DEF Good, Sound
  <2>3. v \in {"finished", "failed"}
    OBVIOUS
  <2> HIDE DEF v
  <2>4. /\ vouched \in Worlds /\ vouched.priv = w.priv /\ vouched.lookups = w.lookups /\ vouched.history = w.history
        /\ vouched.watching = w.watching
        /\ vouched.response.secure => w.response.secure \/ w.priv.secure
    BY <2>2, ZenonT(30) DEF netresolve_backend_set_secure, Worlds, Responses
  <2> HIDE DEF vouched
  <2>5. /\ x \in Worlds /\ x.priv = w.priv /\ x.lookups = w.lookups /\ x.history = w.history
        /\ x.watching = w.watching
        /\ x.response.secure => w.response.secure \/ w.priv.secure
        /\ x.verdict = v
    BY <2>3, <2>4 DEF Worlds
  <2> HIDE DEF x
  <2>6. w.lookups = {}
    <3>1. IsFiniteSet(w.lookups) /\ Cardinality(w.lookups) <= 0
      BY <1>2 DEF Good, Sound
    <3>2. Cardinality(w.lookups) \in Nat
      BY <3>1, FS_CardinalityType
    <3>3. Cardinality(w.lookups) = 0
      BY <3>1, <3>2
    <3> QED  BY <3>1, <3>3, FS_EmptySet
  <2>7. Sound(x)
    BY <2>5, <2>6 DEF Good, Sound
  <2>8. Followed(x)
    BY <2>5 DEF Good, Followed
  <2>9. Vouched(x)
    BY <2>5 DEF Good, Vouched
  <2>10. Counted(x)
    BY <2>3, <2>5 DEF Counted
  <2> QED  BY <2>1, <2>3, <2>5, <2>7, <2>8, <2>9, <2>10 DEF Good
<1>3. w.priv.pending = 0 \/ w.priv.pending # 0
  OBVIOUS
<1> QED  BY <1>1, <1>2, <1>3

(* Starting lookups leaves alone what the flags rest on.                   *)
LEMMA StartsVouched ==
    ASSUME NEW w, NEW x, Starts(w, x), Vouched(w)
    PROVE  Vouched(x)
BY DEF Starts, Vouched

(* apply_answer, once the lookup is counted off.  An answer that nobody    *)
(* vouched for withdraws the flag before its records are used.             *)
LEMMA AnswerKeeps ==
    ASSUME NEW w, Sound(w), Open(w), Followed(w), Counted(w), NEW l \in Queried, NEW a \in Answer(l),
           a.kind \notin {"error", "bogus"},
           l[2] = "SRV" => w.lookups = {} /\ w.priv.srvs = 0,
           w.priv.secure /\ w.history.tainted /\ request.type # "DNS" /\ library # "AVAHI" =>
               a.kind = "records" /\ ~a.ad /\ ~request.validate
    PROVE  Good(apply_answer(w, l, a))
<1> DEFINE b == w.priv.secure /\ (a.ad \/ request.validate)
           judged == Judging(w, b)
<1>1. w \in Worlds /\ b \in BOOLEAN
  BY DEF Sound
<1>2. judged = [w EXCEPT !.priv.secure = @ /\ (a.ad \/ request.validate)]
  BY <1>1 DEF Judging, Worlds
<1>3. /\ a.kind \in {"garbled", "rcode", "nxdomain", "records"} /\ a.found \in Nat
      /\ l[2] = "SRV" => a.found <= MaxSrv
  BY ConstantsAssumption DEF Answer
<1>4. Like(w, judged) /\ judged.priv.secure = b
  <2> HIDE DEF b
  <2> QED  BY <1>1, FlagFields
<1>5. /\ a.kind = "garbled" /\ request.type # "DNS" => Vouched(w)
      /\ request.type # "DNS" => Vouched(judged)
  BY <1>1, <1>4, ZenonT(30) DEF Vouched, Like, Open
<1> HIDE DEF judged, b
<1>6. Sound(judged) /\ Open(judged) /\ Followed(judged) /\ Counted(judged) /\ judged.lookups = w.lookups /\ judged.priv.srvs = w.priv.srvs
  BY <1>4, LikeKeeps DEF Like
<1>7. CASE request.type = "DNS"
  <2>1. apply_answer(w, l, a) = Giving(w)
    BY <1>7 DEF apply_answer, Giving
  <2>2. Like(w, Giving(w))
    BY <1>1, FlagFields
  <2> QED  BY <1>7, <2>1, <2>2, LikeKeeps DEF Good, Vouched
<1>8. ASSUME NEW x, Sound(x), Followed(x), Counted(x), Vouched(x) PROVE Good(Failing(x))
  <2>1. Like(x, Failing(x)) /\ Failing(x).priv.secure = x.priv.secure
    <3>1. x \in Worlds
      BY <1>8 DEF Sound
    <3> QED  BY <3>1, FlagFields, Zenon
  <2>2. Vouched(Failing(x))
    BY <1>8, <2>1 DEF Vouched, Like
  <2> QED  BY <1>8, <2>1, <2>2, LikeKeeps DEF Good
<1>9. CASE request.type # "DNS" /\ a.kind = "garbled"
  <2>1. apply_answer(w, l, a) = Failing(w)
    BY <1>9 DEF apply_answer, Failing
  <2> QED  BY <1>5, <1>8, <1>9, <2>1
<1>10. CASE request.type # "DNS" /\ (a.kind = "rcode" \/ (a.kind = "nxdomain" /\ l[2] # "SRV"))
  <2>1. apply_answer(w, l, a) = Failing(judged)
    BY <1>2, <1>10 DEF apply_answer, Failing
  <2> QED  BY <1>5, <1>6, <1>8, <1>10, <2>1
<1>11. CASE request.type # "DNS" /\ a.kind = "nxdomain" /\ l[2] = "SRV"
  <2>1. apply_answer(w, l, a) = lookup_host(judged, 0)
    BY <1>2, <1>11 DEF apply_answer
  <2> DEFINE x == lookup_host(judged, 0)
  <2>2. Unfollowed(judged) /\ 0 <= judged.priv.srvs /\ judged.priv.srvs = 0 /\ judged.lookups = {}
    BY <1>6, <1>11 DEF Unfollowed
  <2>3. Sound(x) /\ Starts(judged, x) /\ x.priv.srvs = 0
    BY <1>6, <2>2, HostKeeps
  <2> HIDE DEF x
  <2>4. Followed(x) /\ Counted(x) /\ Vouched(x)
    BY <1>5, <1>6, <1>11, <2>3, StartsVouched DEF Followed, Starts
  <2> QED  BY <2>1, <2>3, <2>4 DEF Good, x
<1>12. CASE request.type # "DNS" /\ a.kind = "records"
  <2> DEFINE x == apply_record(judged, l, a.found)
  <2>1. apply_answer(w, l, a) = x
    BY <1>2, <1>12 DEF apply_answer
  <2>2. Sound(x) /\ Followed(x) /\ Starts(judged, x)
    BY <1>3, <1>6, RecordKeeps
  <2> HIDE DEF x
  <2>3. Counted(x) /\ Vouched(x)
    BY <1>5, <1>6, <1>12, <2>2, StartsVouched DEF Starts
  <2> QED  BY <2>1, <2>2, <2>3 DEF Good
<1>13. a.kind = "garbled" \/ a.kind = "rcode" \/ a.kind = "nxdomain" \/ a.kind = "records"
  BY <1>3
<1> QED  BY <1>7, <1>9, <1>10, <1>11, <1>12, <1>13

(* A world in which the lookup l is counted off.                           *)
Off(w, l, x) ==
    /\ x \in Worlds
    /\ x.priv.pending = w.priv.pending - 1 /\ x.priv.srvs = w.priv.srvs /\ x.priv.secure = w.priv.secure
    /\ x.lookups = w.lookups \ {l}
    /\ x.verdict = w.verdict /\ x.response = w.response /\ x.history.asked = w.history.asked

(* The count can go down, and it stays right.                              *)
LEMMA OffKeeps ==
    ASSUME NEW w, Good(w), NEW l \in w.lookups
    PROVE  /\ w \in Worlds /\ l \in Queried
           /\ w.priv.pending - 1 \in Nat
           /\ \A x : Off(w, l, x) =>
                 /\ Sound(x) /\ Open(x) /\ Followed(x) /\ Counted(x)
                 /\ l[2] = "SRV" => x.lookups = {} /\ x.priv.srvs = 0
<1>1. /\ w \in Worlds /\ w.priv.pending \in Nat
      /\ IsFiniteSet(w.lookups) /\ Cardinality(w.lookups) <= w.priv.pending
      /\ l \in Queried /\ Open(w)
  BY DEF Good, Sound, Worlds, Privates
<1>2. /\ IsFiniteSet(w.lookups \ {l}) /\ Cardinality(w.lookups \ {l}) = Cardinality(w.lookups) - 1
      /\ Cardinality(w.lookups) \in Nat /\ Cardinality(w.lookups \ {l}) \in Nat
  BY <1>1, FS_RemoveElement, FS_CardinalityType
<1>3. w.priv.pending - 1 \in Nat
  BY <1>1, <1>2
<1>4. ASSUME NEW x, Off(w, l, x)
      PROVE  /\ Sound(x) /\ Open(x) /\ Followed(x) /\ Counted(x)
             /\ l[2] = "SRV" => x.lookups = {} /\ x.priv.srvs = 0
  <2>1. Open(x)
    BY <1>1, <1>4 DEF Open, Off
  <2>2. Cardinality(x.lookups) <= x.priv.pending /\ Counted(x)
    BY <1>1, <1>2, <1>4 DEF Counted, Good, Off
  <2>3. Sound(x)
    BY <1>2, <1>4, <2>1, <2>2 DEF Good, Sound, Off
  <2>4. Followed(x)
    BY <1>4 DEF Followed, Good, Off
  <2>5. l[2] = "SRV" => x.lookups = {} /\ x.priv.srvs = 0
    BY <1>4 DEF Good, Sound, Off
  <2> QED  BY <2>1, <2>2, <2>3, <2>4, <2>5
<1> QED  BY <1>1, <1>3, <1>4

(* An answered lookup is counted off.                                      *)
LEMMA AnsweredKeeps ==
    ASSUME NEW w, Good(w), NEW l \in w.lookups, NEW a \in Answer(l)
    PROVE  LET x == Answered(w, l, a)
           IN  /\ Sound(x) /\ Open(x) /\ Followed(x) /\ Counted(x)
               /\ l \in Queried
               /\ l[2] = "SRV" => x.lookups = {} /\ x.priv.srvs = 0
               /\ x.priv.secure = w.priv.secure
               /\ x.history.tainted = (w.history.tainted \/ (a.kind = "records" /\ ~a.secure /\ ~a.ad))
<1> DEFINE x == Answered(w, l, a)
           p == [w.priv EXCEPT !.pending = @ - 1]
           t == w.history.tainted \/ (a.kind = "records" /\ ~a.secure /\ ~a.ad)
           h == [w.history EXCEPT !.tainted = t]
<1>1. w \in Worlds /\ w.priv \in Privates /\ w.history \in Histories /\ w.priv.pending - 1 \in Nat /\ l \in Queried
  BY OffKeeps DEF Worlds
<1>2. p \in Privates /\ p.pending = w.priv.pending - 1 /\ p.srvs = w.priv.srvs /\ p.secure = w.priv.secure
  BY <1>1 DEF Privates
<1>3. t \in BOOLEAN /\ h \in Histories /\ h.tainted = t /\ h.asked = w.history.asked
  BY <1>1, Zenon DEF Histories
<1>4. x = [w EXCEPT !.priv = p, !.lookups = w.lookups \ {l}, !.history = h]
  BY <1>1 DEF Answered, Worlds, Privates, Histories
<1> HIDE DEF x, p, h
<1>5. Off(w, l, x) /\ x.history = h
  BY <1>1, <1>2, <1>3, <1>4, ZenonT(30) DEF Worlds, Off
<1>6. x.priv.secure = w.priv.secure
  BY <1>5 DEF Off
<1> QED  BY <1>1, <1>3, <1>5, <1>6, OffKeeps DEF x

(* Noting a failure keeps what the handlers keep.                          *)
LEMMA FailingKeeps ==
    ASSUME NEW w, Good(w)
    PROVE  Good(Failing(w))
<1>1. w \in Worlds
  BY DEF Good, Sound
<1>2. Like(w, Failing(w)) /\ Failing(w).priv.secure = w.priv.secure
  BY <1>1, FlagFields, ZenonT(30)
<1>3. Vouched(Failing(w))
  BY <1>2 DEF Good, Vouched, Like
<1> QED  BY <1>2, <1>3, LikeKeeps DEF Good

(* The callback of c-ares.                                                 *)
LEMMA AresKeeps ==
    ASSUME NEW w, Good(w), NEW l \in w.lookups, NEW a \in Answer(l), request \in Request, library = "ARES"
    PROVE  Good(aresdns_callback(w, l, a))
<1> DEFINE x == Answered(w, l, a)
<1>1. /\ Sound(x) /\ Open(x) /\ Followed(x) /\ Counted(x) /\ l \in Queried
      /\ l[2] = "SRV" => x.lookups = {} /\ x.priv.srvs = 0
      /\ x.priv.secure = w.priv.secure
      /\ x.history.tainted = (w.history.tainted \/ (a.kind = "records" /\ ~a.secure /\ ~a.ad))
  BY AnsweredKeeps
<1>2. a.kind # "bogus" /\ request.validate = FALSE
  BY DEF Answer, Request, library
<1> HIDE DEF x
<1>3. CASE a.kind = "error"
  <2>1. Vouched(x)
    BY <1>1, <1>3, Zenon DEF Vouched, Good, Open
  <2>2. Good(x)
    BY <1>1, <2>1 DEF Good
  <2>3. aresdns_callback(w, l, a) = Failing(x)
    BY <1>3 DEF aresdns_callback, Failing, x
  <2> QED  BY <2>2, <2>3, FailingKeeps
<1>4. CASE a.kind # "error"
  <2>1. x.priv.secure /\ x.history.tainted /\ request.type # "DNS" /\ library # "AVAHI" =>
            a.kind = "records" /\ ~a.ad /\ ~request.validate
    BY <1>1, <1>2, ZenonT(30) DEF Vouched, Good
  <2>2. Good(apply_answer(x, l, a))
    BY <1>1, <1>2, <1>4, <2>1, AnswerKeeps
  <2>3. aresdns_callback(w, l, a) = check(apply_answer(x, l, a))
    BY <1>4 DEF aresdns_callback, x
  <2> QED  BY <2>2, <2>3, CheckKeeps
<1> QED  BY <1>3, <1>4

(* The callback of libunbound, whose own verdict comes first.              *)
LEMMA UbKeeps ==
    ASSUME NEW w, Good(w), NEW l \in w.lookups, NEW a \in Answer(l)
    PROVE  Good(ubdns_callback(w, l, a))
<1> DEFINE x == Answered(w, l, a)
           b == x.priv.secure /\ a.secure
           y == Judging(x, b)
<1>1. /\ Sound(x) /\ Open(x) /\ Followed(x) /\ Counted(x) /\ l \in Queried
      /\ l[2] = "SRV" => x.lookups = {} /\ x.priv.srvs = 0
      /\ x.priv.secure = w.priv.secure
      /\ x.history.tainted = (w.history.tainted \/ (a.kind = "records" /\ ~a.secure /\ ~a.ad))
  BY AnsweredKeeps
<1>2. x \in Worlds
  BY <1>1 DEF Sound
<1>3. y = [x EXCEPT !.priv.secure = @ /\ a.secure]
  <2> HIDE DEF x
  <2> QED  BY <1>2 DEF Judging, Worlds
<1>4. CASE a.kind = "error"
  <2> HIDE DEF x
  <2>1. Vouched(x)
    BY <1>1, <1>4, Zenon DEF Vouched, Good, Open
  <2>2. Good(x)
    BY <1>1, <2>1 DEF Good
  <2>3. ubdns_callback(w, l, a) = Failing(x)
    BY <1>4 DEF ubdns_callback, Failing, x
  <2> QED  BY <2>2, <2>3, FailingKeeps
<1>5. Like(x, y) /\ y.priv.secure = b
  <2>1. b \in BOOLEAN
    OBVIOUS
  <2> HIDE DEF x, b
  <2> QED  BY <1>2, <2>1, FlagFields
<1>6. /\ y.priv.secure /\ y.history.tainted /\ request.type # "DNS" /\ library # "AVAHI" => FALSE
      /\ Vouched(y)
  <2> HIDE DEF x, y
  <2> QED  BY <1>1, <1>5, Zenon DEF Vouched, Good, Like, Open
<1>7. Sound(y) /\ Open(y) /\ Followed(y) /\ Counted(y) /\ y.lookups = x.lookups /\ y.priv.srvs = x.priv.srvs
  <2> HIDE DEF x, y
  <2> QED  BY <1>1, <1>5, LikeKeeps DEF Like
<1> HIDE DEF x, y
<1>8. CASE a.kind = "bogus"
  <2>1. Good(y)
    BY <1>6, <1>7 DEF Good
  <2>2. ubdns_callback(w, l, a) = check(Failing(y))
    BY <1>3, <1>8 DEF ubdns_callback, Failing, x
  <2> QED  BY <2>1, <2>2, FailingKeeps, CheckKeeps
<1>9. CASE a.kind \notin {"error", "bogus"}
  <2>1. Good(apply_answer(y, l, a))
    BY <1>1, <1>6, <1>7, <1>9, AnswerKeeps
  <2>2. ubdns_callback(w, l, a) = check(apply_answer(y, l, a))
    BY <1>3, <1>9 DEF ubdns_callback, x
  <2> QED  BY <2>1, <2>2, CheckKeeps
<1> QED  BY <1>4, <1>8, <1>9

(* A failure is reported.                                                  *)
Reporting(w) == [w EXCEPT !.verdict = "failed"]

(* Reporting failure changes nothing but the report.                       *)
LEMMA ReportingKeeps ==
    ASSUME NEW w, Good(w)
    PROVE  Good(Reporting(w)) /\ Reporting(w).lookups = w.lookups
<1> DEFINE x == Reporting(w)
<1>1. /\ x \in Worlds /\ x.priv = w.priv /\ x.lookups = w.lookups /\ x.response = w.response
      /\ x.history = w.history /\ x.verdict = "failed"
  BY DEF Good, Sound, Worlds, Reporting
<1> HIDE DEF x
<1>2. Sound(x)
  BY <1>1 DEF Good, Sound, Open
<1>3. Followed(x) /\ Vouched(x) /\ Counted(x)
  BY <1>1 DEF Good, Followed, Vouched, Counted
<1> QED  BY <1>1, <1>2, <1>3 DEF Good, x

(* A browser or resolver of avahi is done.                                 *)
Ended(w, l) == [w EXCEPT !.priv.pending = @ - 1, !.lookups = @ \ {l}]

(* It is counted off like an answer.                                       *)
LEMMA EndedKeeps ==
    ASSUME NEW w, Good(w), NEW l \in w.lookups
    PROVE  Good(Ended(w, l))
<1> DEFINE x == Ended(w, l)
           p == [w.priv EXCEPT !.pending = @ - 1]
<1>1. w \in Worlds /\ w.priv \in Privates /\ w.priv.pending - 1 \in Nat
  BY OffKeeps DEF Worlds
<1>2. p \in Privates /\ p.pending = w.priv.pending - 1 /\ p.srvs = w.priv.srvs /\ p.secure = w.priv.secure
  BY <1>1 DEF Privates
<1>3. x = [w EXCEPT !.priv = p, !.lookups = w.lookups \ {l}]
  BY <1>1 DEF Ended, Worlds, Privates
<1> HIDE DEF x, p
<1>4. Off(w, l, x) /\ x.history = w.history
  BY <1>1, <1>2, <1>3, ZenonT(30) DEF Worlds, Off
<1>5. Sound(x) /\ Open(x) /\ Followed(x) /\ Counted(x)
  BY <1>4, OffKeeps
<1>6. Vouched(x)
  BY <1>4 DEF Vouched, Good, Off
<1> QED  BY <1>5, <1>6 DEF Good, x

(* A browser that has failed says nothing more.                            *)
LEMMA DeadKeeps ==
    ASSUME NEW w, Good(w), NEW l \in Queried
    PROVE  Good([w EXCEPT !.history.dead = @ \cup {l}])
<1> DEFINE x == [w EXCEPT !.history.dead = @ \cup {l}]
<1>1. w \in Worlds
  BY DEF Good, Sound
<1>2. Like(w, x) /\ x.priv.secure = w.priv.secure
  BY <1>1 DEF Like, Worlds, Histories
<1> HIDE DEF x
<1>3. Vouched(x)
  BY <1>2 DEF Good, Vouched, Like
<1> QED  BY <1>2, <1>3, LikeKeeps DEF Good, x

(* The events of an avahi record browser.                                  *)
LEMMA RecordCallbackKeeps ==
    ASSUME NEW w, Good(w), NEW l \in Queried,
           NEW e \in {"new", "unexpected", "all_for_now", "cache_exhausted", "failure", "other"},
           e = "all_for_now" => l \in w.lookups, e = "new" => l[2] # "SRV"
    PROVE  Good(record_callback(w, l, e))
<1>1. CASE e = "unexpected"
  BY <1>1 DEF record_callback
<1>2. CASE e = "new"
  <2> DEFINE x == apply_record(w, l, 1)
  <2>1. record_callback(w, l, e) = check(x)
    BY <1>2 DEF record_callback
  <2>2. Sound(x) /\ Followed(x) /\ Starts(w, x)
    BY <1>2, RecordKeeps DEF Good
  <2> HIDE DEF x
  <2>3. Good(x)
    BY <2>2, StartsVouched DEF Good, Starts
  <2> QED  BY <2>1, <2>3, CheckKeeps
<1>3. CASE e = "all_for_now"
  <2>1. record_callback(w, l, e) = check(Ended(w, l))
    BY <1>3 DEF record_callback, Ended
  <2> QED  BY <1>3, <2>1, EndedKeeps, CheckKeeps
<1>4. CASE e = "cache_exhausted"
  <2>1. record_callback(w, l, e) = check(w)
    BY <1>4 DEF record_callback
  <2> QED  BY <2>1, CheckKeeps
<1>5. CASE e = "failure"
  <2> DEFINE r == Reporting(w)
             x == [r EXCEPT !.history.dead = @ \cup {l}]
  <2>1. record_callback(w, l, e) = check(x)
    BY <1>5 DEF record_callback, Reporting
  <2>2. Good(r)
    BY ReportingKeeps
  <2> HIDE DEF r
  <2>3. Good(x)
    BY <2>2, DeadKeeps
  <2> HIDE DEF x
  <2> QED  BY <2>1, <2>3, CheckKeeps
<1>6. CASE e = "other"
  <2>1. record_callback(w, l, e) = Reporting(w)
    BY <1>6 DEF record_callback, Reporting
  <2> QED  BY <2>1, ReportingKeeps
<1> QED  BY <1>1, <1>2, <1>3, <1>4, <1>5, <1>6

(* The answer of the avahi address resolver.                               *)
LEMMA AddressCallbackKeeps ==
    ASSUME NEW w, Good(w), NEW l \in w.lookups, NEW e \in {"found", "failure", "other"}
    PROVE  Good(address_callback(w, l, e))
<1> DEFINE x == Ended(w, l)
<1>1. Good(x)
  BY EndedKeeps
<1>2. CASE e = "found"
  <2>1. address_callback(w, l, e) = check(x)
    BY <1>2 DEF address_callback, Ended
  <2> QED  BY <1>1, <2>1, CheckKeeps
<1>3. CASE e = "failure"
  <2>1. address_callback(w, l, e) = check(Reporting(x))
    BY <1>3 DEF address_callback, Ended, Reporting
  <2> HIDE DEF x
  <2> QED  BY <1>1, <2>1, ReportingKeeps, CheckKeeps
<1>4. CASE e = "other"
  <2>1. address_callback(w, l, e) = Reporting(x)
    BY <1>4 DEF address_callback, Ended, Reporting
  <2> HIDE DEF x
  <2> QED  BY <1>1, <2>1, ReportingKeeps
<1> QED  BY <1>2, <1>3, <1>4

(* The backend is about to be set up: nothing has happened yet.            *)
Fresh(w) ==
    /\ w.lookups = {} /\ w.priv.pending = 0 /\ w.priv.srvs = 0
    /\ ~w.history.tainted /\ Open(w)

(* The inductive invariant.  The count outlives the lookups when a query   *)
(* is cancelled.                                                           *)
DnsInv ==
    /\ request \in Request
    /\ phase \in {"idle", "waiting", "dispatch", "over"}
    /\ Sound(World) /\ Followed(World) /\ Vouched(World)
    /\ phase # "over" => Counted(World)
    /\ phase = "idle" => Fresh(World)

(* World holds the variables.                                              *)
LEMMA WorldFields ==
    /\ World.priv = priv /\ World.lookups = lookups /\ World.watching = watching
    /\ World.response = response /\ World.verdict = verdict /\ World.history = history
    /\ World.fault = fault
BY DEF World

(* A handler leaves the variables as it has computed them.                 *)
LEMMA Applied ==
    ASSUME NEW w, w \in Worlds, Apply(w)
    PROVE  World' = w /\ request' = request
<1>1. w = [priv |-> w.priv, lookups |-> w.lookups, watching |-> w.watching, response |-> w.response,
           verdict |-> w.verdict, history |-> w.history, fault |-> w.fault]
  BY DEF Worlds
<1> QED  BY <1>1, ZenonT(30) DEF Apply, World

(* What is true of the world a handler has computed is true of the next    *)
(* state.                                                                  *)
LEMMA AppliedInv ==
    ASSUME NEW w, Apply(w), DnsInv, Sound(w), Followed(w), Vouched(w),
           phase' \in {"waiting", "dispatch", "over"}, phase' # "over" => Counted(w)
    PROVE  DnsInv'
<1>1. World' = w /\ request' = request
  BY Applied DEF Sound
<1>2. Sound(World)'
  BY <1>1 DEF Sound, Open
<1>3. Followed(World)'
  BY <1>1 DEF Followed, Hosts
<1>4. Vouched(World)'
  BY <1>1 DEF Vouched, library
<1>5. phase' # "over" => Counted(World)'
  BY <1>1 DEF Counted
<1>6. (request \in Request)'
  BY <1>1 DEF DnsInv, Request
<1> QED  BY <1>2, <1>3, <1>4, <1>5, <1>6 DEF DnsInv

(* cleanup drops the lookups that are under way.                           *)
LEMMA CleanupKeeps ==
    ASSUME NEW w, Sound(w), Followed(w), Vouched(w)
    PROVE  Sound(cleanup(w)) /\ Followed(cleanup(w)) /\ Vouched(cleanup(w))
<1> DEFINE x == cleanup(w)
<1>1. /\ x \in Worlds /\ x.priv = w.priv /\ x.lookups = {} /\ x.history = w.history /\ x.response = w.response
  BY ZenonT(30) DEF cleanup, Sound, Worlds
<1> HIDE DEF x
<1>2. IsFiniteSet({}) /\ Cardinality({}) = 0
  BY FS_EmptySet
<1>3. w.priv.pending \in Nat
  BY DEF Sound, Worlds, Privates
<1>4. Sound(x)
  BY <1>1, <1>2, <1>3 DEF Sound
<1>5. Followed(x) /\ Vouched(x)
  BY <1>1 DEF Followed, Vouched
<1> QED  BY <1>4, <1>5 DEF x

(* Back in the query.                                                      *)
LEMMA ReturnedKeeps ==
    ASSUME NEW w, DnsInv, Good(w), Returned(w)
    PROVE  DnsInv'
<1>1. CASE w.verdict = "none"
  BY <1>1, AppliedInv DEF Returned, Good
<1>2. CASE w.verdict # "none"
  BY <1>2, AppliedInv, CleanupKeeps DEF Returned, Good
<1> QED  BY <1>1, <1>2

(* Watches do not bear on the count.                                       *)
LEMMA WatchKeeps ==
    ASSUME NEW w, Good(w), NEW fds \in ares_fds(w)
    PROVE  LET x == watch_file_descriptors(w, fds)
           IN  /\ Good(x) /\ x.lookups = w.lookups
               /\ w.lookups = {} => x.watching = w.watching
<1> DEFINE x == watch_file_descriptors(w, fds)
           more == (fds.reads \X {"POLLIN"}) \cup (fds.writes \X {"POLLOUT"})
           v == w.watching \cup (fds.reads \X {"POLLIN"}) \cup (fds.writes \X {"POLLOUT"})
           g == IF fds.reads \cap fds.writes # {} THEN "watched_twice" ELSE w.fault
<1>1. w \in Worlds
  BY DEF Good, Sound
<1>2. /\ fds.reads \in SUBSET {"udp", "tcp"} /\ fds.writes \in SUBSET {"tcp"}
      /\ fds.writes \subseteq fds.reads /\ (w.lookups = {} => fds.reads = {})
  BY Zenon DEF ares_fds
<1>3. more \in SUBSET Watches /\ (w.lookups = {} => more = {})
  BY <1>2 DEF Watches
<1>4. v \in SUBSET Watches /\ (w.lookups = {} => v = w.watching)
  <2>1. v = w.watching \cup more /\ w.watching \in SUBSET Watches
    BY <1>1 DEF Worlds
  <2> HIDE DEF v, more
  <2> QED  BY <1>3, <2>1
<1>5. g \in {"none", "freed_srv", "watched_twice"}
  BY <1>1 DEF Worlds
<1>6. x = [w EXCEPT !.watching = v, !.fault = g]
  BY <1>1, Zenon DEF watch_file_descriptors, Worlds
<1> HIDE DEF x, v, g, more
<1>7. Like(w, x) /\ x.priv.secure = w.priv.secure /\ x.watching = v
  BY <1>1, <1>4, <1>5, <1>6, Zenon DEF Like, Worlds
<1>8. Vouched(x)
  BY <1>7 DEF Good, Vouched, Like
<1>9. Good(x)
  BY <1>7, <1>8, LikeKeeps DEF Good
<1> QED  BY <1>4, <1>7, <1>9 DEF Like, x

(* setup sets the flags of a fresh state object.                           *)
LEMMA SetupKeeps ==
    ASSUME NEW ok \in BOOLEAN, DnsInv, phase = "idle"
    PROVE  Good(setup(ok)) /\ Fresh(setup(ok))
<1> DEFINE x == setup(ok)
           w == World
           b == request.trust \/ request.validate
           v == IF ok THEN "none" ELSE "failed"
           c == IF ok /\ library # "ARES" THEN {<<"library", "POLLIN">>} ELSE {}
           p == [w.priv EXCEPT !.secure = b]
<1>1. w \in Worlds /\ w.priv \in Privates /\ b \in BOOLEAN /\ c \in SUBSET Watches /\ v \in {"none", "failed"}
  BY DEF DnsInv, Sound, Worlds, Watches
<1>2. Sound(w) /\ Fresh(w)
  BY DEF DnsInv
<1> HIDE DEF w
<1>3. x = [w EXCEPT !.priv = p, !.watching = c, !.verdict = v]
  BY <1>1 DEF setup, w, Worlds, Privates
<1>4. p \in Privates /\ p.pending = w.priv.pending /\ p.srvs = w.priv.srvs
  BY <1>1, Zenon DEF Privates
<1> HIDE DEF x, p, b, c, v
<1>5. /\ x \in Worlds /\ x.priv = p /\ x.lookups = w.lookups /\ x.history = w.history /\ x.response = w.response
      /\ x.verdict = v
  BY <1>1, <1>3, <1>4, Zenon DEF Worlds
<1>6. IsFiniteSet({}) /\ Cardinality({}) = 0
  BY FS_EmptySet
<1>7. Sound(x)
  BY <1>2, <1>4, <1>5, <1>6 DEF Sound, Fresh
<1>8. Fresh(x)
  BY <1>1, <1>2, <1>4, <1>5 DEF Fresh, Open
<1>9. Followed(x) /\ Vouched(x) /\ Counted(x)
  BY <1>2, <1>4, <1>5, <1>6 DEF Followed, Vouched, Counted, Fresh
<1> QED  BY <1>7, <1>8, <1>9 DEF Good, x

(* The first lookup of a query.                                            *)
LEMMA FirstKeeps ==
    ASSUME NEW w, Good(w), Fresh(w), NEW kind \in {"SRV", "A", "AAAA", "PTR", "DNS"}
    PROVE  Good(lookup_dns(w, <<0, kind>>)) /\ Good(lookup_host(w, 0))
<1> DEFINE l == <<0, kind>>
           x == lookup_dns(w, l)
           y == lookup_host(w, 0)
<1>1. l \in Queried /\ l[1] = 0 /\ w.lookups = {} /\ w.priv.srvs = 0 /\ Open(w) /\ Sound(w) /\ Unfollowed(w)
  BY DEF Queried, Fresh, Good, Unfollowed
<1> HIDE DEF l
<1>2. Sound(x) /\ Starts(w, x) /\ x.priv.srvs = 0
  BY <1>1, LookupKeeps
<1>3. Sound(y) /\ Starts(w, y) /\ y.priv.srvs = 0
  BY <1>1, HostKeeps
<1> HIDE DEF x, y
<1>4. Good(x)
  BY <1>2, StartsVouched DEF Good, Followed, Starts
<1>5. Good(y)
  BY <1>3, StartsVouched DEF Good, Followed, Starts
<1> QED  BY <1>4, <1>5 DEF l, x, y

(* The three request types make their first lookups.                       *)
LEMMA StartedWith ==
    ASSUME NEW ok \in BOOLEAN, DnsInv, query_forward(ok) \/ query_reverse(ok) \/ query_dns(ok)
    PROVE  /\ phase = "idle"
           /\ \E x : /\ Good(x) /\ Started(ok, x)
                     /\ \/ \E kind \in {"SRV", "A", "AAAA", "PTR", "DNS"} : x = lookup_dns(setup(ok), <<0, kind>>)
                        \/ x = lookup_host(setup(ok), 0)
<1> DEFINE s == setup(ok)
<1>1. phase = "idle"
  BY Zenon DEF query_forward, query_reverse, query_dns
<1>2. Good(s) /\ Fresh(s)
  BY <1>1, SetupKeeps, Zenon
<1>3. \/ Started(ok, lookup_host(s, 0)) \/ Started(ok, lookup_dns(s, <<0, "SRV">>))
      \/ Started(ok, lookup_dns(s, <<0, "PTR">>)) \/ Started(ok, lookup_dns(s, <<0, "DNS">>))
  BY Zenon DEF query_forward, query_reverse, query_dns
<1> HIDE DEF s
<1>4. ASSUME NEW kind \in {"SRV", "A", "AAAA", "PTR", "DNS"} PROVE Good(lookup_dns(s, <<0, kind>>)) /\ Good(lookup_host(s, 0))
  BY <1>2, FirstKeeps, Zenon
<1> QED  BY <1>1, <1>3, <1>4, Zenon DEF s

(* They keep the invariant.                                                *)
LEMMA QueryKeeps ==
    ASSUME NEW ok \in BOOLEAN, DnsInv, query_forward(ok) \/ query_reverse(ok) \/ query_dns(ok)
    PROVE  DnsInv'
<1>1. phase = "idle"
  BY DEF query_forward, query_reverse, query_dns
<1> DEFINE s == setup(ok)
<1>2. Good(s) /\ Fresh(s)
  BY <1>1, SetupKeeps
<1>3. ASSUME Returned(s) PROVE DnsInv'
  BY <1>2, <1>3, ReturnedKeeps, Zenon
<1>4. ASSUME NEW x, Good(x), NEW fds \in ares_fds(x), Returned(watch_file_descriptors(x, fds)) PROVE DnsInv'
  <2>1. Good(watch_file_descriptors(x, fds))
    BY <1>4, WatchKeeps, Zenon
  <2> QED  BY <1>4, <2>1, ReturnedKeeps, Zenon
<1>5. PICK x : Good(x) /\ Started(ok, x)
  BY <1>1, StartedWith, Zenon
<1> QED  BY <1>3, <1>4, <1>5, Zenon DEF Started

(* The world of a phase in which handlers run.                             *)
LEMMA WorldGood ==
    ASSUME DnsInv, phase # "over"
    PROVE  Good(World)
BY DEF DnsInv, Good

(* The library takes control.                                              *)
LEMMA DispatchKeeps ==
    ASSUME DnsInv, dispatch
    PROVE  DnsInv'
<1> DEFINE w == World
           v == IF library = "ARES" THEN {y \in w.watching : <<y[1], "POLLIN">> \notin w.watching} ELSE w.watching
           x == [w EXCEPT !.watching = v]
<1>0. (IF library = "ARES" THEN unwatch_file_descriptors(w) ELSE w) = x
  <2>1. w \in Worlds
    BY WorldGood, Zenon DEF dispatch, Good, Sound
  <2> HIDE DEF w
  <2>2. CASE library = "ARES"
    BY <2>2, Zenon DEF unwatch_file_descriptors
  <2>3. CASE library # "ARES"
    BY <2>1, <2>3 DEF Worlds
  <2> QED  BY <2>2, <2>3, Zenon
<1>1. Apply(x) /\ phase = "waiting" /\ phase' = "dispatch"
  BY <1>0, Zenon DEF dispatch
<1>2. Good(w)
  BY <1>1, WorldGood
<1> HIDE DEF w
<1>3. Like(w, x) /\ x.priv.secure = w.priv.secure
  <2>1. w \in Worlds /\ v \in SUBSET Watches
    BY <1>2 DEF Good, Sound, Worlds
  <2> HIDE DEF v
  <2> QED  BY <2>1, Zenon DEF Like, Worlds
<1> HIDE DEF x
<1>4. Vouched(x)
  BY <1>2, <1>3 DEF Good, Vouched, Like
<1>5. Sound(x) /\ Followed(x) /\ Counted(x)
  BY <1>2, <1>3, LikeKeeps DEF Good
<1> QED  BY <1>1, <1>4, <1>5, AppliedInv

(* libunbound or c-ares calls back.                                        *)
LEMMA CallbackKeeps ==
    ASSUME NEW l \in Lookup, DnsInv, Callback(l)
    PROVE  DnsInv'
<1> DEFINE w == World
<1>1. phase = "dispatch" /\ phase' = "dispatch" /\ l \in w.lookups /\ library # "AVAHI"
  BY WorldFields DEF Callback
<1>2. PICK a \in Answer(l) : Apply(IF library = "ARES" THEN aresdns_callback(w, l, a) ELSE ubdns_callback(w, l, a))
  BY DEF Callback
<1>3. Good(w) /\ request \in Request
  BY <1>1, WorldGood DEF DnsInv
<1> HIDE DEF w
<1> DEFINE x == IF library = "ARES" THEN aresdns_callback(w, l, a) ELSE ubdns_callback(w, l, a)
<1>4. Good(x)
  BY <1>1, <1>3, AresKeeps, UbKeeps
<1> HIDE DEF x
<1>5. Apply(x)
  BY <1>2 DEF x
<1> QED  BY <1>1, <1>4, <1>5, AppliedInv DEF Good

(* An event of avahi.                                                      *)
LEMMA AvahiKeeps ==
    ASSUME NEW l \in Lookup, DnsInv, AvahiEvent(l)
    PROVE  DnsInv'
<1> DEFINE w == World
<1>1. phase = "dispatch" /\ phase' = "dispatch"
  BY DEF AvahiEvent
<1>2. PICK e \in Event(l) :
        /\ e = "all_for_now" \/ l[2] = "PTR" => l \in w.lookups
        /\ e = "new" => l[2] # "SRV"
        /\ Apply(IF l[2] = "PTR" THEN address_callback(w, l, e) ELSE record_callback(w, l, e))
  BY WorldFields DEF AvahiEvent
<1>3. Good(w)
  BY <1>1, WorldGood
<1>4. l \in Queried
  BY ConstantsAssumption DEF Lookup, Queried, Srv
<1> HIDE DEF w
<1> DEFINE x == IF l[2] = "PTR" THEN address_callback(w, l, e) ELSE record_callback(w, l, e)
<1>5. CASE l[2] = "PTR"
  <2>1. e \in {"found", "failure", "other"}
    BY <1>5 DEF Event
  <2>2. Good(address_callback(w, l, e)) /\ Apply(address_callback(w, l, e))
    BY <1>2, <1>3, <1>5, <2>1, AddressCallbackKeeps
  <2> QED  BY <1>1, <2>2, AppliedInv DEF Good
<1>6. CASE l[2] # "PTR"
  <2>1. e \in {"new", "unexpected", "all_for_now", "cache_exhausted", "failure", "other"}
    BY <1>6 DEF Event
  <2>2. Good(record_callback(w, l, e)) /\ Apply(record_callback(w, l, e))
    BY <1>2, <1>3, <1>4, <1>6, <2>1, RecordCallbackKeeps
  <2> QED  BY <1>1, <2>2, AppliedInv DEF Good
<1> QED  BY <1>5, <1>6

(* The connection to the avahi daemon fails.                               *)
LEMMA ClientKeeps ==
    ASSUME DnsInv, client_callback
    PROVE  DnsInv'
<1> DEFINE x == Reporting(World)
<1>1. phase = "dispatch" /\ phase' = "dispatch" /\ Apply(x)
  BY DEF client_callback, Reporting
<1>2. Good(x)
  BY <1>1, WorldGood, ReportingKeeps
<1> HIDE DEF x
<1> QED  BY <1>1, <1>2, AppliedInv DEF Good

(* The library returns.                                                    *)
LEMMA DispatchEndKeeps ==
    ASSUME DnsInv, dispatch_end
    PROVE  DnsInv'
<1>0. PICK fds \in ares_fds(World) :
          Returned(IF library = "ARES" THEN check(watch_file_descriptors(World, fds)) ELSE World)
  BY Zenon DEF dispatch_end
<1> DEFINE x == check(watch_file_descriptors(World, fds))
<1>1. phase = "dispatch" /\ (Returned(x) \/ Returned(World))
  BY <1>0, Zenon DEF dispatch_end
<1>2. Good(World)
  BY <1>1, WorldGood
<1>3. Good(x)
  BY <1>2, WatchKeeps, CheckKeeps
<1> HIDE DEF x
<1> QED  BY <1>1, <1>2, <1>3, ReturnedKeeps

(* The query is cancelled.                                                 *)
LEMMA CancelledKeeps ==
    ASSUME DnsInv, Cancelled
    PROVE  DnsInv'
<1> DEFINE x == cleanup(World)
<1>1. phase' = "over" /\ Apply(x)
  BY DEF Cancelled
<1>2. Sound(x) /\ Followed(x) /\ Vouched(x)
  BY CleanupKeeps DEF DnsInv
<1> HIDE DEF x
<1> QED  BY <1>1, <1>2, AppliedInv

(* The backend begins with nothing under way.                              *)
LEMMA InitInv ==
    ASSUME Init
    PROVE  DnsInv
<1>1. World \in Worlds
  BY ZenonT(30) DEF Init, World, Worlds, Privates, Responses, Histories
<1>2. IsFiniteSet({}) /\ Cardinality({}) = 0
  BY FS_EmptySet
<1>3. Sound(World)
  BY <1>1, <1>2, WorldFields, ConstantsAssumption DEF Init, Sound, Srv
<1>4. Fresh(World) /\ Followed(World) /\ Vouched(World) /\ Counted(World)
  BY <1>2, WorldFields DEF Init, Fresh, Open, Followed, Vouched, Counted
<1> QED  BY <1>3, <1>4 DEF Init, DnsInv

(* Every step keeps the invariant.                                         *)
LEMMA NextKeeps ==
    ASSUME DnsInv, [Next]_vars
    PROVE  DnsInv'
<1>1. CASE Next
  BY <1>1, QueryKeeps, DispatchKeeps, CallbackKeeps, AvahiKeeps, ClientKeeps, DispatchEndKeeps, CancelledKeeps DEF Next
<1>2. CASE UNCHANGED vars
  <2>1. World' = World /\ request' = request /\ phase' = phase
    BY <1>2 DEF vars, World
  <2>2. Sound(World)' /\ Followed(World)' /\ Vouched(World)'
    BY <2>1 DEF DnsInv, Sound, Open, Followed, Hosts, Vouched, library
  <2>3. (phase # "over" => Counted(World))' /\ (phase = "idle" => Fresh(World))'
    BY <2>1 DEF DnsInv, Counted, Fresh, Open
  <2>4. (request \in Request)' /\ (phase \in {"idle", "waiting", "dispatch", "over"})'
    BY <2>1 DEF DnsInv, Request
  <2> QED  BY <2>2, <2>3, <2>4 DEF DnsInv
<1> QED  BY <1>1, <1>2

(* The invariant holds throughout.                                         *)
THEOREM Invariance == Spec => []DnsInv
<1>1. Init => DnsInv
  BY InitInv
<1>2. DnsInv /\ [Next]_vars => DnsInv'
  BY NextKeeps
<1> QED  BY <1>1, <1>2, PTL DEF Spec

(* For answers with any number of SRV records, priv->pending is the number *)
(* of lookups that the library still has to answer until the backend       *)
(* reports: lookup_dns counts up, the callbacks count down, and neither a  *)
(* fallback on the node name nor a name that is refused puts them out of   *)
(* step.  The assertion of check, that it is not negative, holds.          *)
THEOREM PendingCounts == Spec => []PendingIsOutstanding
<1>1. DnsInv => PendingIsOutstanding
  <2> SUFFICES ASSUME DnsInv PROVE PendingIsOutstanding
    OBVIOUS
  <2>1. priv \in Private
    BY WorldFields DEF DnsInv, Sound, Worlds, Privates, Private
  <2>2. phase \in {"waiting", "dispatch"} /\ verdict = "none" => priv.pending = Cardinality(lookups)
    BY WorldFields DEF DnsInv, Counted
  <2> QED  BY <2>1, <2>2 DEF PendingIsOutstanding
<1> QED  BY <1>1, Invariance, PTL

(* check reports success only when no lookup is under way and every SRV    *)
(* target has been looked up, whatever the order of the answers.           *)
THEOREM Complete == Spec => []CompleteWhenFinished
<1>1. DnsInv => CompleteWhenFinished
  BY WorldFields DEF DnsInv, Sound, Open, Followed, CompleteWhenFinished
<1> QED  BY <1>1, Invariance, PTL

(* An answer that was neither validated nor carried the AD flag withdraws  *)
(* priv->secure before check can set the flag of the response, in          *)
(* ubdns_callback and in apply_answer.                                     *)
THEOREM AllVouched == Spec => []SecureMeansAll
<1>1. DnsInv => SecureMeansAll
  BY WorldFields DEF DnsInv, Vouched, SecureMeansAll
<1> QED  BY <1>1, Invariance, PTL

(* The names c-ares refused, and the phases.  Nothing is watched, so that  *)
(* dispatch is never entered, when the first lookups were refused.         *)
Idle ==
    library = "ARES" =>
        /\ phase = "waiting" => (lookups = {} <=> 0 \in request.refused) /\ (lookups = {} => watching = {})
        /\ phase = "dispatch" => 0 \notin request.refused

(* The first lookups are under way unless the name is refused.             *)
LEMMA FirstLookups ==
    ASSUME NEW w \in Worlds, w.lookups = {}, library = "ARES", request \in Request,
           NEW kind \in {"SRV", "A", "AAAA", "PTR", "DNS"}
    PROVE  /\ lookup_dns(w, <<0, kind>>).watching = w.watching
           /\ lookup_dns(w, <<0, kind>>).lookups = {} <=> 0 \in request.refused
           /\ lookup_host(w, 0).watching = w.watching
           /\ lookup_host(w, 0).lookups = {} <=> 0 \in request.refused
<1>1. ASSUME NEW x \in Worlds, NEW k \in {"SRV", "A", "AAAA", "PTR", "DNS"}
      PROVE  /\ lookup_dns(x, <<0, k>>) \in Worlds /\ lookup_dns(x, <<0, k>>).watching = x.watching
             /\ lookup_dns(x, <<0, k>>).lookups = IF 0 \in request.refused THEN x.lookups ELSE x.lookups \cup {<<0, k>>}
  <2> DEFINE l == <<0, k>>
  <2>1. l \in Queried /\ l[1] = 0
    BY DEF Queried
  <2> HIDE DEF l
  <2>2. lookup_dns(x, l) \in Worlds
    BY <2>1, LookupFields, Zenon
  <2>3. /\ lookup_dns(x, l).watching = x.watching
        /\ lookup_dns(x, l).lookups = IF 0 \in request.refused THEN x.lookups ELSE x.lookups \cup {l}
    BY <2>1, ZenonT(60) DEF lookup_dns, Worlds
  <2> QED  BY <2>2, <2>3, Zenon DEF l
<1>2. <<0, "A">> \in Hosts(0) \/ <<0, "AAAA">> \in Hosts(0)
  BY DEF Request, Hosts
<1> DEFINE y == IF <<0, "A">> \in Hosts(0) THEN lookup_dns(w, <<0, "A">>) ELSE w
<1>3. y \in Worlds /\ y.watching = w.watching
      /\ y.lookups = IF <<0, "A">> \in Hosts(0) /\ 0 \notin request.refused THEN {<<0, "A">>} ELSE {}
  BY <1>1, Zenon
<1>4. lookup_host(w, 0) = IF <<0, "AAAA">> \in Hosts(0) THEN lookup_dns(y, <<0, "AAAA">>) ELSE y
  BY Zenon DEF lookup_host
<1> HIDE DEF y
<1>5. lookup_host(w, 0).watching = w.watching /\ (lookup_host(w, 0).lookups = {} <=> 0 \in request.refused)
  BY <1>1, <1>2, <1>3, <1>4, Zenon
<1>6. lookup_dns(w, <<0, kind>>).watching = w.watching /\ (lookup_dns(w, <<0, kind>>).lookups = {} <=> 0 \in request.refused)
  BY <1>1, Zenon
<1> QED  BY <1>5, <1>6, Zenon

(* What setup leaves of the lookups and the watches.                       *)
LEMMA SetupIdle ==
    ASSUME DnsInv, phase = "idle", library = "ARES"
    PROVE  setup(TRUE) \in Worlds /\ setup(TRUE).lookups = {} /\ setup(TRUE).watching = {}
<1>1. setup(TRUE) \in Worlds /\ setup(TRUE).lookups = {}
  BY SetupKeeps, Zenon DEF Good, Sound, Fresh
<1>2. World \in Worlds
  BY DEF DnsInv, Sound
<1> DEFINE w == World
<1> HIDE DEF w
<1>3. setup(TRUE).watching = {}
  BY <1>2, Zenon DEF setup, w, Worlds
<1> QED  BY <1>1, <1>3, Zenon

(* The first lookups leave the backend waiting with one of them under way, *)
(* or with none and no watch.                                              *)
LEMMA QueryIdle ==
    ASSUME NEW ok \in BOOLEAN, DnsInv, query_forward(ok) \/ query_reverse(ok) \/ query_dns(ok)
    PROVE  Idle'
<1> SUFFICES ASSUME library' = "ARES" PROVE Idle'
  BY Zenon DEF Idle
<1>0. request' = request /\ library = "ARES" /\ request \in Request
  BY Zenon DEF query_forward, query_reverse, query_dns, Started, Returned, Apply, library, DnsInv
<1>1. PICK x : /\ Good(x) /\ Started(ok, x)
               /\ \/ \E kind \in {"SRV", "A", "AAAA", "PTR", "DNS"} : x = lookup_dns(setup(ok), <<0, kind>>)
                  \/ x = lookup_host(setup(ok), 0)
  BY StartedWith, Zenon
<1>2. phase = "idle"
  BY StartedWith, Zenon
<1>3. CASE ~ok
  <2>1. setup(ok).verdict = "failed"
    <3>1. World \in Worlds
      BY DEF DnsInv, Sound
    <3> QED  BY <1>3, <3>1, Zenon DEF setup, Worlds
  <2>2. phase' = "over"
    BY <1>1, <1>3, <2>1, Zenon DEF Started, Returned
  <2> QED  BY <2>2, Zenon DEF Idle
<1>4. CASE ok
  <2>1. ok = TRUE
    BY <1>4
  <2>2. x.watching = {} /\ (x.lookups = {} <=> 0 \in request.refused)
    <3> DEFINE s == setup(TRUE)
    <3>1. s \in Worlds /\ s.lookups = {} /\ s.watching = {}
      BY <1>0, <1>2, SetupIdle, Zenon
    <3>2. (\E kind \in {"SRV", "A", "AAAA", "PTR", "DNS"} : x = lookup_dns(s, <<0, kind>>)) \/ x = lookup_host(s, 0)
      BY <1>1, <2>1, Zenon
    <3> HIDE DEF s
    <3>3. CASE x = lookup_host(s, 0)
      BY <1>0, <3>1, <3>3, FirstLookups, Zenon
    <3>4. ASSUME NEW kind \in {"SRV", "A", "AAAA", "PTR", "DNS"}, x = lookup_dns(s, <<0, kind>>)
          PROVE  x.watching = {} /\ (x.lookups = {} <=> 0 \in request.refused)
      <4>1. /\ lookup_dns(s, <<0, kind>>).watching = s.watching
            /\ lookup_dns(s, <<0, kind>>).lookups = {} <=> 0 \in request.refused
        BY <1>0, <3>1, FirstLookups, Zenon
      <4> QED  BY <3>1, <3>4, <4>1, Zenon
    <3> QED  BY <3>2, <3>3, <3>4, Zenon
  <2>3. PICK fds \in ares_fds(x) : Returned(watch_file_descriptors(x, fds))
    BY <1>1, <1>4, Zenon DEF Started
  <2> DEFINE y == watch_file_descriptors(x, fds)
  <2>4. Good(y) /\ y.lookups = x.lookups /\ (x.lookups = {} => y.watching = x.watching)
    BY <1>1, WatchKeeps, Zenon
  <2> HIDE DEF y
  <2>5. Returned(y)
    BY <2>3, Zenon DEF y
  <2>6. CASE y.verdict = "none"
    <3>1. phase' = "waiting" /\ lookups' = y.lookups /\ watching' = y.watching
      BY <2>5, <2>6, Zenon DEF Returned, Apply
    <3> QED  BY <1>0, <2>2, <2>4, <3>1, Zenon DEF Idle
  <2>7. CASE y.verdict # "none"
    <3>1. phase' = "over"
      BY <2>5, <2>7, Zenon DEF Returned
    <3> QED  BY <3>1, Zenon DEF Idle
  <2> QED  BY <2>6, <2>7, Zenon
<1> QED  BY <1>3, <1>4, Zenon

(* At the end of dispatch the backend reports, or lookups are under way:   *)
(* pending is not zero after the last check, and it counts the lookups.    *)
LEMMA EndIdle ==
    ASSUME DnsInv, Idle, dispatch_end
    PROVE  Idle'
<1> SUFFICES ASSUME library' = "ARES" PROVE Idle'
  BY Zenon DEF Idle
<1>0. PICK fds \in ares_fds(World) :
          Returned(IF library = "ARES" THEN check(watch_file_descriptors(World, fds)) ELSE World)
  BY Zenon DEF dispatch_end
<1>1. phase = "dispatch" /\ request' = request /\ library = "ARES" /\ 0 \notin request.refused
  BY Zenon DEF dispatch_end, Returned, Apply, library, Idle
<1> DEFINE y == watch_file_descriptors(World, fds)
           x == check(y)
<1>2. Returned(x)
  BY <1>0, <1>1, Zenon
<1>3. Good(y)
  BY <1>1, WorldGood, WatchKeeps, Zenon
<1> HIDE DEF y
<1>4. Good(x) /\ (x.verdict = "none" => x = y /\ y.priv.pending # 0)
  BY <1>3, CheckKeeps, Zenon
<1> HIDE DEF x
<1>5. CASE x.verdict = "none"
  <2>1. phase' = "waiting" /\ Apply(x)
    BY <1>2, <1>5, Zenon DEF Returned
  <2>2. x = y /\ y.priv.pending = Cardinality(y.lookups) /\ y.priv.pending # 0
    BY <1>4, <1>5, Zenon DEF Good, Counted
  <2>3. y.lookups # {}
    BY <2>2, FS_EmptySet
  <2>4. lookups' = y.lookups
    BY <2>1, <2>2, Zenon DEF Apply
  <2> QED  BY <1>1, <2>1, <2>3, <2>4, Zenon DEF Idle
<1>6. CASE x.verdict # "none"
  <2>1. phase' = "over"
    BY <1>2, <1>6, Zenon DEF Returned
  <2> QED  BY <2>1, Zenon DEF Idle
<1> QED  BY <1>5, <1>6, Zenon

(* Every step keeps Idle.                                                  *)
LEMMA NextIdle ==
    ASSUME DnsInv, Idle, [Next]_vars
    PROVE  Idle'
<1>1. ASSUME NEW ok \in BOOLEAN, query_forward(ok) \/ query_reverse(ok) \/ query_dns(ok) PROVE Idle'
  BY <1>1, QueryIdle, Zenon
<1>2. CASE dispatch
  <2>1. phase = "waiting" /\ watching # {} /\ phase' = "dispatch" /\ request' = request
    BY <1>2, Zenon DEF dispatch, Apply
  <2> QED  BY <2>1, Zenon DEF Idle, library
<1>3. ASSUME NEW l \in Lookup, Callback(l) PROVE Idle'
  <2>1. phase = "dispatch" /\ phase' = phase /\ request' = request
    BY <1>3, Zenon DEF Callback, Apply
  <2> QED  BY <2>1, Zenon DEF Idle, library
<1>4. ASSUME NEW l \in Lookup, AvahiEvent(l) PROVE Idle'
  <2>1. phase = "dispatch" /\ phase' = phase /\ request' = request
    BY <1>4, Zenon DEF AvahiEvent, Apply
  <2> QED  BY <2>1, Zenon DEF Idle, library
<1>5. CASE client_callback
  <2>1. phase = "dispatch" /\ phase' = phase /\ request' = request
    BY <1>5, Zenon DEF client_callback, Apply
  <2> QED  BY <2>1, Zenon DEF Idle, library
<1>6. CASE dispatch_end
  BY <1>6, EndIdle, Zenon
<1>7. CASE Cancelled
  BY <1>7, Zenon DEF Cancelled, Idle
<1>8. CASE UNCHANGED vars
  BY <1>8, Zenon DEF vars, Idle, library
<1> QED  BY <1>1, <1>2, <1>3, <1>4, <1>5, <1>6, <1>7, <1>8, Zenon DEF Next

(* The c-ares build waits with no lookup under way exactly when the name   *)
(* of the request was refused, for answers with any number of SRV records  *)
(* and any names refused among their targets.                              *)
THEOREM NeverIdle == Spec => []AresNeverIdle
<1>1. Init => Idle
  BY Zenon DEF Init, Idle
<1>2. DnsInv /\ Idle /\ [Next]_vars => Idle'
  BY NextIdle
<1>3. Idle => AresNeverIdle
  BY Zenon DEF Idle, AresNeverIdle
<1> QED  BY <1>1, <1>2, <1>3, Invariance, PTL DEF Spec
=============================================================================
