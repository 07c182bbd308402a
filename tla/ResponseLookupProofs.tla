------------------------ MODULE ResponseLookupProofs ------------------------
(***************************************************************************)
(* Proofs about the response of a query (Response), whatever a backend     *)
(* adds, and about the way of a query through the backends that fill it    *)
(* (Backends and Lookup).                                                  *)
(***************************************************************************)
EXTENDS Lookup, WellFoundedInduction, TLAPS

(* A non-empty set of natural numbers has a least element.                 *)
LEMMA LeastNat ==
    ASSUME NEW T \in SUBSET Nat, T # {}
    PROVE  \E i \in T : \A j \in T : i <= j
<1> DEFINE R == {ss \in Nat \X Nat : ss[1] < ss[2]}
<1>1. IsWellFoundedOn(R, Nat)
  BY NatLessThanWellFounded, Zenon DEF OpToRel
<1>2. PICK i \in T : \A j \in T : ~(<<j, i>> \in R)
  <2> HIDE DEF R
  <2> QED  BY <1>1, WFMin, Zenon
<1>3. ASSUME NEW j \in T PROVE i <= j
  <2>1. ~(<<j, i>>[1] < <<j, i>>[2])
    BY <1>2, Zenon
  <2> QED  BY <2>1
<1> QED  BY <1>3, Zenon

(* Induction up to N, on a set.                                            *)
LEMMA UpTo ==
    ASSUME NEW N \in Nat, NEW P, 0 \in P, \A i \in 1..N : i - 1 \in P => i \in P
    PROVE  \A i \in 0..N : i \in P
<1> DEFINE T == {n \in 0..N : n \notin P}
<1> SUFFICES ASSUME T # {} PROVE FALSE
  BY Zenon
<1>1. T \in SUBSET Nat
  OBVIOUS
<1>2. PICK n \in T : \A j \in T : n <= j
  <2> HIDE DEF T
  <2> QED  BY <1>1, LeastNat, Zenon
<1>3. n \in 1..N /\ n - 1 \in 0..N /\ ~(n <= n - 1)
  OBVIOUS
<1>4. n - 1 \in P
  BY <1>2, <1>3, Zenon
<1> QED  BY <1>3, <1>4, Zenon

(* What the turns of a loop may do with a value of S.                      *)
Steps(N, S) == [S \X (1..N) -> S]

(* What a loop of N turns that starts from base has done after each.       *)
Looped(N, S, base, step) ==
    {g \in [0..N -> S] : g[0] = base /\ \A i \in 1..N : g[i] = step[<<g[i - 1], i>>]}

(* Every loop over values of S does something: there is a function from    *)
(* its turns to the values.                                                *)
LEMMA LoopExists ==
    ASSUME NEW N \in Nat, NEW S, NEW base \in S, NEW step \in Steps(N, S)
    PROVE  Looped(N, S, base, step) # {}
<1> DEFINE Upto(n) == \E g \in [0..n -> S] : g[0] = base /\ \A i \in 1..n : g[i] = step[<<g[i - 1], i>>]
<1>1. Upto(0)
  <2> DEFINE g == [i \in 0..0 |-> base]
  <2>1. g \in [0..0 -> S] /\ g[0] = base /\ 1..0 = {}
    OBVIOUS
  <2> HIDE DEF g
  <2> QED  BY <2>1, Zenon
<1>2. ASSUME NEW n \in 1..N, Upto(n - 1) PROVE Upto(n)
  <2>1. PICK g \in [0..(n - 1) -> S] : g[0] = base /\ \A i \in 1..(n - 1) : g[i] = step[<<g[i - 1], i>>]
    BY <1>2, Zenon
  <2> DEFINE h == [i \in 0..n |-> IF i = n THEN step[<<g[n - 1], n>>] ELSE g[i]]
  <2>2. n - 1 \in 0..(n - 1) /\ \A i \in 0..n : i # n => i \in 0..(n - 1)
    OBVIOUS
  <2>3. step[<<g[n - 1], n>>] \in S
    BY <2>2, Zenon DEF Steps
  <2>4. h \in [0..n -> S]
    BY <2>2, <2>3, Zenon
  <2>5. h[n] = step[<<g[n - 1], n>>] /\ \A i \in 0..(n - 1) : h[i] = g[i]
    OBVIOUS
  <2> HIDE DEF h
  <2>6. h[0] = base
    BY <2>1, <2>5
  <2>7. ASSUME NEW i \in 1..n PROVE h[i] = step[<<h[i - 1], i>>]
    <3>1. i - 1 \in 0..(n - 1) /\ h[i - 1] = g[i - 1]
      BY <2>5
    <3>2. CASE i = n
      BY <2>5, <3>1, <3>2, Zenon
    <3>3. CASE i # n
      <4>1. i \in 1..(n - 1) /\ i \in 0..(n - 1)
        BY <3>3
      <4> QED  BY <2>1, <2>5, <3>1, <4>1, Zenon
    <3> QED  BY <3>2, <3>3, Zenon
  <2> QED  BY <2>4, <2>6, <2>7, Zenon
<1> HIDE DEF Upto
<1> DEFINE P == {n \in 0..N : Upto(n)}
<1>3. 0 \in P /\ \A i \in 1..N : i - 1 \in P => i \in P
  BY <1>1, <1>2
<1> HIDE DEF P
<1>4. \A i \in 0..N : i \in P
  BY <1>3, UpTo, Zenon
<1>5. Upto(N)
  BY <1>4 DEF P
<1> QED  BY <1>5, Zenon DEF Upto, Looped

(* Two sequences one after the other.                                      *)
LEMMA ConcatFacts ==
    ASSUME NEW S, NEW a \in Seq(S), NEW b \in Seq(S)
    PROVE  /\ a \o b \in Seq(S)
           /\ Len(a \o b) = Len(a) + Len(b)
           /\ \A j \in 1..(Len(a) + Len(b)) : (a \o b)[j] = IF j <= Len(a) THEN a[j] ELSE b[j - Len(a)]
<1>1. a \o b \in Seq(S) /\ Len(a \o b) = Len(a) + Len(b)
  OBVIOUS
<1>2. ASSUME NEW j \in 1..(Len(a) + Len(b)) PROVE (a \o b)[j] = IF j <= Len(a) THEN a[j] ELSE b[j - Len(a)]
  OBVIOUS
<1> QED  BY <1>1, <1>2, Zenon


(* flat holds the concatenations of the first sequences of ss.             *)
Flattens(flat, ss, N) ==
    /\ Concat(ss) = flat[N] /\ flat[0] = <<>>
    /\ \A i \in 1..N : flat[i] = flat[i - 1] \o ss[i]

(* Concat puts one sequence after the other.                               *)
LEMMA ConcatLoop ==
    ASSUME NEW S, NEW N \in Nat, NEW ss \in [1..N -> Seq(S)]
    PROVE  \E flat : Flattens(flat, ss, N)
<1> DEFINE step == [x \in Seq(S) \X (1..N) |-> x[1] \o ss[x[2]]]
           Is(g) == g = [i \in 0..N |-> IF i = 0 THEN <<>> ELSE g[i - 1] \o ss[i]]
           flat == CHOOSE g : Is(g)
<1>1. Len(ss) = N
  OBVIOUS
<1>2. step \in Steps(N, Seq(S))
  <2>1. ASSUME NEW x \in Seq(S), NEW i \in 1..N PROVE x \o ss[i] \in Seq(S)
    <3>1. ss[i] \in Seq(S)
      BY Zenon
    <3> QED  BY <3>1, ConcatFacts, Zenon
  <2> QED  BY <2>1, Zenon DEF Steps
<1>3. \A x \in Seq(S), i \in 1..N : step[<<x, i>>] = x \o ss[i]
  BY Zenon
<1> HIDE DEF step
<1>4. PICK g \in [0..N -> Seq(S)] : g[0] = <<>> /\ \A i \in 1..N : g[i] = step[<<g[i - 1], i>>]
  <2>1. <<>> \in Seq(S)
    OBVIOUS
  <2>2. Looped(N, Seq(S), <<>>, step) # {}
    BY <1>2, <2>1, LoopExists, Zenon
  <2> QED  BY <2>2, Zenon DEF Looped
<1>5. ASSUME NEW i \in 1..N PROVE g[i] = g[i - 1] \o ss[i]
  <2>1. g[i - 1] \in Seq(S)
    OBVIOUS
  <2> QED  BY <1>3, <1>4, <2>1, Zenon
<1>6. ASSUME NEW i \in 0..N PROVE g[i] = IF i = 0 THEN <<>> ELSE g[i - 1] \o ss[i]
  <2>1. i = 0 \/ i \in 1..N
    OBVIOUS
  <2> QED  BY <1>4, <1>5, <2>1, Zenon
<1>7. Is(g)
  <2>1. g = [i \in 0..N |-> g[i]]
    BY Zenon
  <2> QED  BY <1>6, <2>1, Zenon
<1>8. Is(flat)
  <2> HIDE DEF Is
  <2> QED  BY <1>7, Zenon
<1>9. Concat(ss) = flat[N]
  BY <1>1, Zenon DEF Concat
<1> HIDE DEF flat
<1>10. ASSUME NEW i \in 0..N PROVE flat[i] = IF i = 0 THEN <<>> ELSE flat[i - 1] \o ss[i]
  BY <1>8, Zenon
<1>11. ASSUME NEW i \in 1..N PROVE flat[i] = flat[i - 1] \o ss[i]
  <2>1. i \in 0..N /\ i # 0
    OBVIOUS
  <2> QED  BY <1>10, <2>1, Zenon
<1>12. flat[0] = <<>>
  <2>1. 0 \in 0..N
    OBVIOUS
  <2> QED  BY <1>10, <2>1, Zenon
<1> QED  BY <1>9, <1>11, <1>12, Zenon DEF Flattens

(* One sequence has all elements of another.                               *)
Holds(s, part) == \A j \in 1..Len(part) : \E k \in 1..Len(s) : s[k] = part[j]

(* The concatenation of two sequences holds what they hold.                *)
LEMMA ConcatHolds ==
    ASSUME NEW S, NEW s \in Seq(S), NEW r \in Seq(S), NEW t, t = s \o r
    PROVE  /\ t \in Seq(S) /\ Holds(t, r)
           /\ \A part : Holds(s, part) => Holds(t, part)
<1>1. /\ t \in Seq(S) /\ Len(t) = Len(s) + Len(r)
      /\ \A j \in 1..(Len(s) + Len(r)) : t[j] = IF j <= Len(s) THEN s[j] ELSE r[j - Len(s)]
  BY ConcatFacts, Zenon
<1>2. Len(s) \in Nat /\ Len(r) \in Nat
  OBVIOUS
<1>3. ASSUME NEW j \in 1..Len(r) PROVE \E k \in 1..Len(t) : t[k] = r[j]
  <2>1. Len(s) + j \in 1..(Len(s) + Len(r)) /\ ~(Len(s) + j <= Len(s)) /\ (Len(s) + j) - Len(s) = j
    BY <1>2
  <2>2. t[Len(s) + j] = r[j]
    BY <1>1, <2>1, Zenon
  <2> QED  BY <1>1, <2>1, <2>2, Zenon
<1>4. ASSUME NEW k \in 1..Len(s) PROVE k \in 1..Len(t) /\ t[k] = s[k]
  <2>1. k \in 1..(Len(s) + Len(r)) /\ k <= Len(s)
    BY <1>2
  <2> QED  BY <1>1, <2>1, Zenon
<1>5. ASSUME NEW part, Holds(s, part) PROVE Holds(t, part)
  BY <1>4, <1>5, Zenon DEF Holds
<1>6. t \in Seq(S) /\ Holds(t, r)
  BY <1>1, <1>3, Zenon DEF Holds
<1> QED  BY <1>5, <1>6, Zenon

(* The concatenation of sequences over S is one, and holds what each of    *)
(* them holds.                                                             *)
LEMMA ConcatAll ==
    ASSUME NEW S, NEW N \in Nat, NEW ss \in [1..N -> Seq(S)]
    PROVE  Concat(ss) \in Seq(S) /\ \A i \in 1..N : Holds(Concat(ss), ss[i])
<1>0. PICK flat : Flattens(flat, ss, N)
  BY ConcatLoop, Zenon
<1>1. /\ Concat(ss) = flat[N] /\ flat[0] = <<>>
      /\ \A i \in 1..N : flat[i] = flat[i - 1] \o ss[i]
  BY <1>0, Zenon DEF Flattens
<1> DEFINE Good(n) == flat[n] \in Seq(S) /\ \A i \in 1..n : Holds(flat[n], ss[i])
           P == {n \in 0..N : Good(n)}
<1>2. 0 \in P
  <2>1. <<>> \in Seq(S) /\ 1..0 = {} /\ 0 \in 0..N
    OBVIOUS
  <2> QED  BY <1>1, <2>1, Zenon
<1>3. ASSUME NEW n \in 1..N, Good(n - 1) PROVE Good(n)
  <2> DEFINE s == flat[n - 1]
             r == ss[n]
             u == flat[n]
  <2>1. s \in Seq(S) /\ r \in Seq(S) /\ u = s \o r
    BY <1>1, <1>3, Zenon
  <2> HIDE DEF s, r, u
  <2>2. u \in Seq(S) /\ Holds(u, r) /\ \A part : Holds(s, part) => Holds(u, part)
    BY <2>1, ConcatHolds, Zenon
  <2>3. /\ flat[n] \in Seq(S) /\ Holds(flat[n], ss[n])
        /\ \A part : Holds(flat[n - 1], part) => Holds(flat[n], part)
    BY <2>2, Zenon DEF s, r, u
  <2>4. ASSUME NEW i \in 1..n PROVE Holds(flat[n], ss[i])
    <3>1. i = n \/ i \in 1..(n - 1)
      OBVIOUS
    <3> QED  BY <1>3, <2>3, <3>1, Zenon
  <2> QED  BY <2>3, <2>4, Zenon
<1> HIDE DEF Good
<1>4. ASSUME NEW n \in 1..N, n - 1 \in P PROVE n \in P
  BY <1>3, <1>4
<1> HIDE DEF P
<1>5. N \in P
  <2>1. \A i \in 0..N : i \in P
    BY <1>2, <1>4, UpTo, Zenon
  <2>2. N \in 0..N
    OBVIOUS
  <2> QED  BY <2>1, <2>2, Zenon
<1>6. Good(N)
  BY <1>5, Zenon DEF P
<1> QED  BY <1>1, <1>6, Zenon DEF Good

(* A row of the table names a socket type; a protocol only if there is one. *)
LEMMA TableFacts ==
    /\ DOMAIN protocols = 1..7 /\ Unset \notin SocketTypes /\ Unset \notin Protocols
    /\ "STREAM" \in SocketTypes /\ "DGRAM" \in SocketTypes
    /\ \A i \in DOMAIN protocols : /\ protocols[i].socktype \in SocketTypes
                                   /\ protocols[i].protocol \in Protocols \cup {Unset}
<1>1. DOMAIN protocols = 1..7
  BY DEF protocols
<1>2. \A i \in DOMAIN protocols : /\ protocols[i].socktype \in SocketTypes
                                  /\ protocols[i].protocol \in Protocols \cup {Unset}
  BY Zenon DEF SocketTypes, Protocols
<1>3. \A i \in 1..7 : protocols[i].socktype # Unset
  BY DEF protocols, Unset
<1>4. protocols[1].socktype = "STREAM" /\ protocols[2].socktype = "DGRAM"
  BY Zenon DEF protocols
<1>5. 1 \in DOMAIN protocols /\ 2 \in DOMAIN protocols
  BY <1>1
<1> QED  BY <1>1, <1>2, <1>3, <1>4, <1>5, Zenon DEF SocketTypes, Protocols

(* What found_port may find.                                               *)
Rows(name, socktype, proto, port) ==
    {f \in [name : {name}, socktype : SocketTypes, protocol : Protocols \cup {Unset}, port : {port}] :
        socktype \in {Unset, f.socktype} /\ proto \in {Unset, f.protocol}}

(* found_port finds rows that agree with the socket type and the protocol. *)
LEMMA FoundRows ==
    ASSUME NEW name, NEW socktype, NEW proto, NEW port
    PROVE  found_port(name, socktype, proto, port) \in Seq(Rows(name, socktype, proto, port))
<1> DEFINE S == Rows(name, socktype, proto, port)
           row(i) == [name |-> name, socktype |-> protocols[i].socktype,
                      protocol |-> protocols[i].protocol, port |-> port]
           ss == [i \in DOMAIN protocols |-> IF Agrees(protocols[i], socktype, proto) THEN <<row(i)>> ELSE <<>>]
<1>1. ASSUME NEW i \in 1..7 PROVE (IF Agrees(protocols[i], socktype, proto) THEN <<row(i)>> ELSE <<>>) \in Seq(S)
  <2>1. ASSUME Agrees(protocols[i], socktype, proto) PROVE row(i) \in S
    <3>1. row(i) \in [name : {name}, socktype : SocketTypes, protocol : Protocols \cup {Unset}, port : {port}]
      BY TableFacts, Zenon
    <3>2. socktype \in {Unset, row(i).socktype} /\ proto \in {Unset, row(i).protocol}
      BY <2>1, Zenon DEF Agrees
    <3> QED  BY <3>1, <3>2, Zenon DEF Rows
  <2> HIDE DEF S, row
  <2> QED  BY <2>1
<1>2. ss \in [1..7 -> Seq(S)]
  <2> HIDE DEF S, row
  <2> QED  BY <1>1, TableFacts, Zenon
<1>3. Concat(ss) \in Seq(S)
  <2> HIDE DEF S, ss
  <2> QED  BY <1>2, ConcatAll, Zenon
<1>4. found_port(name, socktype, proto, port) = Concat(ss)
  BY Zenon DEF found_port
<1> HIDE DEF ss
<1> QED  BY <1>3, <1>4, Zenon

(* An entry of the service database.                                       *)
Entry == [name : STRING, protocol : Protocols, port : Int]

(* The services file is read as a list of entries, whatever is in it.      *)
LEMMA Entries == read_services \in Seq(Entry)
<1> DEFINE ends == {i \in DOMAIN File : ~File[i].fits} \cup {Len(File) + 1}
           end == CHOOSE i \in ends : \A j \in ends : i <= j
           ss == [i \in 1..(end - 1) |-> read_service(File[i])]
           Line == [name : STRING, port : Int, protocol : STRING, aliases : Seq(STRING), fits : BOOLEAN]
<1>1. File \in Seq(Line) /\ Len(File) \in Nat /\ DOMAIN File = 1..Len(File)
  BY ResponseAssumption
<1>2. ends \in SUBSET Nat /\ ends # {} /\ \A i \in ends : i >= 1 /\ i <= Len(File) + 1
  BY <1>1
<1>3. end \in ends
  <2> HIDE DEF ends
  <2>1. \E i \in ends : \A j \in ends : i <= j
    BY <1>2, LeastNat, Zenon
  <2> QED  BY <2>1, Zenon
<1>4. end - 1 \in Nat /\ end - 1 <= Len(File)
  <2> HIDE DEF end, ends
  <2> QED  BY <1>1, <1>2, <1>3
<1>5. ASSUME NEW line \in Line PROVE read_service(line) \in Seq(Entry)
  <2> DEFINE n == 1 + Len(line.aliases)
             entry(i) == [name |-> IF i = 1 THEN line.name ELSE line.aliases[i - 1],
                          protocol |-> line.protocol, port |-> line.port]
  <2>1. n \in Nat /\ line.name \in STRING /\ line.port \in Int /\ line.aliases \in Seq(STRING)
    OBVIOUS
  <2>2. CASE line.protocol \in Protocols
    <3>1. ASSUME NEW i \in 1..n PROVE entry(i) \in Entry
      <4>1. i # 1 => line.aliases[i - 1] \in STRING
        BY <2>1
      <4> QED  BY <2>1, <2>2, <4>1, Zenon DEF Entry
    <3>2. [i \in 1..n |-> entry(i)] \in Seq(Entry)
      <4> HIDE DEF n, entry
      <4> QED  BY <2>1, <3>1
    <3>3. read_service(line) = IF line.port = 0 \/ line.protocol \notin Protocols THEN <<>> ELSE [i \in 1..n |-> entry(i)]
      BY Zenon DEF read_service
    <3> HIDE DEF n, entry
    <3>4. <<>> \in Seq(Entry)
      OBVIOUS
    <3> QED  BY <3>2, <3>3, <3>4, Zenon
  <2>3. CASE line.protocol \notin Protocols
    <3>1. read_service(line) = <<>>
      BY <2>3, Zenon DEF read_service
    <3> QED  BY <3>1
  <2> QED  BY <2>2, <2>3, Zenon
<1> HIDE DEF end, Line
<1>6. ss \in [1..(end - 1) -> Seq(Entry)]
  <2>1. ASSUME NEW i \in 1..(end - 1) PROVE File[i] \in Line
    <3>1. i \in 1..Len(File)
      BY <1>1, <1>4
    <3> QED  BY <1>1, <3>1
  <2> QED  BY <1>5, <2>1, Zenon
<1>7. Concat(ss) \in Seq(Entry)
  <2> HIDE DEF ss
  <2> QED  BY <1>4, <1>6, ConcatAll, Zenon
<1>8. read_services = Concat(ss)
  BY Zenon DEF read_services, end
<1> HIDE DEF ss
<1> QED  BY <1>7, <1>8, Zenon

(* The port of an offer is that of the services file, as PathsAgree says.  *)
Registered(name, protocol, f) ==
    \/ name \in Numeric \/ Known(name, protocol) = {}
    \/ \E i \in Known(name, protocol) : read_services[i].protocol = f.protocol /\ read_services[i].port = f.port

(* What the service list may offer for a name.                             *)
Offers(name, socktype, protocol) ==
    {f \in [name : {NoName, "number", name} \cup STRING, socktype : SocketTypes,
            protocol : Protocols \cup {Unset}, port : Int] :
        /\ socktype \in {Unset, f.socktype} /\ protocol \in {Unset, f.protocol}
        /\ Registered(name, protocol, f)}

(* The search for a service by name: as a number, in the services file,    *)
(* and, if no entry matches, as a number again.                            *)
LEMMA ServiceList ==
    ASSUME NEW name \in DOMAIN Leading, name # NoName, NEW socktype, NEW protocol
    PROVE  netresolve_service_list_query(name, socktype, protocol, 0) \in Seq(Offers(name, socktype, protocol))
<1> DEFINE port == Leading[name]
           services == read_services
           hits == {i \in DOMAIN services : Matches(services[i], name, protocol, port)}
           found(i) == found_port(services[i].name, socktype, services[i].protocol, services[i].port)
           ss == [i \in DOMAIN services |-> IF i \in hits THEN found(i) ELSE <<>>]
           S == Offers(name, socktype, protocol)
           number(n) == found_port(n, socktype, protocol, port)
<1>1. port \in Int
  BY ResponseAssumption, Zenon
<1>2. services \in Seq(Entry) /\ Len(services) \in Nat /\ DOMAIN services = 1..Len(services)
  BY Entries
<1>3. ASSUME NEW i \in DOMAIN services PROVE i \in hits <=> i \in Known(name, protocol)
  BY <1>3, Zenon DEF Matches, Known
<1>4. ASSUME NEW n \in {NoName, "number", name}, name \in Numeric \/ hits = {}
      PROVE  number(n) \in Seq(S)
  <2> DEFINE R == Rows(n, socktype, protocol, port)
  <2>2. name \in Numeric \/ Known(name, protocol) = {}
    BY <1>3, <1>4, Zenon DEF Known
  <2>3. \A f \in R : f \in S
    BY <1>1, <2>2, Zenon DEF Rows, Offers, Registered
  <2>4. number(n) \in Seq(R)
    BY FoundRows, Zenon
  <2> HIDE DEF R, S, number
  <2> QED  BY <2>3, <2>4
<1>5. ASSUME NEW i \in hits PROVE found(i) \in Seq(S)
  <2> DEFINE s == services[i]
             R == Rows(s.name, socktype, s.protocol, s.port)
  <2>1. s \in Entry /\ i \in DOMAIN services /\ i \in Known(name, protocol) /\ Matches(s, name, protocol, port)
    BY <1>2, <1>3
  <2>2. s.protocol # Unset /\ s.name \in STRING /\ s.protocol \in Protocols /\ s.port \in Int
    BY <2>1, TableFacts, Zenon DEF Entry
  <2>3. ASSUME NEW f \in R PROVE f \in S
    <3>1. /\ f \in [name : {s.name}, socktype : SocketTypes, protocol : Protocols \cup {Unset}, port : {s.port}]
          /\ socktype \in {Unset, f.socktype} /\ s.protocol \in {Unset, f.protocol}
      BY Zenon DEF Rows
    <3>2. f.protocol = s.protocol /\ f.port = s.port
      BY <2>2, <3>1, Zenon
    <3>3. Registered(name, protocol, f)
      BY <2>1, <3>2, Zenon DEF Registered
    <3>4. protocol \in {Unset, f.protocol}
      BY <2>1, <3>2, Zenon DEF Matches
    <3>5. f \in [name : {NoName, "number", name} \cup STRING, socktype : SocketTypes,
                 protocol : Protocols \cup {Unset}, port : Int]
      BY <2>2, <3>1, Zenon
    <3> QED  BY <3>1, <3>3, <3>4, <3>5, Zenon DEF Offers
  <2>4. found(i) \in Seq(R)
    BY FoundRows, Zenon
  <2> HIDE DEF R, S, found
  <2> QED  BY <2>3, <2>4
<1>6. Concat(ss) \in Seq(S)
  <2>1. ss \in [1..Len(services) -> Seq(S)]
    <3> HIDE DEF S, hits, found
    <3> QED  BY <1>2, <1>5
  <2> HIDE DEF ss, S
  <2> QED  BY <1>2, <2>1, ConcatAll, Zenon
<1>7. netresolve_service_list_query(name, socktype, protocol, 0) =
         IF name \in Numeric THEN number(name)
         ELSE IF hits # {} THEN Concat(ss)
         ELSE number(IF port = 0 THEN NoName ELSE "number")
  BY Zenon DEF netresolve_service_list_query
<1> HIDE DEF ss, S, hits, number, port
<1>8. CASE name \in Numeric
  <2>1. number(name) \in Seq(S)
    BY <1>4, <1>8, Zenon
  <2> QED  BY <1>7, <1>8, <2>1, Zenon DEF S
<1>9. CASE name \notin Numeric /\ hits # {}
  BY <1>6, <1>7, <1>9, Zenon DEF S
<1>10. CASE name \notin Numeric /\ hits = {}
  <2> DEFINE n == IF port = 0 THEN NoName ELSE "number"
  <2>1. n \in {NoName, "number", name}
    BY Zenon
  <2> HIDE DEF n
  <2>2. number(n) \in Seq(S)
    BY <1>4, <1>10, <2>1, Zenon
  <2> QED  BY <1>7, <1>10, <2>2, Zenon DEF S, n
<1> QED  BY <1>8, <1>9, <1>10, Zenon

(* What one address may be reached with, for a service of the backend.     *)
Reached(a, s) ==
    LET socktype == IF s.socktype = Unset THEN request.socktype ELSE s.socktype
        protocol == IF s.protocol = Unset THEN request.protocol ELSE s.protocol
    IN  {p \in PathRecord :
            /\ a = [family |-> p.family, reachable |-> p.reachable, host |-> p.host]
            /\ socktype \in {Unset, p.socktype} /\ protocol \in {Unset, p.protocol}
            /\ p.port = s.port \/ Registered(request.servname, protocol, p)}

(* The fields of a path that is made for an address.                       *)
LEMMA PathShape ==
    ASSUME NEW a \in Address, NEW socktype \in SocketTypes \cup {Unset},
           NEW protocol \in Protocols \cup {Unset}, NEW port \in Int,
           NEW p, p = Path(a, socktype, protocol, port)
    PROVE  /\ p \in PathRecord
           /\ a = [family |-> p.family, reachable |-> p.reachable, host |-> p.host]
           /\ p.socktype = socktype /\ p.protocol = protocol /\ p.port = port
<1>1. a \in Addresses /\ a.host \in {b.host : b \in Address}
  BY ResponseAssumption, Zenon
<1> QED  BY <1>1, Zenon DEF Path, PathRecord, Addresses

(* The paths that netresolve_backend_add_path finds for one address.       *)
LEMMA ServicesReach ==
    ASSUME request \in Request, NEW a \in Address, NEW s \in ServiceRecord
    PROVE  Services(a, s.socktype, s.protocol, s.port) \in Seq(Reached(a, s))
<1> DEFINE socktype == IF s.socktype = Unset THEN request.socktype ELSE s.socktype
           protocol == IF s.protocol = Unset THEN request.protocol ELSE s.protocol
           name == request.servname
           found == netresolve_service_list_query(name, socktype, protocol, 0)
           F == Offers(name, socktype, protocol)
           S == Reached(a, s)
           listed == [i \in DOMAIN found |-> Path(a, found[i].socktype, found[i].protocol, found[i].port)]
           alone == Path(a, socktype, protocol, s.port)
<1>1. /\ a \in Addresses /\ a.host \in {b.host : b \in Address}
      /\ s.socktype \in SocketTypes \cup {Unset} /\ s.protocol \in Protocols \cup {Unset} /\ s.port \in Int
      /\ request.socktype \in SocketTypes \cup {Unset} /\ request.protocol \in Protocols \cup {Unset}
      /\ name \in DOMAIN Leading \cup {NoName}
  BY ResponseAssumption, Zenon DEF ServiceRecord
<1>2. socktype \in SocketTypes \cup {Unset} /\ protocol \in Protocols \cup {Unset}
  BY <1>1, Zenon
<1>4. alone \in S
  <2> HIDE DEF alone
  <2>1. /\ alone \in PathRecord
        /\ a = [family |-> alone.family, reachable |-> alone.reachable, host |-> alone.host]
        /\ alone.socktype = socktype /\ alone.protocol = protocol /\ alone.port = s.port
    <3> HIDE DEF socktype, protocol
    <3> QED  BY <1>1, <1>2, PathShape DEF alone
  <2>2. socktype \in {Unset, alone.socktype} /\ protocol \in {Unset, alone.protocol}
    BY <2>1, Zenon
  <2> QED  BY <2>1, <2>2, Zenon DEF Reached
<1>5. ASSUME NEW f \in F PROVE Path(a, f.socktype, f.protocol, f.port) \in S
  <2> DEFINE p == Path(a, f.socktype, f.protocol, f.port)
  <2>1. /\ f.socktype \in SocketTypes \cup {Unset} /\ f.protocol \in Protocols \cup {Unset} /\ f.port \in Int
        /\ socktype \in {Unset, f.socktype} /\ protocol \in {Unset, f.protocol}
        /\ Registered(name, protocol, f)
    <3> HIDE DEF socktype, protocol, name
    <3> QED  BY <1>5, Zenon DEF Offers
  <2>2. /\ p \in PathRecord
        /\ a = [family |-> p.family, reachable |-> p.reachable, host |-> p.host]
        /\ p.socktype = f.socktype /\ p.protocol = f.protocol /\ p.port = f.port
    <3> HIDE DEF p
    <3> QED  BY <2>1, PathShape DEF p
  <2> HIDE DEF p
  <2>3. Registered(name, protocol, p)
    <3> HIDE DEF name, protocol
    <3> QED  BY <2>1, <2>2, Zenon DEF Registered
  <2>4. socktype \in {Unset, p.socktype} /\ protocol \in {Unset, p.protocol}
    BY <2>1, <2>2, Zenon
  <2>5. p \in S
    BY <2>2, <2>3, <2>4, Zenon DEF Reached
  <2> QED  BY <2>5, Zenon DEF p
<1>6. CASE name # NoName /\ (s.socktype = Unset \/ s.protocol = Unset \/ s.port = 0)
  <2>1. Services(a, s.socktype, s.protocol, s.port) = listed
    BY <1>6, Zenon DEF Services
  <2>2. found \in Seq(F)
    BY <1>1, <1>6, ServiceList, Zenon
  <2>3. listed \in Seq(S)
    <3> HIDE DEF found, F, S
    <3>1. \A i \in 1..Len(found) : found[i] \in F
      BY <2>2
    <3>2. \A i \in 1..Len(found) : listed[i] \in S
      BY <1>5, <2>2, <3>1
    <3>3. DOMAIN found = 1..Len(found) /\ Len(found) \in Nat
      BY <2>2
    <3>4. listed \in [1..Len(found) -> S]
      BY <3>2, <3>3, Zenon
    <3> HIDE DEF listed
    <3> QED  BY <3>3, <3>4
  <2> QED  BY <2>1, <2>3, Zenon
<1>7. CASE ~(name # NoName /\ (s.socktype = Unset \/ s.protocol = Unset \/ s.port = 0))
  <2>1. Services(a, s.socktype, s.protocol, s.port) = <<alone>>
    BY <1>7, Zenon DEF Services
  <2> HIDE DEF alone, S
  <2>2. <<alone>> \in Seq(S)
    BY <1>4
  <2> QED  BY <2>1, <2>2, Zenon DEF S
<1> QED  BY <1>6, <1>7, Zenon

(* The paths of an item that is wanted, as netresolve_backend_add_path     *)
(* expands it: for a local socket of no type, two of them.                 *)
Standing(t) == {p \in Paths : StandsFor(request, p, t)}

(* Each of them stands for the item.                                       *)
LEMMA ExpansionStands ==
    ASSUME request \in Request, NEW a \in Address, NEW s \in ServiceRecord, Wanted(Item(a, s))
    PROVE  Expansion(a, s) \in Seq(Standing(Item(a, s)))
<1> DEFINE S == Standing(Item(a, s))
<1>1. ASSUME NEW p \in PathRecord, a = [family |-> p.family, reachable |-> p.reachable, host |-> p.host]
      PROVE  request.family \in {"UNSPEC", p.family}
  BY <1>1, Zenon DEF Wanted, Item
<1>2. CASE a.family = "UNIX" /\ s.socktype = Unset
  <2>1. ASSUME NEW st \in {"STREAM", "DGRAM"}
        PROVE  Services(a, st, Unset, 0) \in Seq(S)
    <3> DEFINE v == [socktype |-> st, protocol |-> Unset, port |-> 0]
               R == Reached(a, v)
    <3>1. v \in ServiceRecord /\ st # Unset
      BY TableFacts DEF ServiceRecord, Unset
    <3>2. Services(a, v.socktype, v.protocol, v.port) \in Seq(R)
      BY <3>1, ServicesReach, Zenon
    <3>3. v.socktype = st /\ v.protocol = Unset /\ v.port = 0
      BY Zenon
    <3>4. Services(a, st, Unset, 0) \in Seq(R)
      BY <3>2, <3>3, Zenon
    <3>5. ASSUME NEW p \in R PROVE p \in S
      <4>1. /\ p \in PathRecord /\ a = [family |-> p.family, reachable |-> p.reachable, host |-> p.host]
            /\ st \in {Unset, p.socktype}
        BY <3>1, <3>3, <3>5, Zenon DEF Reached
      <4>2. p.socktype # Unset /\ p.family = "UNIX"
        BY <1>2, <3>1, <4>1, Zenon
      <4>3. request.family \in {"UNSPEC", p.family}
        BY <1>1, <4>1, Zenon
      <4> QED  BY <4>1, <4>2, <4>3, Zenon DEF Standing, Paths, StandsFor, Item
    <3> HIDE DEF R, S
    <3> QED  BY <3>4, <3>5
  <2>2. Expansion(a, s) = Services(a, "STREAM", Unset, 0) \o Services(a, "DGRAM", Unset, 0)
    BY <1>2, Zenon DEF Expansion
  <2>3. Services(a, "STREAM", Unset, 0) \in Seq(S) /\ Services(a, "DGRAM", Unset, 0) \in Seq(S)
    BY <2>1, Zenon
  <2> HIDE DEF S
  <2>4. Services(a, "STREAM", Unset, 0) \o Services(a, "DGRAM", Unset, 0) \in Seq(S)
    BY <2>3, ConcatFacts, Zenon
  <2> QED  BY <2>2, <2>4, Zenon DEF S
<1>3. CASE ~(a.family = "UNIX" /\ s.socktype = Unset)
  <2> DEFINE R == Reached(a, s)
             socktype == IF s.socktype = Unset THEN request.socktype ELSE s.socktype
             protocol == IF s.protocol = Unset THEN request.protocol ELSE s.protocol
  <2>1. Services(a, s.socktype, s.protocol, s.port) \in Seq(R)
    BY ServicesReach, Zenon
  <2>2. ASSUME NEW p \in R PROVE p \in S
    <3>1. /\ p \in PathRecord /\ a = [family |-> p.family, reachable |-> p.reachable, host |-> p.host]
          /\ socktype \in {Unset, p.socktype} /\ protocol \in {Unset, p.protocol}
          /\ p.port = s.port \/ Registered(request.servname, protocol, p)
      BY <2>2, Zenon DEF Reached
    <3>2. request.family \in {"UNSPEC", p.family}
      BY <1>1, <3>1, Zenon
    <3>3. p.family = "UNIX" => p.socktype # Unset
      <4>1. p.family = "UNIX" => s.socktype # Unset
        BY <1>3, <3>1, Zenon
      <4> QED  BY <3>1, <4>1, Zenon
    <3>4. p \in Paths
      BY <3>1, <3>3, Zenon DEF Paths
    <3> DEFINE t == Item(a, s)
    <3>5. t.address = a /\ t.service = s
      BY Zenon DEF Item
    <3> HIDE DEF t
    <3>6. StandsFor(request, p, t)
      BY <3>1, <3>2, <3>5, Zenon DEF StandsFor, Registered
    <3> QED  BY <3>4, <3>6, Zenon DEF Standing, t
  <2>3. Expansion(a, s) = Services(a, s.socktype, s.protocol, s.port)
    BY <1>3, Zenon DEF Expansion
  <2> HIDE DEF R, S
  <2>4. Services(a, s.socktype, s.protocol, s.port) \in Seq(S)
    BY <2>1, <2>2
  <2> QED  BY <2>3, <2>4, Zenon DEF S
<1> QED  BY <1>2, <1>3, Zenon

(* What the paths of a call may be.                                        *)
StandingFor(items) == {p \in Paths : \E j \in DOMAIN items : StandsFor(request, p, items[j])}

(* A call queues paths that stand for its items.                           *)
LEMMA AddStands ==
    ASSUME request \in Request, NEW items \in Seq(Items), Add(items)
    PROVE  queue' \in Seq(StandingFor(items))
<1> DEFINE S == StandingFor(items)
           part(i) == IF Wanted(items[i]) THEN Expansion(items[i].address, items[i].service) ELSE <<>>
           ss == [i \in DOMAIN items |-> part(i)]
<1>1. Len(items) \in Nat /\ DOMAIN items = 1..Len(items)
  OBVIOUS
<1>2. ASSUME NEW i \in DOMAIN items PROVE part(i) \in Seq(S)
  <2> DEFINE t == items[i]
  <2>1. t \in Items
    BY <1>1, <1>2
  <2>2. t.address \in Address /\ t.service \in ServiceRecord /\ t = Item(t.address, t.service)
    BY <2>1, Zenon DEF Items, Item
  <2>3. CASE Wanted(t)
    <3> DEFINE R == Standing(Item(t.address, t.service))
    <3>1. Expansion(t.address, t.service) \in Seq(R)
      BY <2>2, <2>3, ExpansionStands, Zenon
    <3>2. \A p \in R : p \in S
      BY <1>2, <2>2, Zenon DEF Standing, StandingFor
    <3> HIDE DEF R, S
    <3>3. Expansion(t.address, t.service) \in Seq(S)
      BY <3>1, <3>2
    <3> QED  BY <2>3, <3>3, Zenon
  <2>4. CASE ~Wanted(t)
    <3>1. part(i) = <<>>
      BY <2>4, Zenon
    <3> HIDE DEF S, part
    <3> QED  BY <3>1
  <2> QED  BY <2>3, <2>4, Zenon
<1>3. ss \in [1..Len(items) -> Seq(S)]
  <2> HIDE DEF S, part
  <2> QED  BY <1>1, <1>2, Zenon
<1>4. Concat(ss) \in Seq(S)
  <2> HIDE DEF S, ss
  <2> QED  BY <1>1, <1>3, ConcatAll, Zenon
<1>5. queue' = Concat(ss)
  BY Zenon DEF Add
<1> QED  BY <1>4, <1>5, Zenon

(* Each call adds a list of items.                                         *)
LEMMA CallsAdd ==
    ASSUME Next
    PROVE  \/ \E items \in Seq(Items) : Add(items)
           \/ add_path
           \/ UNCHANGED <<request, paths, queue, calls, arrived, order>>
<1>1. CASE \E a \in Address, s \in Service : netresolve_backend_add_path(a, s)
  <2>1. PICK a \in Address, s \in Service : netresolve_backend_add_path(a, s)
    BY <1>1, Zenon
  <2>2. Item(a, s) \in Items
    BY ResponseAssumption, Zenon DEF Item, Items
  <2>3. <<Item(a, s)>> \in Seq(Items)
    <3> DEFINE e == Item(a, s)
    <3> HIDE DEF e
    <3>1. e \in Items => <<e>> \in Seq(Items)
      OBVIOUS
    <3> QED  BY <2>2, <3>1, Zenon DEF e
  <2> QED  BY <2>1, <2>3, Zenon DEF netresolve_backend_add_path
<1>2. CASE \E result \in Addrinfos : netresolve_backend_apply_addrinfo(result)
  BY <1>2, ResponseAssumption, Zenon DEF netresolve_backend_apply_addrinfo
<1>3. CASE \E result \in Addrtuples : netresolve_backend_apply_addrtuple(result)
  <2>1. PICK result \in Addrtuples : netresolve_backend_apply_addrtuple(result)
    BY <1>3, Zenon
  <2> DEFINE none == [socktype |-> Unset, protocol |-> Unset, port |-> 0]
             items == [i \in DOMAIN result |-> Item(result[i], none)]
  <2>2. result \in Seq(Address) /\ none \in ServiceRecord
    BY ResponseAssumption DEF ServiceRecord
  <2>3. items \in Seq(Items)
    <3> HIDE DEF none
    <3>1. DOMAIN result = 1..Len(result) /\ Len(result) \in Nat
      BY <2>2
    <3>2. \A i \in DOMAIN result : Item(result[i], none) \in Items
      BY <2>2 DEF Item, Items
    <3>3. items \in [1..Len(result) -> Items]
      BY <3>1, <3>2, Zenon
    <3> HIDE DEF items
    <3> QED  BY <3>1, <3>3
  <2> QED  BY <2>1, <2>3, Zenon DEF netresolve_backend_apply_addrtuple
<1>4. CASE \E n \in {"node", "alias"} :
              netresolve_backend_set_canonical_name(n) \/ netresolve_backend_add_name_info(n)
  BY <1>4, Zenon DEF netresolve_backend_set_canonical_name, netresolve_backend_add_name_info
<1> QED  BY <1>1, <1>2, <1>3, <1>4, Zenon DEF Next

(* Whether path p is preferred to q.                                       *)
Before(p, q) == path_cmp(p, q) < 0

(* path_cmp is negative exactly where one of its two rules says so and     *)
(* sorting is on.                                                          *)
LEMMA BeforeCases ==
    ASSUME NEW p, NEW q
    PROVE  /\ path_cmp(p, q) \in {-1, 0, 1}
           /\ Before(p, q) <=>
                /\ request.sort
                /\ \/ p.reachable /\ ~q.reachable
                   \/ /\ p.reachable <=> q.reachable
                      /\ p.family = "INET6" /\ q.family = "INET"
BY DEF path_cmp, Before

(* The preference of path_cmp is transitive.                               *)
LEMMA BeforeTransitive ==
    ASSUME NEW p, NEW q, NEW r, Before(p, q), Before(q, r)
    PROVE  Before(p, r)
BY BeforeCases, Zenon

(* path_cmp returns a number: it is negative or it is not.                 *)
LEMMA NotBefore ==
    ASSUME NEW p, NEW q
    PROVE  path_cmp(p, q) >= 0 <=> ~Before(p, q)
BY BeforeCases DEF Before

(* The loop of add_path stops: at the first path that the new one is to    *)
(* stand before, or behind the last one.                                   *)
LEMMA PlaceFacts ==
    ASSUME NEW S, paths \in Seq(S), NEW p
    PROVE  /\ Place(p) \in 1..(Len(paths) + 1)
           /\ Place(p) <= Len(paths) => Before(p, paths[Place(p)])
           /\ \A j \in 1..(Place(p) - 1) : ~Before(p, paths[j])
<1> DEFINE n == Len(paths)
           T == {k \in 1..(n + 1) : k <= n => Before(p, paths[k])}
           Fits(i) == /\ i <= n => path_cmp(p, paths[i]) < 0
                      /\ \A j \in 1..(i - 1) : path_cmp(p, paths[j]) >= 0
<1>1. n \in Nat
  OBVIOUS
<1>2. T \in SUBSET Nat /\ n + 1 \in T
  BY <1>1
<1>3. PICK i \in T : \A j \in T : i <= j
  <2> HIDE DEF T
  <2> QED  BY <1>2, LeastNat, Zenon
<1>4. ASSUME NEW j \in 1..(i - 1) PROVE path_cmp(p, paths[j]) >= 0
  <2>1. j \in 1..(n + 1) /\ ~(i <= j)
    BY <1>1, <1>3
  <2>2. j \notin T
    BY <1>3, <2>1, Zenon
  <2> QED  BY <2>1, <2>2, NotBefore, Zenon
<1>5. i \in 1..(n + 1) /\ Fits(i)
  BY <1>3, <1>4, Zenon DEF Before
<1>6. Place(p) \in 1..(n + 1) /\ Fits(Place(p))
  <2>1. Place(p) = CHOOSE k \in 1..(n + 1) : Fits(k)
    BY Zenon DEF Place
  <2> HIDE DEF Fits
  <2> QED  BY <1>5, <2>1, Zenon
<1> QED  BY <1>6, NotBefore, Zenon DEF Before

(* What a list looks like with an element put in at a place.               *)
Inserted(t, s, i, e) ==
    /\ Len(t) = Len(s) + 1 /\ DOMAIN t = 1..(Len(s) + 1)
    /\ \A j \in 1..(Len(s) + 1) : t[j] = IF j < i THEN s[j] ELSE IF j = i THEN e ELSE s[j - 1]

(* Insert makes such a list.                                               *)
LEMMA InsertFacts ==
    ASSUME NEW S, NEW s \in Seq(S), NEW e \in S, NEW i \in 1..(Len(s) + 1), NEW t, t = Insert(s, i, e)
    PROVE  t \in Seq(S) /\ Inserted(t, s, i, e)
<1> DEFINE front == SubSeq(s, 1, i - 1)
           back == SubSeq(s, i, Len(s))
<1>0. Len(s) \in Nat /\ i \in Nat /\ i - 1 \in Nat
  OBVIOUS
<1>1. front \in Seq(S) /\ Len(front) = i - 1 /\ \A j \in 1..(i - 1) : front[j] = s[j]
  BY <1>0
<1>2. back \in Seq(S) /\ Len(back) = Len(s) - i + 1
      /\ \A j \in 1..(Len(s) - i + 1) : back[j] = s[i + j - 1]
  BY <1>0
<1>3. <<e>> \in Seq(S) /\ Len(<<e>>) = 1 /\ <<e>>[1] = e
  OBVIOUS
<1> DEFINE head == front \o <<e>>
<1>4. head \in Seq(S) /\ Len(head) = i /\ \A j \in 1..i : head[j] = IF j < i THEN s[j] ELSE e
  <2> HIDE DEF front
  <2> QED  BY <1>0, <1>1, <1>3, ConcatFacts
<1>6. t = head \o back
  BY Zenon DEF Insert
<1> HIDE DEF head, back
<1>5. t \in Seq(S) /\ Len(t) = Len(s) + 1
      /\ \A j \in 1..(Len(s) + 1) : t[j] = IF j <= i THEN head[j] ELSE back[j - i]
  <2>1. t \in Seq(S) /\ Len(t) = Len(head) + Len(back)
        /\ \A j \in 1..(Len(head) + Len(back)) : t[j] = IF j <= Len(head) THEN head[j] ELSE back[j - Len(head)]
    <3>1. head \in Seq(S) /\ back \in Seq(S)
      BY <1>2, <1>4, Zenon
    <3> DEFINE u == head \o back
    <3>2. /\ u \in Seq(S) /\ Len(u) = Len(head) + Len(back)
          /\ \A j \in 1..(Len(head) + Len(back)) : u[j] = IF j <= Len(head) THEN head[j] ELSE back[j - Len(head)]
      BY <3>1, ConcatFacts, Zenon
    <3> HIDE DEF u
    <3>3. t = u
      BY <1>6, Zenon DEF u
    <3> QED  BY <3>2, <3>3, Zenon
  <2>2. Len(head) + Len(back) = Len(s) + 1
    BY <1>0, <1>2, <1>4
  <2> QED  BY <1>4, <2>1, <2>2, Zenon
<1>7. DOMAIN t = 1..Len(t)
  BY <1>5
<1>8. ASSUME NEW j \in 1..(Len(s) + 1), ~(j <= i) PROVE t[j] = s[j - 1]
  <2>1. t[j] = back[j - i] /\ j - i \in 1..(Len(s) - i + 1)
    BY <1>0, <1>5, <1>8
  <2>2. back[j - i] = s[i + (j - i) - 1]
    BY <1>2, <2>1, Zenon
  <2>3. i + (j - i) - 1 = j - 1
    BY <1>0
  <2> QED  BY <2>1, <2>2, <2>3, Zenon
<1>9. ASSUME NEW j \in 1..(Len(s) + 1), j <= i PROVE t[j] = IF j < i THEN s[j] ELSE e
  BY <1>0, <1>4, <1>5, <1>9
<1> QED  BY <1>0, <1>5, <1>7, <1>8, <1>9 DEF Inserted

(* Two paths that path_cmp cannot tell apart, whatever the third.          *)
SameKind(p, q) == ~request.sort \/ (p.family = q.family /\ p.reachable = q.reachable)

(* Lists of the same length, one of them with the times of arrival, in     *)
(* stable order: StablySorted, without the paths that arrived.             *)
InOrder(s, o) ==
    \A i, j \in 1..Len(s) : i < j => /\ ~Before(s[j], s[i])
                                     /\ SameKind(s[i], s[j]) => o[i] < o[j]

(* add_path keeps the list in stable order.  A path behind the new one     *)
(* cannot be preferred to it, and is not of its kind: it would be          *)
(* preferred to the one add_path stopped at.                               *)
LEMMA InsertKeepsOrder ==
    ASSUME NEW S, paths \in Seq(S), order \in Seq(Nat), Len(order) = Len(paths), InOrder(paths, order),
           NEW p \in S, NEW now \in Nat, \A i \in 1..Len(paths) : order[i] < now,
           NEW t, t = Insert(paths, Place(p), p), NEW u, u = Insert(order, Place(p), now)
    PROVE  InOrder(t, u)
<1> DEFINE k == Place(p)
           n == Len(paths)
<1>1. n \in Nat /\ k \in 1..(n + 1)
  BY PlaceFacts
<1>2. Len(t) = n + 1
      /\ \A j \in 1..(n + 1) : t[j] = IF j < k THEN paths[j] ELSE IF j = k THEN p ELSE paths[j - 1]
  <2> HIDE DEF k
  <2>1. t = Insert(paths, k, p)
    BY Zenon DEF k
  <2>2. k \in 1..(Len(paths) + 1)
    BY <1>1, Zenon
  <2>3. Inserted(t, paths, k, p)
    BY <2>1, <2>2, InsertFacts, Zenon
  <2> QED  BY <2>3, Zenon DEF Inserted
<1>3. (k <= n => Before(p, paths[k])) /\ \A j \in 1..(k - 1) : ~Before(p, paths[j])
  BY PlaceFacts, Zenon
<1>4. \A j \in 1..(n + 1) : u[j] = IF j < k THEN order[j] ELSE IF j = k THEN now ELSE order[j - 1]
  <2> HIDE DEF k
  <2>1. u = Insert(order, k, now)
    BY Zenon DEF k
  <2>2. k \in 1..(Len(order) + 1)
    BY <1>1, Zenon
  <2>3. Inserted(u, order, k, now)
    BY <2>1, <2>2, InsertFacts, Zenon
  <2> QED  BY <2>3, Zenon DEF Inserted
<1> HIDE DEF k, n
<1>5. \A i, j \in 1..n : i < j => /\ ~Before(paths[j], paths[i])
                                  /\ SameKind(paths[i], paths[j]) => order[i] < order[j]
  BY Zenon DEF InOrder, n
<1> SUFFICES ASSUME NEW i \in 1..(n + 1), NEW j \in 1..(n + 1), i < j
             PROVE  ~Before(t[j], t[i]) /\ (SameKind(t[i], t[j]) => u[i] < u[j])
  BY <1>2, Zenon DEF InOrder
<1>6. CASE i # k /\ j # k
  <2>1. PICK a \in 1..n, b \in 1..n : a < b /\ t[i] = paths[a] /\ t[j] = paths[b] /\ u[i] = order[a] /\ u[j] = order[b]
    <3>1. CASE j < k
      <4>1. i \in 1..n /\ j \in 1..n
        BY <1>1, <3>1
      <4>2. t[i] = paths[i] /\ t[j] = paths[j] /\ u[i] = order[i] /\ u[j] = order[j]
        BY <1>1, <1>2, <1>4, <3>1
      <4> QED  BY <4>1, <4>2, Zenon
    <3>2. CASE i < k /\ k < j
      <4>1. i \in 1..n /\ j - 1 \in 1..n /\ i < j - 1
        BY <1>1, <3>2
      <4>2. t[i] = paths[i] /\ t[j] = paths[j - 1] /\ u[i] = order[i] /\ u[j] = order[j - 1]
        BY <1>1, <1>2, <1>4, <3>2
      <4> QED  BY <4>1, <4>2, Zenon
    <3>3. CASE k < i
      <4>1. i - 1 \in 1..n /\ j - 1 \in 1..n /\ i - 1 < j - 1
        BY <1>1, <3>3
      <4>2. t[i] = paths[i - 1] /\ t[j] = paths[j - 1] /\ u[i] = order[i - 1] /\ u[j] = order[j - 1]
        BY <1>1, <1>2, <1>4, <3>3
      <4> QED  BY <4>1, <4>2, Zenon
    <3>4. j < k \/ (i < k /\ k < j) \/ k < i
      BY <1>1, <1>6
    <3> QED  BY <3>1, <3>2, <3>3, <3>4, Zenon
  <2>2. ~Before(paths[b], paths[a]) /\ (SameKind(paths[a], paths[b]) => order[a] < order[b])
    BY <1>5, <2>1, Zenon
  <2> QED  BY <2>1, <2>2, Zenon
<1>7. CASE j = k
  <2>1. i \in 1..n /\ i \in 1..(k - 1) /\ t[i] = paths[i] /\ t[j] = p /\ u[i] = order[i] /\ u[j] = now
    BY <1>1, <1>2, <1>4, <1>7
  <2>2. ~Before(p, paths[i]) /\ order[i] < now
    BY <1>3, <2>1, Zenon DEF n
  <2> QED  BY <2>1, <2>2, Zenon
<1>8. CASE i = k
  <2> DEFINE q == paths[j - 1]
  <2>1. t[i] = p /\ t[j] = q /\ j - 1 \in 1..n /\ k <= j - 1 /\ k \in 1..n
    BY <1>1, <1>2, <1>8
  <2>2. Before(p, paths[k])
    BY <1>3, <2>1
  <2>3. ~Before(q, paths[k])
    <3>1. CASE k < j - 1
      BY <1>5, <2>1, <3>1, Zenon
    <3>2. CASE k = j - 1
      <4>1. ~Before(q, q)
        BY BeforeCases, Zenon
      <4> QED  BY <3>2, <4>1, Zenon
    <3> QED  BY <1>1, <2>1, <3>1, <3>2
  <2> HIDE DEF q
  <2>4. ~Before(q, p)
    BY <2>2, <2>3, BeforeTransitive, Zenon
  <2>5. ~SameKind(p, q)
    BY <2>2, <2>3, BeforeCases DEF SameKind
  <2> QED  BY <2>1, <2>4, <2>5, Zenon
<1> QED  BY <1>6, <1>7, <1>8, Zenon

(* A path that is added goes to its place, and so does its time of arrival.*)
LEMMA AddPathFacts ==
    ASSUME TypeOK, Len(order) = Len(paths), add_path
    PROVE  /\ Head(queue) \in Paths /\ queue' = Tail(queue) /\ queue' \in Seq(Paths)
           /\ Place(Head(queue)) \in 1..(Len(paths) + 1)
           /\ paths' = Insert(paths, Place(Head(queue)), Head(queue)) /\ paths' \in Seq(Paths)
           /\ Inserted(paths', paths, Place(Head(queue)), Head(queue))
           /\ order' = Insert(order, Place(Head(queue)), Len(arrived) + 1) /\ order' \in Seq(Nat)
           /\ Inserted(order', order, Place(Head(queue)), Len(arrived) + 1)
           /\ arrived' = Append(arrived, Head(queue)) /\ arrived' \in Seq(Paths)
           /\ Len(arrived') = Len(arrived) + 1
           /\ \A i \in 1..Len(arrived) : arrived'[i] = arrived[i]
           /\ arrived'[Len(arrived) + 1] = Head(queue)
<1> DEFINE p == Head(queue)
           k == Place(p)
<1>1. paths \in Seq(Paths) /\ queue \in Seq(Paths) /\ arrived \in Seq(Paths) /\ order \in Seq(Nat)
  BY Zenon DEF TypeOK
<1>2. queue # <<>> /\ queue' = Tail(queue) /\ paths' = Insert(paths, k, p)
      /\ order' = Insert(order, k, Len(arrived) + 1) /\ arrived' = Append(arrived, p)
  BY Zenon DEF add_path
<1>3. p \in Paths /\ queue' \in Seq(Paths)
  BY <1>1, <1>2
<1>4. k \in 1..(Len(paths) + 1)
  BY <1>1, PlaceFacts, Zenon
<1>5. k \in 1..(Len(order) + 1) /\ Len(arrived) + 1 \in Nat
  BY <1>1, <1>4
<1> HIDE DEF k, p
<1>6. paths' \in Seq(Paths) /\ Inserted(paths', paths, k, p)
  BY <1>1, <1>2, <1>3, <1>4, InsertFacts, Zenon
<1>7. order' \in Seq(Nat) /\ Inserted(order', order, k, Len(arrived) + 1)
  BY <1>1, <1>2, <1>5, InsertFacts, Zenon
<1>8. /\ arrived' \in Seq(Paths) /\ Len(arrived') = Len(arrived) + 1
      /\ \A i \in 1..Len(arrived) : arrived'[i] = arrived[i]
      /\ arrived'[Len(arrived) + 1] = p
  BY <1>1, <1>2, <1>3
<1> QED  BY <1>2, <1>3, <1>4, <1>6, <1>7, <1>8, Zenon DEF k, p

(* The type invariant is inductive, given that order and paths are of one  *)
(* length.                                                                 *)
TypeInv == TypeOK /\ Len(order) = Len(paths)

(* It holds in the beginning and every step keeps it.                      *)
LEMMA TypesKept == (Init => TypeInv) /\ (TypeInv /\ [Next]_vars => TypeInv')
<1>1. ASSUME Init PROVE TypeInv
  BY <1>1 DEF Init, TypeInv, TypeOK
<1>2. ASSUME TypeInv, [Next]_vars PROVE TypeInv'
  <2>1. CASE \E items \in Seq(Items) : Add(items)
    <3>1. PICK items \in Seq(Items) : Add(items)
      BY <2>1, Zenon
    <3>2. queue' \in Seq(StandingFor(items))
      BY <1>2, <3>1, AddStands, Zenon DEF TypeInv, TypeOK
    <3>3. queue' \in Seq(Paths)
      <4>1. StandingFor(items) \subseteq Paths
        BY Zenon DEF StandingFor
      <4> QED  BY <3>2, <4>1
    <3>4. calls' \in Seq(Seq(Items))
      <4> DEFINE S == Seq(Items)
      <4>1. calls \in Seq(S) /\ items \in S /\ calls' = Append(calls, items)
        BY <1>2, <3>1, Zenon DEF TypeInv, TypeOK, Add
      <4> HIDE DEF S
      <4>2. calls' \in Seq(S)
        BY <4>1
      <4> QED  BY <4>2, Zenon DEF S
    <3>5. UNCHANGED <<request, paths, arrived, order>>
      BY <3>1, Zenon DEF Add
    <3> QED  BY <1>2, <3>3, <3>4, <3>5, Zenon DEF TypeInv, TypeOK
  <2>2. CASE add_path
    <3>1. /\ queue' \in Seq(Paths) /\ paths' \in Seq(Paths) /\ order' \in Seq(Nat) /\ arrived' \in Seq(Paths)
          /\ Len(paths') = Len(paths) + 1 /\ Len(order') = Len(order) + 1
      BY <1>2, <2>2, AddPathFacts, Zenon DEF TypeInv, Inserted
    <3>2. UNCHANGED <<request, calls>>
      BY <2>2, Zenon DEF add_path
    <3> QED  BY <1>2, <3>1, <3>2, Zenon DEF TypeInv, TypeOK
  <2>3. CASE UNCHANGED <<request, paths, queue, calls, arrived, order>>
    BY <1>2, <2>3, Zenon DEF TypeInv, TypeOK
  <2> QED  BY <1>2, <2>1, <2>2, <2>3, CallsAdd, Zenon DEF vars
<1> QED  BY <1>1, <1>2, Zenon

(* Whatever the requests, the services file and the results of getaddrinfo *)
(* and of NSS modules, the response is a list of paths of the right shape, *)
(* and a path to a local socket always has a socket type.                  *)
THEOREM ResponseTypes == Spec => []TypeOK
<1>1. TypeInv => TypeOK
  BY Zenon DEF TypeInv
<1> QED  BY <1>1, TypesKept, PTL DEF Spec

(* The paths of the call in progress stand for its items.                  *)
LEMMA AgreementKept == (Init => PathsAgree) /\ (TypeOK /\ PathsAgree /\ [Next]_vars => PathsAgree')
<1>1. ASSUME Init PROVE PathsAgree
  <2>1. queue = <<>>
    BY <1>1, Zenon DEF Init
  <2>2. DOMAIN queue = {}
    BY <2>1
  <2> QED  BY <2>2, Zenon DEF PathsAgree
<1>2. ASSUME TypeOK, PathsAgree, [Next]_vars PROVE PathsAgree'
  <2>1. CASE \E items \in Seq(Items) : Add(items)
    <3>1. PICK items \in Seq(Items) : Add(items)
      BY <2>1, Zenon
    <3>2. queue' \in Seq(StandingFor(items))
      BY <1>2, <3>1, AddStands, Zenon DEF TypeOK
    <3>3. calls'[Len(calls')] = items
      <4> DEFINE S == Seq(Items)
      <4>1. calls \in Seq(S) /\ items \in S /\ calls' = Append(calls, items)
        BY <1>2, <3>1, Zenon DEF TypeOK, Add
      <4> HIDE DEF S
      <4> QED  BY <4>1
    <3>4. request' = request
      BY <3>1, Zenon DEF Add
    <3>5. ASSUME NEW i \in DOMAIN queue' PROVE \E j \in DOMAIN items : StandsFor(request, queue'[i], items[j])
      <4> DEFINE S == StandingFor(items)
      <4>1. queue'[i] \in S
        <5> HIDE DEF S
        <5> QED  BY <3>2, <3>5 DEF S
      <4> QED  BY <4>1, Zenon DEF StandingFor
    <3> QED  BY <3>3, <3>4, <3>5, Zenon DEF PathsAgree
  <2>2. CASE add_path
    <3>1. queue # <<>> /\ queue' = Tail(queue) /\ request' = request /\ calls' = calls
      BY <2>2, Zenon DEF add_path
    <3>2. ASSUME NEW i \in DOMAIN queue' PROVE i + 1 \in DOMAIN queue /\ queue'[i] = queue[i + 1]
      BY <1>2, <3>1, <3>2 DEF TypeOK
    <3>3. ASSUME NEW i \in DOMAIN queue'
          PROVE  \E j \in DOMAIN calls[Len(calls)] : StandsFor(request, queue'[i], calls[Len(calls)][j])
      BY <1>2, <3>2, Zenon DEF PathsAgree
    <3> QED  BY <3>1, <3>3, Zenon DEF PathsAgree
  <2>3. CASE UNCHANGED <<request, paths, queue, calls, arrived, order>>
    BY <1>2, <2>3, Zenon DEF PathsAgree
  <2> QED  BY <1>2, <2>1, <2>2, <2>3, CallsAdd, Zenon DEF vars
<1> QED  BY <1>1, <1>2, Zenon

(* Whatever a backend adds, and whatever the services file holds, a path   *)
(* stands for one of the addresses of the call, of the family asked for,   *)
(* and says of socket type, protocol and port what the backend, the        *)
(* request and the services file say.                                      *)
THEOREM Agreement == Spec => []PathsAgree
<1>1. TypeInv => TypeOK
  BY Zenon DEF TypeInv
<1> QED  BY <1>1, TypesKept, AgreementKept, PTL DEF Spec

(* StablySorted says that the list is in stable order, and where each of   *)
(* its paths comes from.                                                   *)
Recorded(s, o, came) ==
    /\ Len(s) = Len(came) /\ Len(o) = Len(came)
    /\ \A i \in 1..Len(s) : o[i] \in 1..Len(came) /\ s[i] = came[o[i]]
    /\ \A i, j \in 1..Len(s) : o[i] = o[j] => i = j

(* The property in these terms.                                            *)
LEMMA SortedMeans ==
    TypeOK => (StablySorted <=> Recorded(paths, order, arrived) /\ InOrder(paths, order))
<1> SUFFICES ASSUME TypeOK PROVE StablySorted <=> Recorded(paths, order, arrived) /\ InOrder(paths, order)
  BY Zenon
<1>1. DOMAIN paths = 1..Len(paths) /\ DOMAIN arrived = 1..Len(arrived)
  BY DEF TypeOK
<1>2. \A i, j \in 1..Len(paths) : path_cmp(paths[j], paths[i]) >= 0 <=> ~Before(paths[j], paths[i])
  BY NotBefore, Zenon
<1>3. StablySorted => Recorded(paths, order, arrived) /\ InOrder(paths, order)
  <2> SUFFICES ASSUME StablySorted PROVE Recorded(paths, order, arrived) /\ InOrder(paths, order)
    BY Zenon
  <2>1. Recorded(paths, order, arrived)
    BY <1>1, Zenon DEF StablySorted, Recorded
  <2>2. ASSUME NEW i \in 1..Len(paths), NEW j \in 1..Len(paths), i < j, SameKind(paths[i], paths[j])
        PROVE  order[i] < order[j]
    BY <1>1, <2>2, Zenon DEF StablySorted, SameKind
  <2>3. ASSUME NEW i \in 1..Len(paths), NEW j \in 1..Len(paths), i < j
        PROVE  ~Before(paths[j], paths[i])
    BY <1>1, <1>2, <2>3, Zenon DEF StablySorted, Ordered
  <2> QED  BY <2>1, <2>2, <2>3, Zenon DEF InOrder
<1>4. Recorded(paths, order, arrived) /\ InOrder(paths, order) => StablySorted
  BY <1>1, <1>2, Zenon DEF StablySorted, Recorded, InOrder, Ordered, SameKind
<1> QED  BY <1>3, <1>4, Zenon

(* A path that is put in, and remembered as the last to arrive.            *)
LEMMA RecordedKept ==
    ASSUME NEW S, NEW s \in Seq(S), NEW o \in Seq(Nat), NEW came \in Seq(S), Recorded(s, o, came),
           NEW p, NEW k \in 1..(Len(s) + 1), NEW t, NEW u, NEW now,
           Inserted(t, s, k, p), Inserted(u, o, k, Len(came) + 1),
           Len(now) = Len(came) + 1, \A i \in 1..Len(came) : now[i] = came[i], now[Len(came) + 1] = p
    PROVE  Recorded(t, u, now)
<1> DEFINE n == Len(s)
<1>1. n \in Nat /\ Len(came) = n /\ Len(o) = n
  BY DEF Recorded
<1>2. Len(t) = n + 1 /\ \A j \in 1..(n + 1) : t[j] = IF j < k THEN s[j] ELSE IF j = k THEN p ELSE s[j - 1]
  BY Zenon DEF Inserted
<1>3. Len(u) = n + 1 /\ \A j \in 1..(n + 1) : u[j] = IF j < k THEN o[j] ELSE IF j = k THEN n + 1 ELSE o[j - 1]
  BY <1>1, Zenon DEF Inserted
<1>4. Len(now) = n + 1 /\ (\A i \in 1..n : now[i] = came[i]) /\ now[n + 1] = p
  BY <1>1, Zenon
<1>5. /\ \A i \in 1..n : o[i] \in 1..n /\ s[i] = came[o[i]]
      /\ \A i, j \in 1..n : o[i] = o[j] => i = j
  BY <1>1, Zenon DEF Recorded
<1> DEFINE from(j) == IF j < k THEN j ELSE j - 1
<1>6. ASSUME NEW j \in 1..(n + 1), j # k
      PROVE  from(j) \in 1..n /\ t[j] = s[from(j)] /\ u[j] = o[from(j)]
  BY <1>1, <1>2, <1>3, <1>6
<1>7. t[k] = p /\ u[k] = n + 1
  BY <1>1, <1>2, <1>3
<1> HIDE DEF n
<1>8. ASSUME NEW j \in 1..(n + 1) PROVE u[j] \in 1..(n + 1) /\ t[j] = now[u[j]]
  <2>1. CASE j = k
    BY <1>1, <1>4, <1>7, <2>1
  <2>2. CASE j # k
    <3> HIDE DEF from
    <3>1. from(j) \in 1..n /\ t[j] = s[from(j)] /\ u[j] = o[from(j)]
      BY <1>6, <2>2, Zenon
    <3>2. u[j] \in 1..n /\ s[from(j)] = came[u[j]]
      BY <1>5, <3>1, Zenon
    <3> QED  BY <1>1, <1>4, <3>1, <3>2
  <2> QED  BY <2>1, <2>2, Zenon
<1>9. ASSUME NEW i \in 1..(n + 1), NEW j \in 1..(n + 1), u[i] = u[j] PROVE i = j
  <2>1. ASSUME NEW a \in 1..(n + 1), a # k PROVE u[a] \in 1..n
    <3> DEFINE b == from(a)
    <3>1. b \in 1..n /\ u[a] = o[b]
      BY <1>6, <2>1, Zenon
    <3> HIDE DEF b, from
    <3>2. o[b] \in 1..n
      BY <1>5, <3>1, Zenon
    <3> QED  BY <3>1, <3>2, Zenon
  <2>2. CASE i = k \/ j = k
    BY <1>1, <1>7, <1>9, <2>1, <2>2
  <2>3. CASE i # k /\ j # k
    <3>1. from(i) = from(j)
      <4> HIDE DEF from
      <4>1. from(i) \in 1..n /\ from(j) \in 1..n /\ u[i] = o[from(i)] /\ u[j] = o[from(j)]
        BY <1>6, <2>3, Zenon
      <4>2. o[from(i)] = o[from(j)]
        BY <1>9, <4>1, Zenon
      <4> QED  BY <1>5, <4>1, <4>2, Zenon
    <3> QED  BY <1>1, <2>3, <3>1
  <2> QED  BY <2>2, <2>3, Zenon
<1> QED  BY <1>1, <1>2, <1>3, <1>4, <1>8, <1>9, Zenon DEF Recorded

(* add_path keeps the list a stable sort of what arrived.                  *)
LEMMA SortedKept == (Init => StablySorted) /\ (TypeInv /\ StablySorted /\ [Next]_vars => StablySorted')
<1>1. ASSUME Init PROVE StablySorted
  <2>1. paths = <<>> /\ arrived = <<>> /\ order = <<>>
    BY <1>1, Zenon DEF Init
  <2>2. DOMAIN paths = {}
    BY <2>1
  <2> QED  BY <2>1, <2>2, Zenon DEF StablySorted, Ordered
<1>2. ASSUME TypeInv, StablySorted, [Next]_vars PROVE StablySorted'
  <2>1. CASE add_path
    <3> DEFINE p == Head(queue)
               now == Len(arrived) + 1
    <3>1. TypeOK /\ paths \in Seq(Paths) /\ arrived \in Seq(Paths) /\ order \in Seq(Nat) /\ Len(order) = Len(paths)
      BY <1>2, Zenon DEF TypeInv, TypeOK
    <3>2. Recorded(paths, order, arrived) /\ InOrder(paths, order)
      BY <1>2, <3>1, SortedMeans, Zenon
    <3>3. /\ p \in Paths /\ Place(p) \in 1..(Len(paths) + 1)
          /\ paths' = Insert(paths, Place(p), p) /\ paths' \in Seq(Paths) /\ Inserted(paths', paths, Place(p), p)
          /\ order' = Insert(order, Place(p), now) /\ Inserted(order', order, Place(p), now)
          /\ arrived' \in Seq(Paths) /\ Len(arrived') = Len(arrived) + 1
          /\ \A i \in 1..Len(arrived) : arrived'[i] = arrived[i]
          /\ arrived'[Len(arrived) + 1] = p
      BY <2>1, <3>1, AddPathFacts, Zenon
    <3> HIDE DEF p
    <3>4. now \in Nat /\ \A i \in 1..Len(paths) : order[i] < now
      BY <3>1, <3>2 DEF Recorded
    <3>5. Recorded(paths', order', arrived')
      BY <3>1, <3>2, <3>3, RecordedKept, Zenon
    <3>6. InOrder(paths', order')
      <4> HIDE DEF now
      <4> QED  BY <3>1, <3>2, <3>3, <3>4, InsertKeepsOrder, Zenon
    <3>7. TypeOK'
      BY <1>2, TypesKept, Zenon DEF TypeInv
    <3>8. (TypeOK => (StablySorted <=> Recorded(paths, order, arrived) /\ InOrder(paths, order)))'
      BY SortedMeans, PTL
    <3>9. request' = request
      BY <2>1, Zenon DEF add_path
    <3>10. InOrder(paths, order)'
      BY <3>6, <3>9, Zenon DEF InOrder, Before, path_cmp, SameKind
    <3> QED  BY <3>5, <3>7, <3>8, <3>10, Zenon
  <2>2. CASE UNCHANGED <<request, paths, arrived, order>>
    <3>1. Ordered'
      <4>1. Ordered
        BY <1>2, Zenon DEF StablySorted
      <4> QED  BY <2>2, <4>1 DEF Ordered, path_cmp
    <3> QED  BY <1>2, <2>2, <3>1, Zenon DEF StablySorted
  <2> QED  BY <1>2, <2>1, <2>2, CallsAdd, Zenon DEF vars, Add
<1> QED  BY <1>1, <1>2, Zenon

(* However many paths are added, the response is a stable sort of them:    *)
(* what netresolve_connect and the compatibility functions take for the    *)
(* order of preference is one, no path is lost or added twice on the way,  *)
(* and among equals the first to arrive comes first.                       *)
THEOREM StableSort == Spec => []StablySorted
BY TypesKept, SortedKept, PTL DEF Spec
-----------------------------------------------------------------------------
(* A list of whatever.                                                     *)
IsList(s) == \E S : s \in Seq(S)

(* The calls of a backend that neither end its turn nor vouch.             *)
PlainOps == {"add_path", "add_name_info", "set_canonical_name"}

(* A list of such calls.                                                   *)
Plain(s) == \E S : s \in Seq(S) /\ \A e \in S : e.op \in PlainOps

(* A turn that ends in success: the backend vouches at most just before.   *)
Success(s) ==
    /\ IsList(s) /\ Len(s) > 0 /\ s[Len(s)].op = "finished"
    /\ \A i \in 1..(Len(s) - 1) : s[i].op \in PlainOps \/ (s[i].op = "set_secure" /\ i = Len(s) - 1)

(* A success is no failure.                                                *)
LEMMA SuccessIsNotFail ==
    ASSUME NEW s, Success(s)
    PROVE  s # Fail
<1> SUFFICES ASSUME s = Fail PROVE FALSE
  BY Zenon
<1>1. Len(s) = 1 /\ s[1].op = "failed"
  BY Zenon DEF Fail
<1>2. s[1].op = "finished"
  BY <1>1, Zenon DEF Success
<1> QED  BY <1>1, <1>2, Zenon

(* A list of such calls is plain.                                          *)
LEMMA PlainFrom ==
    ASSUME NEW S, NEW s \in Seq(S), \A e \in S : e.op \in PlainOps
    PROVE  Plain(s)
BY Zenon DEF Plain

(* The empty list, and one call, are plain.                                *)
LEMMA PlainOne ==
    /\ Plain(<<>>)
    /\ \A e : e.op \in PlainOps => Plain(<<e>>)
<1>1. Plain(<<>>)
  <2> DEFINE S == {}
             s == <<>>
  <2>1. s \in Seq(S) /\ \A e \in S : e.op \in PlainOps
    OBVIOUS
  <2> HIDE DEF S, s
  <2>2. Plain(s)
    BY <2>1, PlainFrom, Zenon
  <2> QED  BY <2>2, Zenon DEF s
<1>2. ASSUME NEW e, e.op \in PlainOps PROVE Plain(<<e>>)
  <2> DEFINE S == {e}
             s == <<e>>
  <2>1. s \in Seq(S) /\ \A d \in S : d.op \in PlainOps
    BY <1>2
  <2> HIDE DEF S, s
  <2>2. Plain(s)
    BY <2>1, PlainFrom, Zenon
  <2> QED  BY <2>2, Zenon DEF s
<1> QED  BY <1>1, <1>2, Zenon

(* One after the other, plain calls stay plain.                            *)
LEMMA PlainConcat ==
    ASSUME NEW a, NEW b, Plain(a), Plain(b), NEW c, c = a \o b
    PROVE  Plain(c)
<1>1. PICK S : a \in Seq(S) /\ \A e \in S : e.op \in PlainOps
  BY Zenon DEF Plain
<1>2. PICK T : b \in Seq(T) /\ \A e \in T : e.op \in PlainOps
  BY Zenon DEF Plain
<1> DEFINE U == S \cup T
<1>3. a \in Seq(U) /\ b \in Seq(U)
  BY <1>1, <1>2
<1>4. \A e \in U : e.op \in PlainOps
  BY <1>1, <1>2, Zenon
<1> HIDE DEF U
<1>5. c \in Seq(U)
  BY <1>3, ConcatFacts, Zenon
<1> QED  BY <1>4, <1>5, Zenon DEF Plain

(* Plain calls and the end of the turn, with or without a word for them.   *)
LEMMA PlainThen ==
    ASSUME NEW f, Plain(f), NEW s, s = f \o <<Finish>> \/ s = f \o <<SetSecure, Finish>>
    PROVE  Success(s)
<1>1. PICK S : f \in Seq(S) /\ \A e \in S : e.op \in PlainOps
  BY Zenon DEF Plain
<1> DEFINE U == S \cup {SetSecure, Finish}
           n == Len(f)
<1>2. f \in Seq(U) /\ n \in Nat /\ \A i \in 1..n : f[i].op \in PlainOps
  BY <1>1
<1>3. Finish.op = "finished" /\ SetSecure.op = "set_secure" /\ Finish \in U /\ SetSecure \in U
  BY Zenon DEF Finish, SetSecure
<1>4. CASE s = f \o <<Finish>>
  <2> DEFINE g == <<Finish>>
  <2>1. g \in Seq(U) /\ Len(g) = 1 /\ g[1] = Finish
    BY SMTT(40)
  <2> HIDE DEF U, g
  <2>2. s \in Seq(U) /\ Len(s) = n + Len(g)
        /\ \A j \in 1..(n + Len(g)) : s[j] = IF j <= n THEN f[j] ELSE g[j - n]
    BY <1>2, <1>4, <2>1, ConcatFacts, Zenon DEF g
  <2>3. Len(s) = n + 1 /\ s[n + 1] = Finish /\ \A j \in 1..n : s[j] = f[j]
    BY <1>2, <2>1, <2>2
  <2>4. \A j \in 1..n : s[j].op \in PlainOps
    BY <1>2, <2>3, Zenon
  <2>5. IsList(s)
    BY <2>2, Zenon DEF IsList
  <2>6. Len(s) > 0 /\ Len(s) - 1 = n /\ s[Len(s)].op = "finished"
    BY <1>2, <1>3, <2>3
  <2> QED  BY <2>4, <2>5, <2>6, Zenon DEF Success
<1>5. CASE s = f \o <<SetSecure, Finish>>
  <2> DEFINE g == <<SetSecure, Finish>>
  <2>1. g \in Seq(U) /\ Len(g) = 2 /\ g[1] = SetSecure /\ g[2] = Finish
    OBVIOUS
  <2> HIDE DEF U, g
  <2>2. s \in Seq(U) /\ Len(s) = n + Len(g)
        /\ \A j \in 1..(n + Len(g)) : s[j] = IF j <= n THEN f[j] ELSE g[j - n]
    BY <1>2, <1>5, <2>1, ConcatFacts, Zenon DEF g
  <2>3. Len(s) = n + 2 /\ s[n + 1] = SetSecure /\ s[n + 2] = Finish /\ \A j \in 1..n : s[j] = f[j]
    BY <1>2, <2>1, <2>2
  <2>4. ASSUME NEW j \in 1..(n + 1) PROVE s[j].op \in PlainOps \/ (s[j].op = "set_secure" /\ j = n + 1)
    <3>1. j \in 1..n \/ j = n + 1
      <4> HIDE DEF n
      <4> QED  BY <1>2
    <3>2. CASE j \in 1..n
      BY <1>2, <2>3, <3>2, Zenon
    <3>3. CASE j = n + 1
      BY <1>3, <2>3, <3>3, Zenon
    <3> QED  BY <3>1, <3>2, <3>3, Zenon
  <2>5. IsList(s)
    BY <2>2, Zenon DEF IsList
  <2>6. Len(s) > 0 /\ Len(s) - 1 = n + 1 /\ s[Len(s)].op = "finished"
    BY <1>2, <1>3, <2>3
  <2> QED  BY <2>4, <2>5, <2>6, Zenon DEF Success
<1> QED  BY <1>4, <1>5, Zenon

(* The operations of the calls.                                            *)
LEMMA Ops ==
    /\ \A a : AddPath(a).op \in PlainOps
    /\ \A a, t : AddPathWith(a, t).op \in PlainOps
    /\ \A n : AddName(n).op \in PlainOps /\ CanonicalName(n).op \in PlainOps
BY Zenon DEF AddPath, AddPathWith, AddName, CanonicalName, PlainOps

(* Addresses, one after the other.                                         *)
LEMMA PlainPaths ==
    ASSUME NEW S, NEW list \in Seq(S)
    PROVE  Plain(AddPaths(list))
<1> DEFINE T == {AddPath(a) : a \in S}
           s == AddPaths(list)
<1>1. DOMAIN list = 1..Len(list) /\ Len(list) \in Nat /\ \A i \in 1..Len(list) : list[i] \in S
  OBVIOUS
<1>2. s \in [1..Len(list) -> T]
  BY <1>1, Zenon DEF AddPaths
<1>3. \A e \in T : e.op \in PlainOps
  BY Ops, Zenon
<1> HIDE DEF T, s
<1>4. s \in Seq(T)
  BY <1>1, <1>2
<1> QED  BY <1>3, <1>4, Zenon DEF Plain, s

(* A loop that makes at most one call in each turn.                        *)
LEMMA PlainLoop ==
    ASSUME NEW N \in Nat, NEW ss, DOMAIN ss = 1..N, ss = [i \in 1..N |-> ss[i]],
           \A i \in 1..N : ss[i] = <<>> \/ \E e : ss[i] = <<e>> /\ e.op \in PlainOps
    PROVE  Plain(Concat(ss))
<1> DEFINE S == {ss[i][1] : i \in {i \in 1..N : ss[i] # <<>>}}
<1>1. ASSUME NEW i \in 1..N PROVE ss[i] \in Seq(S)
  <2>1. CASE ss[i] = <<>>
    <3> HIDE DEF S
    <3> QED  BY <2>1
  <2>2. ASSUME NEW e, ss[i] = <<e>> PROVE ss[i] \in Seq(S)
    <3>1. ss[i] # <<>> /\ ss[i][1] = e
      BY <2>2
    <3>2. e \in S
      BY <3>1, Zenon
    <3> HIDE DEF S
    <3>3. <<e>> \in Seq(S)
      BY <3>2
    <3> QED  BY <2>2, <3>3, Zenon
  <2> QED  BY <2>1, <2>2, Zenon
<1>2. \A e \in S : e.op \in PlainOps
  <2> SUFFICES ASSUME NEW i \in 1..N, ss[i] # <<>> PROVE ss[i][1].op \in PlainOps
    BY Zenon
  <2>1. PICK e : ss[i] = <<e>> /\ e.op \in PlainOps
    BY Zenon
  <2>2. ss[i][1] = e
    BY <2>1
  <2> QED  BY <2>1, <2>2, Zenon
<1> HIDE DEF S
<1>3. ss \in [1..N -> Seq(S)]
  BY <1>1, Zenon
<1>4. Concat(ss) \in Seq(S)
  BY <1>3, ConcatAll, Zenon
<1> QED  BY <1>2, <1>4, Zenon DEF Plain

(* What a backend that answers on the spot may do in its turn.             *)
Turn(s) == s = Fail \/ Success(s)

(* One or two calls, and the backend vouches for them.                     *)
LEMMA ShortTurns ==
    ASSUME NEW a, a.op \in PlainOps, NEW b, b.op \in PlainOps
    PROVE  /\ Success(<<a, SetSecure, Finish>>) /\ Success(<<a, b, SetSecure, Finish>>)
           /\ Success(<<a, Finish>>)
<1>1. Finish.op = "finished" /\ SetSecure.op = "set_secure"
  BY Zenon DEF Finish, SetSecure
<1> DEFINE S == {a, b, SetSecure, Finish}
<1>2. Success(<<a, SetSecure, Finish>>)
  <2> DEFINE s == <<a, SetSecure, Finish>>
  <2>1. s \in Seq(S) /\ Len(s) = 3 /\ s[1] = a /\ s[2] = SetSecure /\ s[3] = Finish
    OBVIOUS
  <2> HIDE DEF s, S
  <2>2. Success(s)
    BY <1>1, <2>1 DEF Success, IsList
  <2> QED  BY <2>2, Zenon DEF s
<1>3. Success(<<a, b, SetSecure, Finish>>)
  <2> DEFINE s == <<a, b, SetSecure, Finish>>
  <2>1. s \in Seq(S) /\ Len(s) = 4 /\ s[1] = a /\ s[2] = b /\ s[3] = SetSecure /\ s[4] = Finish
    OBVIOUS
  <2> HIDE DEF s, S
  <2>2. Success(s)
    BY <1>1, <2>1 DEF Success, IsList
  <2> QED  BY <2>2, Zenon DEF s
<1>4. Success(<<a, Finish>>)
  <2> DEFINE s == <<a, Finish>>
  <2>1. s \in Seq(S) /\ Len(s) = 2 /\ s[1] = a /\ s[2] = Finish
    OBVIOUS
  <2> HIDE DEF s, S
  <2>2. Success(s)
    BY <1>1, <2>1 DEF Success, IsList
  <2> QED  BY <2>2, Zenon DEF s
<1> QED  BY <1>2, <1>3, <1>4, Zenon

(* The turns of unix, any and loopback.                                    *)
LEMMA FixedTurns ==
    ASSUME NEW r
    PROVE  /\ Turn(unix_query_forward(r)) /\ Turn(any_query_forward(r)) /\ Turn(any_query_reverse(r))
           /\ Turn(loopback_query_forward(r)) /\ Turn(loopback_query_reverse(r))
           /\ r.nodename \in {NoName, "", "localhost", "localhost4", "localhost6"}
                 => loopback_query_forward(r) # Fail
<1>1. Turn(unix_query_forward(r))
  <2> DEFINE a == AddPathWith([family |-> "UNIX", reachable |-> FALSE, host |-> r.nodename], With(r.socktype))
  <2>1. a.op \in PlainOps
    BY Ops, Zenon
  <2> HIDE DEF a
  <2>2. Success(<<a, SetSecure, Finish>>)
    BY <2>1, ShortTurns, Zenon
  <2> QED  BY <2>2, Zenon DEF Turn, unix_query_forward, a
<1>2. Turn(any_query_forward(r)) /\ Turn(any_query_reverse(r))
  <2>1. Success(<<AddPath(Address4("any")), AddPath(Address6("any")), SetSecure, Finish>>)
    BY Ops, ShortTurns, Zenon
  <2>2. Success(<<AddName(""), SetSecure, Finish>>)
    BY Ops, ShortTurns, Zenon
  <2> QED  BY <2>1, <2>2, Zenon DEF Turn, any_query_forward, any_query_reverse
<1>3. Turn(loopback_query_reverse(r))
  <2>2. Success(<<AddName("localhost"), SetSecure, Finish>>)
    BY Ops, ShortTurns, Zenon
  <2> QED  BY <2>2, Zenon DEF Turn, loopback_query_reverse
<1>4. LET ipv4 == r.nodename \in {NoName, "", "localhost", "localhost4"}
          ipv6 == r.nodename \in {NoName, "", "localhost", "localhost6"}
      IN  (loopback_query_forward(r) = Fail /\ ~ipv4 /\ ~ipv6) \/ Success(loopback_query_forward(r))
  <2> DEFINE ipv4 == r.nodename \in {NoName, "", "localhost", "localhost4"}
             ipv6 == r.nodename \in {NoName, "", "localhost", "localhost6"}
             a == <<CanonicalName("localhost")>>
             b == IF ipv4 THEN <<AddPath(Address4("loopback"))>> ELSE <<>>
             c == IF ipv6 THEN <<AddPath(Address6("loopback"))>> ELSE <<>>
             ab == a \o b
             abc == ab \o c
  <2>1. Plain(a)
    BY Ops, PlainOne, Zenon
  <2>2. Plain(b) /\ Plain(c)
    BY Ops, PlainOne, Zenon
  <2> HIDE DEF a, b, c
  <2>3. Plain(ab)
    BY <2>1, <2>2, PlainConcat, Zenon
  <2> HIDE DEF ab
  <2>4. Plain(abc)
    BY <2>2, <2>3, PlainConcat, Zenon
  <2> HIDE DEF abc
  <2> DEFINE s == abc \o <<SetSecure, Finish>>
  <2>5. Success(s)
    BY <2>4, PlainThen, Zenon
  <2>6. loopback_query_forward(r) = IF ~ipv4 /\ ~ipv6 THEN Fail ELSE s
    BY Zenon DEF loopback_query_forward, a, b, c, ab, abc
  <2> HIDE DEF s, ipv4, ipv6
  <2>7. (loopback_query_forward(r) = Fail /\ ~ipv4 /\ ~ipv6) \/ Success(loopback_query_forward(r))
    BY <2>5, <2>6, Zenon
  <2> QED  BY <2>7, Zenon DEF ipv4, ipv6
<1> QED  BY <1>1, <1>2, <1>3, <1>4, SuccessIsNotFail, Zenon DEF Turn

(* The turn of numerichost: it claims what it can parse.                   *)
LEMMA NumericTurn ==
    ASSUME NEW r
    PROVE  /\ Turn(numerichost_query_forward(r))
           /\ r.nodename \in DOMAIN Literal /\ ~(Literal[r.nodename].ifindex < 0)
                 => numerichost_query_forward(r) # Fail
<1> DEFINE s == <<AddPath(Inet(Literal[r.nodename])), CanonicalName(r.nodename), SetSecure, Finish>>
<1>1. Success(s)
  BY Ops, ShortTurns, Zenon
<1>2. s # Fail
  BY <1>1, SuccessIsNotFail, Zenon
<1> QED  BY <1>1, <1>2, Zenon DEF Turn, numerichost_query_forward, parse_address

(* What the hosts file may say.                                            *)
HostItem == [name : STRING, address : {Inet(Literal[l]) : l \in DOMAIN Literal}]

(* A line of the hosts file gives such entries, among them one for its     *)
(* first name unless a seam is in front of that.                           *)
LEMMA LineItems ==
    ASSUME NEW i \in DOMAIN HostsFile, NEW torn \in HostsFile[i].torn
    PROVE  /\ read_item(HostsFile[i], torn) \in Seq(HostItem)
           /\ HostsFile[i].literal \in DOMAIN Literal /\ HostsFile[i].seam # 0 /\ HostsFile[i].names # <<>>
                 => \E k \in 1..Len(read_item(HostsFile[i], torn)) :
                       read_item(HostsFile[i], torn)[k].name = HostsFile[i].names[1]
<1> DEFINE line == HostsFile[i]
           item(j) == [name |-> line.names[j], address |-> Inet(Literal[line.literal])]
           names(n) == IF ~parse_address(line.literal) THEN <<>> ELSE [j \in 1..n |-> item(j)]
           other(j) == [name |-> torn[j].name, address |-> Inet(Literal[torn[j].literal])]
           left == [j \in DOMAIN torn |-> other(j)]
           all == Len(line.names)
<1>1. line \in [literal : STRING, names : Seq(STRING), seam : Int, torn : SUBSET Leftover, fits : BOOLEAN]
  <2> DEFINE L == [literal : STRING, names : Seq(STRING), seam : Int, torn : SUBSET Leftover, fits : BOOLEAN]
  <2>1. HostsFile \in Seq(L)
    BY BackendsAssumption, Zenon
  <2> HIDE DEF L
  <2>2. HostsFile[i] \in L
    BY <2>1
  <2> QED  BY <2>2, Zenon DEF L
<1>2. line.names \in Seq(STRING) /\ line.seam \in Int /\ line.seam <= all /\ torn \in Leftover
  BY <1>1, BackendsAssumption, Zenon
<1>3. all \in Nat /\ \A j \in 1..all : line.names[j] \in STRING
  <2> DEFINE ns == line.names
  <2>1. ns \in Seq(STRING)
    BY <1>2, Zenon
  <2> HIDE DEF ns
  <2>2. Len(ns) \in Nat /\ \A j \in 1..Len(ns) : ns[j] \in STRING
    BY <2>1
  <2> QED  BY <2>2, Zenon DEF ns
<1>4. ASSUME NEW n \in Nat, n <= all
      PROVE  /\ names(n) \in Seq(HostItem)
             /\ line.literal \in DOMAIN Literal /\ n # 0
                   => 1 \in 1..Len(names(n)) /\ names(n)[1].name = line.names[1]
  <2>1. CASE line.literal \in DOMAIN Literal
    <3> DEFINE t == [j \in 1..n |-> item(j)]
    <3>1. names(n) = t
      BY <2>1, Zenon DEF parse_address
    <3>2. \A j \in 1..n : line.names[j] \in STRING
      <4>1. 1..n \subseteq 1..all
        <5> HIDE DEF all
        <5> QED  BY <1>3, <1>4
      <4> QED  BY <1>3, <4>1, Zenon
    <3>3. \A j \in 1..n : item(j) \in HostItem
      <4> DEFINE a == Inet(Literal[line.literal])
      <4>1. a \in {Inet(Literal[l]) : l \in DOMAIN Literal}
        BY <2>1, Zenon
      <4> HIDE DEF a
      <4> QED  BY <3>2, <4>1, Zenon DEF HostItem, a
    <3>4. t \in [1..n -> HostItem]
      <4> HIDE DEF item
      <4> QED  BY <3>3, Zenon
    <3>5. 1 \in 1..n => t[1] = item(1)
      BY Zenon
    <3>6. item(1).name = line.names[1]
      BY Zenon
    <3> HIDE DEF t, item, names, line, all
    <3>7. t \in Seq(HostItem) /\ Len(t) = n /\ (n # 0 => 1 \in 1..n)
      BY <1>4, <3>4
    <3> QED  BY <3>1, <3>5, <3>6, <3>7, Zenon
  <2>2. CASE ~(line.literal \in DOMAIN Literal)
    <3>1. names(n) = <<>>
      BY <2>2, Zenon DEF parse_address
    <3>2. <<>> \in Seq(HostItem)
      OBVIOUS
    <3> QED  BY <2>2, <3>1, <3>2, Zenon
  <2> QED  BY <2>1, <2>2, Zenon
<1>5. left \in Seq(HostItem)
  <2> DEFINE R == [name : STRING, literal : DOMAIN Literal]
  <2>1. torn \in Seq(R)
    BY <1>2, Zenon DEF Leftover
  <2> HIDE DEF R
  <2>2. DOMAIN torn = 1..Len(torn) /\ Len(torn) \in Nat /\ \A j \in 1..Len(torn) : torn[j] \in R
    BY <2>1
  <2>3. \A j \in 1..Len(torn) : other(j) \in HostItem
    BY <2>2, Zenon DEF R, HostItem
  <2>4. left \in [1..Len(torn) -> HostItem]
    <3> HIDE DEF other
    <3> QED  BY <2>2, <2>3, Zenon
  <2> HIDE DEF left
  <2> QED  BY <2>2, <2>4
<1>6. read_item(line, torn) = IF line.seam < 0 THEN left \o names(all) ELSE names(line.seam) \o left
  BY Zenon DEF read_item
<1>7. line.names # <<>> => all # 0
  BY <1>2
<1>8. ~(line.seam < 0) => line.seam \in Nat
  <2> HIDE DEF line
  <2> QED  BY <1>2
<1>9. all <= all
  <2> HIDE DEF all
  <2> QED  BY <1>3
<1> HIDE DEF names, left, all
<1>10. CASE line.seam < 0
  <2> DEFINE t == names(all)
  <2>1. t \in Seq(HostItem)
        /\ (line.literal \in DOMAIN Literal /\ all # 0 => 1 \in 1..Len(t) /\ t[1].name = line.names[1])
    BY <1>3, <1>4, <1>9, Zenon
  <2>2. read_item(line, torn) = left \o t
    BY <1>6, <1>10, Zenon
  <2> HIDE DEF t, line
  <2>3. read_item(line, torn) \in Seq(HostItem) /\ Holds(read_item(line, torn), t)
    BY <1>5, <2>1, <2>2, ConcatHolds, Zenon
  <2> QED  BY <1>7, <2>1, <2>3, Zenon DEF Holds, line
<1>11. CASE ~(line.seam < 0)
  <2> DEFINE t == names(line.seam)
  <2>1. t \in Seq(HostItem)
        /\ (line.literal \in DOMAIN Literal /\ line.seam # 0 => 1 \in 1..Len(t) /\ t[1].name = line.names[1])
    BY <1>2, <1>4, <1>8, <1>11, Zenon
  <2>2. read_item(line, torn) = t \o left
    BY <1>6, <1>11, Zenon
  <2> HIDE DEF t, line
  <2>3. Holds(t, t)
    BY Zenon DEF Holds
  <2>4. read_item(line, torn) \in Seq(HostItem) /\ Holds(read_item(line, torn), t)
    BY <1>5, <2>1, <2>2, <2>3, ConcatHolds, Zenon
  <2> QED  BY <2>1, <2>4, Zenon DEF Holds, line
<1> QED  BY <1>10, <1>11, Zenon

(* The hosts file is read as a list of entries, among them one for the     *)
(* first name of each line that is read as a whole.                        *)
LEMMA HostItems ==
    ASSUME NEW list \in HostsLists
    PROVE  /\ list \in Seq(HostItem)
           /\ \A i \in DOMAIN HostsFile :
                 /\ HostsFile[i].literal \in DOMAIN Literal /\ HostsFile[i].seam # 0 /\ HostsFile[i].names # <<>>
                 /\ \A j \in 1..i : HostsFile[j].fits
                 => \E k \in DOMAIN list : list[k].name = HostsFile[i].names[1]
<1>0. PICK torn \in Torn : list = read_list(torn)
  BY Zenon DEF HostsLists
<1> DEFINE N == Len(HostsFile)
           ends == {i \in DOMAIN HostsFile : ~HostsFile[i].fits} \cup {N}
           last == CHOOSE i \in ends : \A j \in ends : i <= j
           ss == [i \in 1..last |-> read_item(HostsFile[i], torn[i])]
<1>1. N \in Nat /\ DOMAIN HostsFile = 1..N
  BY BackendsAssumption
<1>2. ends \in SUBSET Nat /\ ends # {} /\ ends \subseteq 0..N
  BY <1>1
<1>3. last \in ends /\ \A j \in ends : last <= j
  <2> HIDE DEF ends
  <2>1. \E i \in ends : \A j \in ends : i <= j
    BY <1>2, LeastNat, Zenon
  <2> QED  BY <2>1, Zenon
<1> HIDE DEF last
<1>4. last \in Nat /\ 1..last \subseteq DOMAIN HostsFile
  <2> HIDE DEF ends
  <2> QED  BY <1>1, <1>2, <1>3
<1>5. ss \in [1..last -> Seq(HostItem)]
  <2>1. \A i \in DOMAIN HostsFile : torn[i] \in HostsFile[i].torn
    BY <1>0, Zenon DEF Torn
  <2> QED  BY <1>4, <2>1, LineItems, Zenon
<1>6. list = Concat(ss)
  BY <1>0, Zenon DEF read_list, last
<1>7. Concat(ss) \in Seq(HostItem) /\ \A i \in 1..last : Holds(Concat(ss), ss[i])
  <2> HIDE DEF ss
  <2> QED  BY <1>4, <1>5, ConcatAll, Zenon
<1>8. ASSUME NEW i \in DOMAIN HostsFile, HostsFile[i].literal \in DOMAIN Literal, HostsFile[i].seam # 0,
             HostsFile[i].names # <<>>, \A j \in 1..i : HostsFile[j].fits
      PROVE  \E k \in DOMAIN list : list[k].name = HostsFile[i].names[1]
  <2>1. i \in 1..last
    <3>1. last \in ends /\ (last = N \/ (last \in DOMAIN HostsFile /\ ~HostsFile[last].fits))
      BY <1>3, Zenon
    <3>2. CASE last = N
      BY <1>1, <3>2, Zenon
    <3>3. CASE last \in DOMAIN HostsFile /\ ~HostsFile[last].fits
      <4>1. ~(last \in 1..i)
        BY <1>8, <3>3, Zenon
      <4> QED  BY <1>1, <3>3, <4>1
    <3> QED  BY <3>1, <3>2, <3>3, Zenon
  <2>2. Holds(list, ss[i]) /\ ss[i] = read_item(HostsFile[i], torn[i]) /\ torn[i] \in HostsFile[i].torn
    BY <1>0, <1>6, <1>7, <2>1, Zenon DEF Torn
  <2>3. \E k \in 1..Len(ss[i]) : ss[i][k].name = HostsFile[i].names[1]
    BY <1>8, <2>2, LineItems, Zenon
  <2>4. list \in Seq(HostItem)
    BY <1>6, <1>7, Zenon
  <2> HIDE DEF ss
  <2>5. DOMAIN list = 1..Len(list)
    BY <2>4
  <2> QED  BY <2>2, <2>3, <2>5, Zenon DEF Holds
<1> QED  BY <1>6, <1>7, <1>8, Zenon

(* The turns of hosts: it claims a name that it has an entry for.          *)
LEMMA HostsTurns ==
    ASSUME NEW r, NEW list \in HostsLists
    PROVE  /\ Turn(hosts_query_forward(r, list)) /\ Turn(hosts_query_reverse(r, list))
           /\ r.nodename # NoName /\ (\E k \in DOMAIN list : list[k].name = r.nodename)
                 => hosts_query_forward(r, list) # Fail
<1> DEFINE n == Len(list)
           paths_of(hits) == [i \in 1..n |-> IF i \in hits THEN <<AddPath(list[i].address)>> ELSE <<>>]
           names_of(hits) == [i \in 1..n |-> IF i \in hits THEN <<AddName(list[i].name)>> ELSE <<>>]
<1>1. n \in Nat /\ DOMAIN list = 1..n
  BY HostItems
<1>2. ASSUME NEW hits PROVE Plain(Concat(paths_of(hits)))
  <2> DEFINE ss == paths_of(hits)
  <2>1. DOMAIN ss = 1..n /\ ss = [i \in 1..n |-> ss[i]]
    <3> HIDE DEF n
    <3> QED  OBVIOUS
  <2>2. \A i \in 1..n : ss[i] = IF i \in hits THEN <<AddPath(list[i].address)>> ELSE <<>>
    BY Zenon
  <2>3. \A i \in 1..n : ss[i] = <<>> \/ \E e : ss[i] = <<e>> /\ e.op \in PlainOps
    <3> HIDE DEF ss, n
    <3> QED  BY <2>2, Ops, Zenon
  <2> HIDE DEF ss, n
  <2>4. Plain(Concat(ss))
    BY <1>1, <2>1, <2>3, PlainLoop, Zenon
  <2> QED  BY <2>4, Zenon DEF ss
<1>3. ASSUME NEW hits PROVE Plain(Concat(names_of(hits)))
  <2> DEFINE ss == names_of(hits)
  <2>1. DOMAIN ss = 1..n /\ ss = [i \in 1..n |-> ss[i]]
    <3> HIDE DEF n
    <3> QED  OBVIOUS
  <2>2. \A i \in 1..n : ss[i] = IF i \in hits THEN <<AddName(list[i].name)>> ELSE <<>>
    BY Zenon
  <2>3. \A i \in 1..n : ss[i] = <<>> \/ \E e : ss[i] = <<e>> /\ e.op \in PlainOps
    <3> HIDE DEF ss, n
    <3> QED  BY <2>2, Ops, Zenon
  <2> HIDE DEF ss, n
  <2>4. Plain(Concat(ss))
    BY <1>1, <2>1, <2>3, PlainLoop, Zenon
  <2> QED  BY <2>4, Zenon DEF ss
<1>4. Turn(hosts_query_forward(r, list))
      /\ (r.nodename # NoName /\ (\E k \in DOMAIN list : list[k].name = r.nodename)
             => hosts_query_forward(r, list) # Fail)
  <2> DEFINE hits == {i \in DOMAIN list : list[i].name = r.nodename}
             f == Concat(paths_of(hits))
             s == f \o <<SetSecure, Finish>>
  <2>1. Plain(f)
    BY <1>2, Zenon
  <2>2. hosts_query_forward(r, list) = IF r.nodename = NoName \/ hits = {} THEN Fail ELSE s
    BY <1>1, Zenon DEF hosts_query_forward, Found
  <2> HIDE DEF f
  <2>3. Success(s)
    BY <2>1, PlainThen, Zenon
  <2> HIDE DEF s
  <2>4. s # Fail
    BY <2>3, SuccessIsNotFail, Zenon
  <2> QED  BY <2>2, <2>3, <2>4, Zenon DEF Turn
<1>5. Turn(hosts_query_reverse(r, list))
  <2> DEFINE hits == {i \in DOMAIN list : list[i].address.family = r.family /\ list[i].address.host = r.host}
             f == Concat(names_of(hits))
             s == f \o <<SetSecure, Finish>>
  <2>1. Plain(f)
    BY <1>3, Zenon
  <2>2. hosts_query_reverse(r, list) = IF hits = {} THEN Fail ELSE s
    BY <1>1, Zenon DEF hosts_query_reverse, Found
  <2> HIDE DEF f
  <2>3. Success(s)
    BY <2>1, PlainThen, Zenon
  <2> HIDE DEF s
  <2> QED  BY <2>2, <2>3, Zenon DEF Turn
<1> QED  BY <1>4, <1>5, Zenon

(* Addresses of any family, made into those of paths.                      *)
LEMMA PlainInet ==
    ASSUME NEW S, NEW list \in Seq(S)
    PROVE  Plain(AddPaths([i \in DOMAIN list |-> Inet(list[i])]))
<1> DEFINE T == {Inet(a) : a \in S}
           s == [i \in DOMAIN list |-> Inet(list[i])]
<1>1. DOMAIN list = 1..Len(list) /\ Len(list) \in Nat /\ \A i \in 1..Len(list) : list[i] \in S
  OBVIOUS
<1>2. s \in [1..Len(list) -> T]
  BY <1>1, Zenon
<1> HIDE DEF T, s
<1>3. s \in Seq(T)
  BY <1>1, <1>2
<1>4. Plain(AddPaths(s))
  BY <1>3, PlainPaths, Zenon
<1> QED  BY <1>4, Zenon DEF s

(* Items of getaddrinfo, one after the other.                              *)
LEMMA PlainItems ==
    ASSUME NEW S, NEW list \in Seq(S)
    PROVE  Plain([i \in DOMAIN list |-> AddPathWith(list[i].address, list[i].service)])
<1> DEFINE T == {AddPathWith(e.address, e.service) : e \in S}
           s == [i \in DOMAIN list |-> AddPathWith(list[i].address, list[i].service)]
<1>1. DOMAIN list = 1..Len(list) /\ Len(list) \in Nat /\ \A i \in 1..Len(list) : list[i] \in S
  OBVIOUS
<1>2. s \in [1..Len(list) -> T]
  BY <1>1, Zenon
<1>3. \A e \in T : e.op \in PlainOps
  BY Ops, Zenon
<1> HIDE DEF T, s
<1>4. s \in Seq(T)
  BY <1>1, <1>2
<1>5. Plain(s)
  BY <1>3, <1>4, PlainFrom, Zenon
<1> QED  BY <1>5, Zenon DEF s

(* getaddrinfo makes a list of items of any addresses.                     *)
LEMMA AddrinfoList ==
    ASSUME NEW S, NEW list \in Seq(S), NEW r
    PROVE  IsList(addrinfo(list, r))
<1> DEFINE rows == found_port(NoName, r.socktype, r.protocol, 0)
           R == Rows(NoName, r.socktype, r.protocol, 0)
           n == Len(list)
           m == Len(rows)
           of(i, j) == Item(list[i], [socktype |-> rows[j].socktype, protocol |-> rows[j].protocol, port |-> 0])
           T == {of(i, j) : i \in 1..n, j \in 1..m}
           ss == [i \in DOMAIN list |-> [j \in DOMAIN rows |-> of(i, j)]]
<1>1. rows \in Seq(R)
  BY FoundRows, Zenon
<1>2. addrinfo(list, r) = Concat(ss)
  BY Zenon DEF addrinfo
<1> HIDE DEF rows, R
<1>3. n \in Nat /\ m \in Nat /\ DOMAIN list = 1..n /\ DOMAIN rows = 1..m
  BY <1>1
<1> HIDE DEF n, m
<1> HIDE DEF of
<1>4. \A i \in 1..n : [j \in 1..m |-> of(i, j)] \in [1..m -> T]
  <2> TAKE i \in 1..n
  <2>1. \A j \in 1..m : of(i, j) \in T
    BY SMT
  <2> HIDE DEF T
  <2> QED  BY <2>1, Zenon
<1> HIDE DEF T
<1>5. ASSUME NEW i \in 1..n PROVE [j \in 1..m |-> of(i, j)] \in Seq(T)
  <2> DEFINE q == [j \in 1..m |-> of(i, j)]
  <2>1. q \in [1..m -> T]
    BY <1>4, Zenon
  <2> HIDE DEF q
  <2>2. q \in Seq(T)
    BY <1>3, <2>1
  <2> QED  BY <2>2, Zenon DEF q
<1>6. ss \in [1..n -> Seq(T)]
  BY <1>3, <1>5, Zenon
<1> HIDE DEF ss
<1>7. Concat(ss) \in Seq(T)
  BY <1>3, <1>6, ConcatAll, Zenon
<1> QED  BY <1>2, <1>7, Zenon DEF IsList

(* Addresses of any family, as a backend on getaddrinfo adds them.         *)
LEMMA PlainAddrinfo ==
    ASSUME NEW S, NEW list \in Seq(S), NEW r
    PROVE  LET items == addrinfo([i \in DOMAIN list |-> Inet(list[i])], r)
           IN  Plain([i \in DOMAIN items |-> AddPathWith(items[i].address, items[i].service)])
<1> DEFINE T == {Inet(a) : a \in S}
           s == [i \in DOMAIN list |-> Inet(list[i])]
           items == addrinfo(s, r)
<1>1. DOMAIN list = 1..Len(list) /\ Len(list) \in Nat /\ \A i \in 1..Len(list) : list[i] \in S
  OBVIOUS
<1>2. s \in [1..Len(list) -> T]
  BY <1>1, Zenon
<1> HIDE DEF T, s
<1>3. s \in Seq(T)
  BY <1>1, <1>2
<1>4. IsList(items)
  BY <1>3, AddrinfoList, Zenon
<1> HIDE DEF items
<1>5. PICK U : items \in Seq(U)
  BY <1>4, Zenon DEF IsList
<1>6. Plain([i \in DOMAIN items |-> AddPathWith(items[i].address, items[i].service)])
  BY <1>5, PlainItems, Zenon
<1> QED  BY <1>6, Zenon DEF items, s

(* The addresses of the interfaces.                                        *)
LEMMA PlainInterfaces ==
    ASSUME NEW list \in Seq(HostAddress), NEW filter
    PROVE  Plain(add_addresses(list, filter))
<1> DEFINE n == Len(list)
           taken(i) == list[i].family \in {"INET", "INET6"} /\ ~(filter /\ IsLoopback(list[i]))
           ss == [i \in DOMAIN list |-> IF taken(i) THEN <<AddPath(Inet(list[i]))>> ELSE <<>>]
<1>1. n \in Nat /\ DOMAIN list = 1..n
  OBVIOUS
<1>2. DOMAIN ss = 1..n /\ ss = [i \in 1..n |-> ss[i]]
  <2> HIDE DEF n, taken
  <2> QED  BY <1>1, Zenon
<1>3. \A i \in 1..n : ss[i] = IF taken(i) THEN <<AddPath(Inet(list[i]))>> ELSE <<>>
  <2> HIDE DEF n, taken
  <2> QED  BY <1>1, Zenon
<1>4. \A i \in 1..n : ss[i] = <<>> \/ \E e : ss[i] = <<e>> /\ e.op \in PlainOps
  <2> HIDE DEF ss, n, taken
  <2> QED  BY <1>3, Ops, Zenon
<1>5. Plain(Concat(ss))
  <2> HIDE DEF ss, n
  <2> QED  BY <1>1, <1>2, <1>4, PlainLoop, Zenon
<1>6. add_addresses(list, filter) = Concat(ss)
  BY Zenon DEF add_addresses
<1> QED  BY <1>5, <1>6, Zenon

(* The turns of hostname, and of libc.                                     *)
LEMMA SystemTurns ==
    ASSUME NEW r
    PROVE  /\ \A s \in hostname_query_forward(r) : Turn(s)
           /\ \A s \in libc_query_forward(r) : Turn(s)
           /\ \A s \in libc_query_reverse(r) : Turn(s)
<1>1. ASSUME NEW list \in Interfaces
      PROVE  Success((IF add_addresses(list, TRUE) # <<>> THEN add_addresses(list, TRUE)
                      ELSE add_addresses(list, FALSE)) \o <<CanonicalName(r.nodename), Finish>>)
  <2> DEFINE f == IF add_addresses(list, TRUE) # <<>> THEN add_addresses(list, TRUE)
                  ELSE add_addresses(list, FALSE)
             g == <<CanonicalName(r.nodename)>>
             h == f \o g
             s == h \o <<Finish>>
  <2>1. list \in Seq(HostAddress)
    BY BackendsAssumption, Zenon
  <2>2. Plain(f) /\ Plain(g)
    BY <2>1, PlainInterfaces, PlainOne, Ops, Zenon
  <2> HIDE DEF f
  <2>3. f \o <<CanonicalName(r.nodename), Finish>> = s
    <3>1. PICK S : f \in Seq(S)
      BY <2>2, Zenon DEF Plain
    <3> DEFINE c == CanonicalName(r.nodename)
               U == S \cup {c, Finish}
    <3> HIDE DEF c
    <3>2. f \in Seq(U) /\ c \in U /\ Finish \in U
      BY <3>1
    <3> HIDE DEF U
    <3>3. f \o <<c, Finish>> = (f \o <<c>>) \o <<Finish>>
      BY <3>2
    <3> QED  BY <3>3, Zenon DEF c
  <2>4. Plain(h)
    <3> HIDE DEF g
    <3> QED  BY <2>2, PlainConcat, Zenon
  <2> HIDE DEF h
  <2>5. Success(s)
    BY <2>4, PlainThen, Zenon
  <2> QED  BY <2>3, <2>5, Zenon DEF f
<1>2. \A s \in hostname_query_forward(r) : Turn(s)
  BY <1>1, Zenon DEF hostname_query_forward, Turn
<1>3. ASSUME NEW list \in Resolved
      PROVE  Success(apply_addrinfo("OK", addrinfo([i \in DOMAIN list |-> Inet(list[i])], r)))
  <2> DEFINE items == addrinfo([i \in DOMAIN list |-> Inet(list[i])], r)
             f == [i \in DOMAIN items |-> AddPathWith(items[i].address, items[i].service)]
             s == f \o <<Finish>>
  <2>1. list \in Seq(HostAddress)
    BY BackendsAssumption, Zenon
  <2>2. Plain(f)
    BY <2>1, PlainAddrinfo, Zenon
  <2> HIDE DEF items
  <2>3. apply_addrinfo("OK", items) = s
    BY Zenon DEF apply_addrinfo
  <2> HIDE DEF f
  <2>4. Success(s)
    BY <2>2, PlainThen, Zenon
  <2> QED  BY <2>3, <2>4, Zenon DEF items
<1>4. \A s \in libc_query_forward(r) : Turn(s)
  BY <1>3, Zenon DEF libc_query_forward, Turn
<1>5. Success(<<AddName("name"), Finish>>)
  BY Ops, ShortTurns, Zenon
<1>6. \A s \in libc_query_reverse(r) : Turn(s)
  BY <1>5, Zenon DEF libc_query_reverse, Turn
<1> QED  BY <1>2, <1>4, <1>6, Zenon

(* What apply_hostent does with a struct hostent.                          *)
LEMMA PlainHostent ==
    ASSUME NEW he \in Hostent
    PROVE  Plain(apply_hostent(he))
<1> DEFINE f == AddPaths([i \in DOMAIN he.addresses |-> Inet(he.addresses[i])])
           g == IF he.name = NoName THEN <<>> ELSE <<CanonicalName(he.name)>>
<1>1. he.addresses \in Seq(HostAddress)
  BY Zenon DEF Hostent
<1>2. Plain(f)
  BY <1>1, PlainInet, Zenon
<1>3. Plain(g)
  BY PlainOne, Ops, Zenon
<1>4. apply_hostent(he) = f \o g
  BY Zenon DEF apply_hostent
<1> HIDE DEF f, g
<1> QED  BY <1>2, <1>3, <1>4, PlainConcat, Zenon

(* Plain calls, and the end of the turn.                                   *)
LEMMA PlainFinish ==
    ASSUME NEW f, Plain(f)
    PROVE  Success(f \o <<Finish>>)
BY PlainThen, Zenon

(* The turn of nss, for every module and each of its functions.            *)
LEMMA NssTurn ==
    ASSUME NEW r, NEW m \in NssModules
    PROVE  Turn(nss_query_forward(r, m))
<1> DEFINE status(f) == IF r.family \in {"UNSPEC", f} THEN m[f].status ELSE "NOTFOUND"
           ok(f) == status(f) = "SUCCESS"
           both == combine_statuses(status("INET"), status("INET6"))
           list6 == IF ok("INET6") THEN m.INET6.addresses ELSE <<>>
           list4 == IF ok("INET") THEN m.INET.addresses ELSE <<>>
           list == list6 \o list4
           tuple == [i \in DOMAIN list |-> Inet(list[i])]
           named(f) == ok(f) /\ m[f].canonical # NoName
           names == IF named("INET6") THEN <<CanonicalName(m.INET6.canonical)>>
                    ELSE IF named("INET") THEN <<CanonicalName(m.INET.canonical)>>
                    ELSE <<>>
           hostent6 == IF ok("INET6") THEN apply_hostent(m.INET6) ELSE <<>>
           hostent4 == IF ok("INET") THEN apply_hostent(m.INET) ELSE <<>>
           hostents == hostent6 \o hostent4
           first == CHOOSE i \in usable(r, m) : \A j \in usable(r, m) : i <= j
<1>1. m.INET \in Hostent /\ m.INET6 \in Hostent
  BY BackendsAssumption, Zenon
<1>2. m.INET.addresses \in Seq(HostAddress) /\ m.INET6.addresses \in Seq(HostAddress)
  BY <1>1, Zenon DEF Hostent
<1> HIDE DEF status, ok, both, named
<1> DEFINE items == addrinfo(tuple, r)
           added == [i \in DOMAIN items |-> AddPathWith(items[i].address, items[i].service)]
<1>3. Plain(AddPaths(tuple)) /\ Plain(added)
  <2>1. list4 \in Seq(HostAddress) /\ list6 \in Seq(HostAddress)
    <3>1. <<>> \in Seq(HostAddress)
      OBVIOUS
    <3> QED  BY <1>2, <3>1, Zenon
  <2> HIDE DEF list4, list6
  <2>2. list \in Seq(HostAddress)
    BY <2>1, ConcatFacts, Zenon
  <2> HIDE DEF list
  <2> QED  BY <2>2, PlainInet, PlainAddrinfo, Zenon
<1>4. Plain(names)
  BY PlainOne, Ops, Zenon
<1>5. Plain(hostents)
  <2>1. Plain(hostent4) /\ Plain(hostent6)
    BY <1>1, PlainHostent, PlainOne, Zenon
  <2> HIDE DEF hostent4, hostent6
  <2> QED  BY <2>1, PlainConcat, Zenon
<1>6. Plain(names \o hostents)
  <2> HIDE DEF names, hostents
  <2> QED  BY <1>4, <1>5, PlainConcat, Zenon
<1>7. Plain(apply_hostent(m.INET))
  BY <1>1, PlainHostent, Zenon
<1> DEFINE s1 == apply_addrinfo(IF list # <<>> THEN "OK" ELSE both, items)
           s2 == IF list # <<>> THEN AddPaths(tuple) \o <<Finish>> ELSE Fail
           s3 == IF both = "SUCCESS" THEN names \o hostents \o <<Finish>> ELSE Fail
           s4 == IF both = "SUCCESS" THEN hostents \o <<Finish>> ELSE Fail
           s5 == IF m.INET.status = "SUCCESS" THEN apply_hostent(m.INET) \o <<Finish>> ELSE Fail
           f == Functions[first]
<1>8. nss_query_forward(r, m) = IF usable(r, m) = {} THEN Fail
                                ELSE CASE f = "getaddrinfo" -> s1
                                       [] f = "gethostbyname4" -> s2
                                       [] f = "gethostbyname3" -> s3
                                       [] f = "gethostbyname2" -> s4
                                       [] f = "gethostbyname" -> s5
  BY Zenon DEF nss_query_forward, status, ok, both, named
<1> HIDE DEF items, tuple, list, names, hostents
<1>9. Turn(s1)
  <2>1. Success(added \o <<Finish>>)
    BY <1>3, PlainFinish, Zenon
  <2>2. Success(<<Finish>>)
    <3> DEFINE s == <<Finish>>
    <3>1. s \in Seq({Finish}) /\ Len(s) = 1 /\ s[1] = Finish /\ Finish.op = "finished"
      BY DEF Finish
    <3> HIDE DEF s
    <3>2. Success(s)
      BY <3>1 DEF Success, IsList
    <3> QED  BY <3>2, Zenon DEF s
  <2> DEFINE st == IF list # <<>> THEN "OK" ELSE both
  <2> HIDE DEF st
  <2>3. CASE st = "OK"
    <3>1. apply_addrinfo(st, items) = added \o <<Finish>>
      BY <2>3, Zenon DEF apply_addrinfo
    <3> QED  BY <2>1, <3>1, Zenon DEF Turn, st
  <2>4. CASE st = "NOTFOUND"
    <3>1. apply_addrinfo(st, items) = <<Finish>>
      BY <2>4, Zenon DEF apply_addrinfo
    <3> QED  BY <2>2, <3>1, Zenon DEF Turn, st
  <2>5. CASE st # "OK" /\ st # "NOTFOUND"
    <3>1. apply_addrinfo(st, items) = Fail
      BY <2>5, Zenon DEF apply_addrinfo
    <3> QED  BY <3>1, Zenon DEF Turn, st
  <2> QED  BY <2>3, <2>4, <2>5, Zenon
<1>10. Turn(s2)
  BY <1>3, PlainFinish, Zenon DEF Turn
<1>11. Turn(s3)
  BY <1>6, PlainFinish, Zenon DEF Turn
<1>12. Turn(s4)
  BY <1>5, PlainFinish, Zenon DEF Turn
<1>13. Turn(s5)
  BY <1>7, PlainFinish, Zenon DEF Turn
<1> HIDE DEF s1, s2, s3, s4, s5
<1>14. usable(r, m) # {} => f \in {"getaddrinfo", "gethostbyname4", "gethostbyname3", "gethostbyname2", "gethostbyname"}
  <2>1. usable(r, m) \in SUBSET Nat /\ usable(r, m) \subseteq 1..5
    BY DEF usable, Functions
  <2>2. usable(r, m) # {} => first \in usable(r, m)
    <3>1. usable(r, m) # {} => \E i \in usable(r, m) : \A j \in usable(r, m) : i <= j
      BY <2>1, LeastNat, Zenon
    <3> QED  BY <3>1, Zenon
  <2> HIDE DEF first
  <2>3. \A i \in 1..5 : Functions[i] \in {"getaddrinfo", "gethostbyname4", "gethostbyname3", "gethostbyname2", "gethostbyname"}
    BY DEF Functions
  <2> QED  BY <2>1, <2>2, <2>3, Zenon
<1> HIDE DEF f
<1>15. CASE usable(r, m) = {}
  BY <1>8, <1>15, Zenon DEF Turn
<1>16. CASE usable(r, m) # {}
  <2>1. nss_query_forward(r, m) \in {s1, s2, s3, s4, s5}
    BY <1>8, <1>14, <1>16, Zenon
  <2> QED  BY <1>9, <1>10, <1>11, <1>12, <1>13, <2>1, Zenon
<1> QED  BY <1>15, <1>16, Zenon

(* Every backend that answers on the spot fails at once, or adds what it   *)
(* has, vouches for it or not, and is finished.                            *)
LEMMA Turns ==
    ASSUME NEW b \in Backend \ {"remote"}, NEW r, NEW s \in setup(b, r)
    PROVE  Turn(s)
<1> DEFINE forward == r.type = "FORWARD"
<1>0. Turn(Fail)
  BY Zenon DEF Turn
<1> HIDE DEF forward
<1>1. CASE b = "unix"
  <2>1. setup(b, r) = {IF forward THEN unix_query_forward(r) ELSE Fail}
    BY <1>1, Zenon DEF setup, forward
  <2> QED  BY <1>0, <2>1, FixedTurns, Zenon
<1>2. CASE b = "any"
  <2>1. setup(b, r) = {IF forward THEN any_query_forward(r) ELSE any_query_reverse(r)}
    BY <1>2, Zenon DEF setup, forward
  <2> QED  BY <2>1, FixedTurns, Zenon
<1>3. CASE b = "loopback"
  <2>1. setup(b, r) = {IF forward THEN loopback_query_forward(r) ELSE loopback_query_reverse(r)}
    BY <1>3, Zenon DEF setup, forward
  <2> QED  BY <2>1, FixedTurns, Zenon
<1>4. CASE b = "numerichost"
  <2>1. setup(b, r) = {IF forward THEN numerichost_query_forward(r) ELSE Fail}
    BY <1>4, Zenon DEF setup, forward
  <2> QED  BY <1>0, <2>1, NumericTurn, Zenon
<1>5. CASE b = "hosts"
  <2>1. setup(b, r) = {IF forward THEN hosts_query_forward(r, list) ELSE hosts_query_reverse(r, list) :
                          list \in HostsLists}
    BY <1>5, Zenon DEF setup, forward
  <2> QED  BY <2>1, HostsTurns, Zenon
<1>6. CASE b = "hostname"
  <2>1. setup(b, r) = IF forward THEN hostname_query_forward(r) ELSE {Fail}
    BY <1>6, Zenon DEF setup, forward
  <2> QED  BY <1>0, <2>1, SystemTurns, Zenon
<1>7. CASE b = "libc"
  <2>1. setup(b, r) = IF forward THEN libc_query_forward(r) ELSE libc_query_reverse(r)
    BY <1>7, Zenon DEF setup, forward
  <2> QED  BY <2>1, SystemTurns, Zenon
<1>8. CASE b = "nss"
  <2>1. setup(b, r) = IF forward THEN {nss_query_forward(r, m) : m \in NssModules} ELSE {Fail}
    BY <1>8, Zenon DEF setup, forward
  <2> QED  BY <1>0, <2>1, NssTurn, Zenon
<1> QED  BY <1>1, <1>2, <1>3, <1>4, <1>5, <1>6, <1>7, <1>8, Zenon DEF Backend

(* A name that this host can tell by itself is claimed by one of the three *)
(* backends that come before any that asks servers.                        *)
LEMMA Claimed ==
    ASSUME NEW r, r.type = "FORWARD", r.nodename \in Local
    PROVE  \E b \in {"loopback", "numerichost", "hosts"} : Fail \notin setup(b, r)
<1>1. setup("loopback", r) = {loopback_query_forward(r)}
  BY Zenon DEF setup
<1>2. setup("numerichost", r) = {numerichost_query_forward(r)}
  BY Zenon DEF setup
<1>3. \A s \in setup("hosts", r) : \E list \in HostsLists : s = hosts_query_forward(r, list)
  BY Zenon DEF setup
<1>4. CASE r.nodename \in {NoName, "", "localhost", "localhost4", "localhost6"}
  BY <1>1, <1>4, FixedTurns, Zenon
<1>5. CASE r.nodename \in {n \in DOMAIN Literal : Literal[n].ifindex >= 0}
  <2>1. r.nodename \in DOMAIN Literal /\ ~(Literal[r.nodename].ifindex < 0)
    BY <1>5, BackendsAssumption
  <2> QED  BY <1>2, <2>1, NumericTurn, Zenon
<1>6. CASE /\ r.nodename # NoName
           /\ \E i \in DOMAIN HostsFile :
                 /\ HostsFile[i].literal \in DOMAIN Literal /\ HostsFile[i].seam # 0 /\ HostsFile[i].names # <<>>
                 /\ \A j \in 1..i : HostsFile[j].fits
                 /\ r.nodename = HostsFile[i].names[1]
  <2>1. \A list \in HostsLists : \E k \in DOMAIN list : list[k].name = r.nodename
    BY <1>6, HostItems, Zenon
  <2> QED  BY <1>3, <1>6, <2>1, HostsTurns, Zenon
<1> QED  BY <1>4, <1>5, <1>6, Zenon DEF Local

(* What is left of a list behind its first element.                        *)
Rest(t, s) ==
    /\ Len(s) \in Nat \ {0} /\ Len(t) = Len(s) - 1 /\ DOMAIN t = 1..Len(t) /\ DOMAIN s = 1..Len(s)
    /\ Head(s) = s[1] /\ \A i \in 1..Len(t) : t[i] = s[i + 1]

(* Tail leaves it.                                                         *)
LEMMA TailFacts ==
    ASSUME NEW S, NEW s \in Seq(S), s # <<>>, NEW t, t = Tail(s)
    PROVE  t \in Seq(S) /\ Rest(t, s)
BY DEF Rest

(* What the next call of a turn that ends in success may be, and what is   *)
(* left of the turn then.                                                  *)
LEMMA SuccessHead ==
    ASSUME NEW s, Success(s)
    PROVE  /\ Head(s).op \in PlainOps \cup {"set_secure", "finished"}
           /\ Head(s).op \in PlainOps => Len(s) # 1 /\ Success(Tail(s))
           /\ Head(s).op = "set_secure" => Success(Tail(s)) /\ Len(Tail(s)) = 1
<1>1. PICK S : s \in Seq(S)
  BY Zenon DEF Success, IsList
<1>2. Len(s) \in Nat /\ Len(s) > 0 /\ Head(s) = s[1] /\ s[Len(s)].op = "finished"
  BY <1>1 DEF Success
<1>3. \A i \in 1..(Len(s) - 1) : s[i].op \in PlainOps \/ (s[i].op = "set_secure" /\ i = Len(s) - 1)
  BY Zenon DEF Success
<1>4. CASE Len(s) = 1
  BY <1>2, <1>4, Zenon DEF PlainOps
<1>5. CASE Len(s) # 1
  <2> DEFINE t == Tail(s)
  <2>0. s # <<>>
    BY <1>1, <1>2
  <2>1. t \in Seq(S) /\ Len(t) = Len(s) - 1 /\ \A i \in 1..Len(t) : t[i] = s[i + 1]
    <3>1. t = Tail(s)
      BY Zenon
    <3> HIDE DEF t
    <3>2. t \in Seq(S) /\ Rest(t, s)
      BY <1>1, <2>0, <3>1, TailFacts, Zenon
    <3> QED  BY <3>2, Zenon DEF Rest
  <2>2. 1 \in 1..(Len(s) - 1)
    <3>1. Len(s) \in Nat /\ Len(s) > 0
      BY <1>2, Zenon
    <3> DEFINE n == Len(s)
    <3>2. n \in Nat /\ n > 0 /\ n # 1
      BY <1>5, <3>1, Zenon
    <3> HIDE DEF n
    <3>3. 1 \in 1..(n - 1)
      BY <3>2
    <3> QED  BY <3>3, Zenon DEF n
  <2>3. s[1].op \in PlainOps \/ (s[1].op = "set_secure" /\ Len(s) = 2)
    <3>1. s[1].op \in PlainOps \/ (s[1].op = "set_secure" /\ 1 = Len(s) - 1)
      BY <1>3, <2>2, Zenon
    <3>2. 1 = Len(s) - 1 => Len(s) = 2
      BY <1>2
    <3> QED  BY <3>1, <3>2, Zenon
  <2> HIDE DEF t
  <2>4. Len(t) \in Nat /\ Len(t) > 0 /\ t[Len(t)] = s[Len(s)]
    <3>1. Len(t) \in Nat /\ Len(t) > 0 /\ Len(t) \in 1..Len(t) /\ Len(t) + 1 = Len(s)
      BY <1>2, <1>5, <2>1
    <3>2. t[Len(t)] = s[Len(t) + 1]
      BY <2>1, <3>1, Zenon
    <3> QED  BY <3>1, <3>2, Zenon
  <2>5. ASSUME NEW i \in 1..(Len(t) - 1)
        PROVE  t[i].op \in PlainOps \/ (t[i].op = "set_secure" /\ i = Len(t) - 1)
    <3>1. i + 1 \in 1..(Len(s) - 1) /\ t[i] = s[i + 1]
      BY <1>2, <2>1, <2>4
    <3>2. s[i + 1].op \in PlainOps \/ (s[i + 1].op = "set_secure" /\ i + 1 = Len(s) - 1)
      BY <1>3, <3>1, Zenon
    <3> QED  BY <1>2, <2>1, <3>1, <3>2
  <2>6. Success(t)
    BY <1>2, <2>1, <2>4, <2>5, Zenon DEF Success, IsList
  <2>7. s[1].op = "set_secure" => Len(t) = 1
    <3>1. "set_secure" \notin PlainOps
      BY Zenon DEF PlainOps
    <3>2. s[1].op = "set_secure" => Len(s) = 2
      BY <2>3, <3>1, Zenon
    <3>3. Len(t) = Len(s) - 1
      BY <2>1, Zenon
    <3>4. Len(s) = 2 => Len(t) = 1
      BY <3>3
    <3> QED  BY <3>2, <3>4, Zenon
  <2> QED  BY <1>2, <1>5, <2>3, <2>6, <2>7, Zenon DEF t
<1> QED  BY <1>4, <1>5, Zenon

(* The backend whose turn it is answers on the spot: it has failed, or is  *)
(* on its way to a success.                                                *)
OwnTurn == (todo = Fail /\ Fail \in setup(config.chain[position], request)) \/ Success(todo)

(* The backends before have failed.                                        *)
Behind == \A j \in 1..(position - 1) : config.chain[j] # "remote" => Fail \in setup(config.chain[j], request)

(* The query, without mandatory backends.                                  *)
Orderly ==
    /\ position \in DOMAIN config.chain /\ LocalStaysLocal
    /\ state \in {"setup", "running"} => Behind
    /\ state = "running" /\ config.chain[position] # "remote" => OwnTurn

(* The inductive invariant.                                                *)
LookupInv ==
    /\ config \in Configs /\ request.type \in {"FORWARD", "REVERSE"}
    /\ config.mandatory = {} => Orderly

(* What the assumptions say about the chain of the context.                *)
LEMMA ChainFacts ==
    ASSUME config \in Configs
    PROVE  /\ config.chain \in Seq(Backend) /\ Len(config.chain) \in Nat /\ 1 \in DOMAIN config.chain
           /\ DOMAIN config.chain = 1..Len(config.chain)
<1> DEFINE chain == config.chain
<1>1. chain \in Seq(Backend) /\ chain # <<>>
  BY ConfigsAssumption, Zenon
<1> HIDE DEF chain
<1>2. Len(chain) \in Nat /\ DOMAIN chain = 1..Len(chain) /\ Len(chain) # 0
  BY <1>1
<1>3. 1 \in 1..Len(chain)
  BY <1>2
<1> QED  BY <1>1, <1>2, <1>3, Zenon DEF chain

(* Where the backends that ask servers are.                                *)
LEMMA ServersLast ==
    ASSUME NEW c \in Configs, c.mandatory = {}, NEW i \in DOMAIN c.chain, c.chain[i] = "remote"
    PROVE  /\ \A j \in DOMAIN c.chain : i < j => c.chain[j] = "remote"
           /\ \A b \in {"loopback", "numerichost", "hosts"} :
                 \E j \in DOMAIN c.chain : j < i /\ c.chain[j] = b
BY ConfigsAssumption

(* A call that makes a query.                                              *)
LEMMA StartKeeps ==
    ASSUME LookupInv, NEW name, Start(name), request'.type \in {"FORWARD", "REVERSE"}
    PROVE  LookupInv'
<1>1. state' = "setup" /\ position' = 1 /\ asked' = {} /\ config' = config
  BY Zenon DEF Start
<1>2. config' \in Configs
  BY <1>1, Zenon DEF LookupInv
<1>3. position' \in DOMAIN config'.chain
  BY <1>1, <1>2, ChainFacts, Zenon DEF LookupInv
<1>4. \A j \in 1..(position' - 1) : FALSE
  BY <1>1
<1>5. LocalStaysLocal' /\ Behind'
  BY <1>1, <1>4, Zenon DEF LocalStaysLocal, Behind
<1>6. state' # "running"
  BY <1>1, Zenon
<1> QED  BY <1>1, <1>2, <1>3, <1>5, <1>6, Zenon DEF LookupInv, Orderly

(* A call whose query could not be made changes nothing here.              *)
LEMMA RefusedKeeps ==
    ASSUME LookupInv, NEW name, NEW result, Refused(name, result)
    PROVE  LookupInv'
<1>1. /\ state = "idle" /\ UNCHANGED <<request, config, position, state, asked>>
  BY Zenon DEF Refused, response, query
<1>2. state' # "running" /\ state' # "setup"
  BY <1>1, Zenon
<1>3. config.mandatory = {} => position \in DOMAIN config.chain /\ LocalStaysLocal
  BY Zenon DEF LookupInv, Orderly
<1>4. config'.mandatory = {} => position' \in DOMAIN config'.chain /\ LocalStaysLocal'
  BY <1>1, <1>3, Zenon DEF LocalStaysLocal
<1> QED  BY <1>1, <1>2, <1>4, Zenon DEF LookupInv, Orderly

(* A call returns, and the response stays as it is.                        *)
LEMMA ReturnKeeps ==
    ASSUME LookupInv, Return
    PROVE  LookupInv'
<1>1. /\ state \in {"done", "failed"} /\ state' = "idle"
      /\ UNCHANGED <<request, config, position, asked>>
  BY Zenon DEF Return, response
<1>2. state' # "running" /\ state' # "setup"
  BY <1>1, Zenon
<1>3. config.mandatory = {} => position \in DOMAIN config.chain /\ LocalStaysLocal
  BY Zenon DEF LookupInv, Orderly
<1>4. config'.mandatory = {} => position' \in DOMAIN config'.chain /\ LocalStaysLocal'
  BY <1>1, <1>3, Zenon DEF LocalStaysLocal
<1> QED  BY <1>1, <1>2, <1>4, Zenon DEF LookupInv, Orderly

(* The next backend gets its turn.  If it asks servers, the name is not    *)
(* one that the host can tell by itself, for the backends before would     *)
(* have claimed it.                                                        *)
LEMMA SetupKeeps ==
    ASSUME LookupInv, set_state_SETUP
    PROVE  LookupInv'
<1> DEFINE b == config.chain[position]
<1>1. /\ state = "setup" /\ state' = "running" /\ asked' = asked \cup {position}
      /\ UNCHANGED <<request, position, config>>
      /\ todo' \in IF b = "remote" THEN Remote[request.type] ELSE setup(b, request)
  BY Zenon DEF set_state_SETUP, response
<1>2. config \in Configs /\ request.type \in {"FORWARD", "REVERSE"}
  BY Zenon DEF LookupInv
<1> SUFFICES ASSUME config.mandatory = {} PROVE Orderly'
  BY <1>1, <1>2, Zenon DEF LookupInv
<1>3. position \in DOMAIN config.chain /\ LocalStaysLocal /\ Behind
  BY <1>1, Zenon DEF LookupInv, Orderly
<1>4. b \in Backend
  BY <1>2, <1>3, ChainFacts
<1> HIDE DEF b
<1>5. LocalStaysLocal'
  <2>1. CASE b # "remote"
    BY <1>1, <1>3, <2>1, Zenon DEF LocalStaysLocal, b
  <2>2. CASE b = "remote" /\ request.type = "FORWARD"
    <3>1. \A c \in {"loopback", "numerichost", "hosts"} :
             \E j \in DOMAIN config.chain : j < position /\ config.chain[j] = c
      BY <1>2, <1>3, <2>2, ServersLast DEF b
    <3>2. ASSUME NEW c \in {"loopback", "numerichost", "hosts"} PROVE Fail \in setup(c, request)
      <4>1. PICK j \in DOMAIN config.chain : j < position /\ config.chain[j] = c
        BY <3>1, Zenon
      <4>2. j \in 1..(position - 1)
        BY <1>2, <1>3, <4>1, ChainFacts
      <4>3. c # "remote"
        BY <3>2, Zenon
      <4> QED  BY <1>3, <4>1, <4>2, <4>3, Zenon DEF Behind
    <3>3. request.nodename \notin Local
      BY <2>2, <3>2, Claimed, Zenon
    <3> QED  BY <1>1, <3>3, Zenon DEF LocalStaysLocal
  <2>3. CASE request.type # "FORWARD"
    BY <1>1, <2>3, Zenon DEF LocalStaysLocal
  <2> QED  BY <2>1, <2>2, <2>3, Zenon
<1>6. Behind'
  BY <1>1, <1>3, Zenon DEF Behind
<1>7. b # "remote" => OwnTurn'
  <2> SUFFICES ASSUME b # "remote" PROVE OwnTurn'
    BY Zenon
  <2>1. Turn(todo') /\ todo' \in setup(b, request)
    BY <1>1, <1>4, Turns, Zenon
  <2> QED  BY <1>1, <2>1, Zenon DEF OwnTurn, Turn, b
<1> QED  BY <1>1, <1>3, <1>5, <1>6, <1>7, ZenonT(40) DEF Orderly, b

(* A step within the turn of a backend.                                    *)
LEMMA WithinTurn ==
    ASSUME LookupInv, state = "running", state' = "running", UNCHANGED <<request, config, position, asked>>,
           OwnTurn => OwnTurn'
    PROVE  LookupInv'
<1>1. config' \in Configs /\ request'.type \in {"FORWARD", "REVERSE"}
  BY Zenon DEF LookupInv
<1> SUFFICES ASSUME config.mandatory = {} PROVE Orderly'
  BY <1>1, Zenon DEF LookupInv
<1>2. /\ position \in DOMAIN config.chain /\ LocalStaysLocal /\ Behind
      /\ config.chain[position] # "remote" => OwnTurn
  BY Zenon DEF LookupInv, Orderly
<1>3. LocalStaysLocal' /\ Behind'
  BY <1>2, Zenon DEF LocalStaysLocal, Behind
<1> QED  BY <1>2, <1>3, Zenon DEF Orderly

(* The first call of a failure.                                            *)
LEMMA FailHead == Head(Fail).op = "failed"
BY DEF Fail

(* A call that is not the last of the turn of a backend on its way to a    *)
(* success.                                                                *)
LEMMA CallMade ==
    ASSUME Head(todo).op \in PlainOps \cup {"set_secure"}, todo' = Tail(todo), OwnTurn
    PROVE  OwnTurn'
<1>1. todo # Fail
  <2>1. "failed" \notin PlainOps \cup {"set_secure"}
    BY Zenon DEF PlainOps
  <2> QED  BY <2>1, FailHead, Zenon
<1>2. Success(todo)
  BY <1>1, Zenon DEF OwnTurn
<1>3. Success(todo')
  BY <1>2, SuccessHead, Zenon
<1> QED  BY <1>3, Zenon DEF OwnTurn

(* A backend adds something to the response.                               *)
LEMMA FillKeeps ==
    ASSUME LookupInv, Fill
    PROVE  LookupInv'
<1>1. /\ state = "running" /\ Head(todo).op \in PlainOps /\ todo' = Tail(todo)
      /\ UNCHANGED <<state, position, asked, config>>
  BY SMTT(40) DEF Fill, Running, PlainOps
<1>2. request' = request
  BY Zenon DEF Fill, response, netresolve_backend_add_path, Add, netresolve_backend_set_canonical_name,
         netresolve_backend_add_name_info
<1>3. OwnTurn => OwnTurn'
  BY <1>1, CallMade, Zenon
<1> QED  BY <1>1, <1>2, <1>3, WithinTurn, Zenon

(* The library puts one of the paths in its place.                         *)
LEMMA FillNextKeeps ==
    ASSUME LookupInv, FillNext
    PROVE  LookupInv'
<1>1. state = "running" /\ UNCHANGED <<request, state, position, todo, asked, config>>
  BY Zenon DEF FillNext, add_path, query
<1>2. OwnTurn => OwnTurn'
  BY <1>1, Zenon DEF OwnTurn
<1> QED  BY <1>1, <1>2, WithinTurn, Zenon

(* A backend vouches.                                                      *)
LEMMA SecureKeeps ==
    ASSUME LookupInv, netresolve_backend_set_secure
    PROVE  LookupInv'
<1>1. /\ state = "running" /\ Head(todo).op = "set_secure" /\ todo' = Tail(todo)
      /\ UNCHANGED <<request, state, position, asked, config>>
  BY Zenon DEF netresolve_backend_set_secure, Running, response
<1>2. OwnTurn => OwnTurn'
  BY <1>1, CallMade, Zenon
<1> QED  BY <1>1, <1>2, WithinTurn, Zenon

(* A backend has succeeded, and no mandatory one follows.                  *)
LEMMA FinishedKeeps ==
    ASSUME LookupInv, netresolve_backend_finished
    PROVE  LookupInv'
<1>1. state = "running" /\ UNCHANGED <<request, asked, config>>
  BY Zenon DEF netresolve_backend_finished, Running, response
<1>2. config' \in Configs /\ request'.type \in {"FORWARD", "REVERSE"}
  BY <1>1, Zenon DEF LookupInv
<1> SUFFICES ASSUME config.mandatory = {} PROVE Orderly'
  BY <1>1, <1>2, Zenon DEF LookupInv
<1>3. state' = "done" /\ position' = position
  BY Zenon DEF netresolve_backend_finished
<1>4. position \in DOMAIN config.chain /\ LocalStaysLocal
  BY Zenon DEF LookupInv, Orderly
<1>5. LocalStaysLocal'
  BY <1>1, <1>4, Zenon DEF LocalStaysLocal
<1>6. state' # "setup" /\ state' # "running"
  BY <1>3, Zenon
<1> QED  BY <1>1, <1>3, <1>4, <1>5, <1>6, Zenon DEF Orderly

(* The place after one that is not the last is a place of the chain.       *)
LEMMA NextPlace ==
    ASSUME NEW m \in Nat, NEW p \in 1..m, p < m
    PROVE  p + 1 \in 1..m /\ p < p + 1 /\ p \in Nat
           /\ \A j \in 1..((p + 1) - 1) : j \in 1..(p - 1) \/ j = p
OBVIOUS

(* A backend has failed: one that answers on the spot at once.             *)
LEMMA FailedKeeps ==
    ASSUME LookupInv, netresolve_backend_failed
    PROVE  LookupInv'
<1> DEFINE b == config.chain[position]
<1>1. state = "running" /\ Head(todo).op = "failed" /\ UNCHANGED <<request, asked, config>>
  BY Zenon DEF netresolve_backend_failed, Running, response
<1>2. config \in Configs /\ request.type \in {"FORWARD", "REVERSE"}
  BY Zenon DEF LookupInv
<1> SUFFICES ASSUME config.mandatory = {} PROVE Orderly'
  BY <1>1, <1>2, Zenon DEF LookupInv
<1>3. position \in DOMAIN config.chain /\ LocalStaysLocal /\ Behind /\ (b # "remote" => OwnTurn)
  BY <1>1, Zenon DEF LookupInv, Orderly
<1>4. b # "remote" => Fail \in setup(b, request)
  <2>1. ~Success(todo)
    <3>1. "failed" \notin PlainOps \cup {"set_secure", "finished"}
      BY Zenon DEF PlainOps
    <3> QED  BY <1>1, <3>1, SuccessHead, Zenon
  <2> QED  BY <1>3, <2>1, Zenon DEF OwnTurn
<1>5. LocalStaysLocal'
  BY <1>1, <1>3, Zenon DEF LocalStaysLocal
<1>7. DOMAIN config.chain = 1..Len(config.chain) /\ Len(config.chain) \in Nat
  BY <1>2, ChainFacts, Zenon
<1>8. CASE position < Len(config.chain)
  <2>1. state' = "setup" /\ position' = position + 1
    BY <1>8, Zenon DEF netresolve_backend_failed
  <2>2. position' \in DOMAIN config'.chain /\ position < position' /\ position \in Nat
    <3>1. position + 1 \in 1..Len(config.chain) /\ position < position + 1 /\ position \in Nat
      BY <1>3, <1>7, <1>8, NextPlace, Zenon
    <3> QED  BY <1>1, <1>7, <2>1, <3>1, Zenon
  <2>3. Behind'
    <3>1. ASSUME NEW j \in 1..(position' - 1), config.chain[j] # "remote"
          PROVE  Fail \in setup(config.chain[j], request)
      <4>1. j \in 1..(position - 1) \/ j = position
        BY <1>3, <1>7, <1>8, <2>1, <3>1, NextPlace, Zenon
      <4> QED  BY <1>3, <1>4, <3>1, <4>1, Zenon DEF Behind
    <3> QED  BY <1>1, <3>1, Zenon DEF Behind
  <2>4. state' # "running"
    BY <2>1, Zenon
  <2> QED  BY <1>1, <1>5, <2>1, <2>2, <2>3, <2>4, Zenon DEF Orderly
<1>9. CASE ~(position < Len(config.chain))
  <2>1. state' = "failed" /\ position' = position
    BY <1>9, Zenon DEF netresolve_backend_failed
  <2>2. state' # "running" /\ state' # "setup"
    BY <2>1, Zenon
  <2> QED  BY <1>1, <1>3, <1>5, <2>1, <2>2, Zenon DEF Orderly
<1> QED  BY <1>8, <1>9, Zenon

(* The calls of the C library that make a query.                           *)
LEMMA CallKeeps ==
    ASSUME LookupInv, LookupNext
    PROVE  \/ LookupInv'
           \/ set_state_SETUP \/ Fill \/ FillNext \/ netresolve_backend_set_secure
           \/ netresolve_backend_finished \/ netresolve_backend_failed \/ Return
<1>1. ASSUME NEW name, NEW hints, getaddrinfo(name, hints) PROVE LookupInv'
  <2>1. request'.type = "FORWARD"
    BY <1>1, Zenon DEF getaddrinfo, netresolve_query_getaddrinfo, Forward
  <2> QED  BY <1>1, <2>1, StartKeeps, Zenon DEF getaddrinfo
<1>2. ASSUME NEW name, NEW family,
             gethostbyname2(name, family) \/ gethostbyname2_r(name, family) \/ nss_netresolve(name, family)
      PROVE  LookupInv'
  <2>1. request'.type = "FORWARD"
    <3>1. CASE gethostbyname2(name, family) \/ gethostbyname2_r(name, family)
      BY <3>1 DEF gethostbyname2, gethostbyname2_r, netresolve_query_gethostbyname, Forward
    <3>2. CASE nss_netresolve(name, family)
      BY <3>2, Zenon DEF nss_netresolve, netresolve_query_getaddrinfo, Forward
    <3> QED  BY <1>2, <3>1, <3>2, Zenon
  <2> QED  BY <1>2, <2>1, StartKeeps, Zenon DEF gethostbyname2, gethostbyname2_r, nss_netresolve
<1>3. ASSUME NEW peer, gethostbyaddr(peer) PROVE LookupInv'
  <2>1. CASE Refused("gethostbyaddr", static.gethostbyaddr)
    BY <2>1, RefusedKeeps, Zenon
  <2>2. CASE Start("gethostbyaddr") /\ request' = netresolve_query_reverse(peer, Unset, 0)
    <3>1. request'.type = "REVERSE"
      BY <2>2, Zenon DEF netresolve_query_reverse
    <3> QED  BY <2>2, <3>1, StartKeeps, Zenon
  <2> QED  BY <1>3, <2>1, <2>2, Zenon DEF gethostbyaddr
<1>4. ASSUME NEW peer, NEW dgram, getnameinfo(peer, dgram) PROVE LookupInv'
  <2> DEFINE protocol == IF dgram THEN "UDP" ELSE "TCP"
  <2>1. CASE Refused("getnameinfo", Null)
    BY <2>1, RefusedKeeps, Zenon
  <2>2. CASE Start("getnameinfo") /\ request' = netresolve_query_reverse(peer, protocol, 53)
    <3>1. request'.type = "REVERSE"
      BY <2>2, Zenon DEF netresolve_query_reverse
    <3> QED  BY <2>2, <3>1, StartKeeps, Zenon
  <2> QED  BY <1>4, <2>1, <2>2, Zenon DEF getnameinfo
<1> QED  BY <1>1, <1>2, <1>3, <1>4, Zenon DEF LookupNext

(* The invariant of the runs of a query through the chain.                 *)
LEMMA LookupKept == (LookupInit => LookupInv) /\ (LookupInv /\ [LookupNext]_lookupVars => LookupInv')
<1>1. ASSUME LookupInit PROVE LookupInv
  <2>1. /\ config \in Configs /\ position = 1 /\ state = "idle" /\ asked = {}
        /\ request = netresolve_query_gethostbyname(NoName, "UNSPEC")
    BY <1>1, Zenon DEF LookupInit
  <2>2. request.type = "FORWARD"
    BY <2>1, Zenon DEF netresolve_query_gethostbyname, Forward
  <2>3. position \in DOMAIN config.chain
    BY <2>1, ChainFacts, Zenon
  <2>4. LocalStaysLocal
    BY <2>1, Zenon DEF LocalStaysLocal
  <2>5. state # "setup" /\ state # "running"
    BY <2>1, Zenon
  <2> QED  BY <2>1, <2>2, <2>3, <2>4, <2>5, Zenon DEF LookupInv, Orderly
<1>2. ASSUME LookupInv, LookupNext PROVE LookupInv'
  BY <1>2, CallKeeps, SetupKeeps, FillKeeps, FillNextKeeps, SecureKeeps, FinishedKeeps, FailedKeeps, ReturnKeeps, Zenon
<1>3. ASSUME LookupInv, UNCHANGED lookupVars PROVE LookupInv'
  <2>1. UNCHANGED <<request, config, state, position, todo, asked>>
    BY <1>3, Zenon DEF lookupVars, response, query
  <2> QED  BY <1>3, <2>1, Zenon DEF LookupInv, Orderly, LocalStaysLocal, Behind, OwnTurn
<1> QED  BY <1>1, <1>2, <1>3, Zenon

(* Whatever the hosts file, the interfaces, the modules and the servers    *)
(* say, and whichever calls were made before, a name that this host can    *)
(* tell by itself never gets to a backend that asks servers, in a context  *)
(* without mandatory backends.                                             *)
THEOREM LocalNames == LookupSpec => []LocalStaysLocal
<1>1. LookupInv => LocalStaysLocal
  BY Zenon DEF LookupInv, Orderly, LocalStaysLocal
<1> QED  BY <1>1, LookupKept, PTL DEF LookupSpec
=============================================================================
