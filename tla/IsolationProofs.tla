--------------------------- MODULE IsolationProofs --------------------------
(***************************************************************************)
(* What a handler of one query does to the others, and how often it calls  *)
(* the callback, for any number of queries and backends: as in             *)
(* QueryProofs, one lemma per operator.                                    *)
(***************************************************************************)
EXTENDS QueryProofs, FiniteSetTheorems

(* The configurations in which no query meets the state object of another  *)
(* one: a backend with a state object handles every request type, and is   *)
(* not the first one, at which queries are that are refused.               *)
Able == (\A t \in Type : Stateful \subseteq Supports[t]) /\ 1 \notin Stateful

(* From world w to world v a handler of q leaves the places of the other   *)
(* queries, and the ones that have finished, alone and calls no callback   *)
(* but q's, and q does not go back in the list.                            *)
Spares(w, v, q) ==
    /\ \A r \in Query : r # q =>
          /\ v.query[r].life = w.query[r].life /\ v.query[r].backend = w.query[r].backend
          /\ w.query[r].state \in Finished => v.query[r] = w.query[r]
          /\ v.query[r].state = w.query[r].state /\ v.query[r].called = w.query[r].called
    /\ w.query[q].backend <= v.query[q].backend

Alone(w, v, q) == \A r \in Query : r # q => v.query[r] = w.query[r]

(* The state object of the backend at which q is, if that has one, is q's. *)
Own(w, q) ==
    w.query[q].life = "live" /\ w.query[q].backend \in Stateful => w.data[w.query[q].backend] = q

Calm(w, q) ==
    /\ Able
    /\ \A b \in Backend : /\ w.cleanup[b] => b \in Stateful
                          /\ w.data[b] # NoQuery => w.cleanup[b]
    /\ \A r \in Query : r # q => Own(w, r)

Tame(w, q) == Calm(w, q) /\ Own(w, q)

(* A handler that does the best the configuration allows.                  *)
Isolates(w, v, q) == Tame(w, q) => Tame(v, q) /\ Alone(w, v, q)

(* One operator after another.                                             *)
LEMMA SparesTransitive ==
    ASSUME NEW w \in Worlds, NEW u \in Worlds, NEW v \in Worlds, NEW q \in Query,
           Spares(w, u, q), Spares(u, v, q)
    PROVE  Spares(w, v, q)
<1>1. /\ w.query[q].backend \in Int /\ u.query[q].backend \in Int /\ v.query[q].backend \in Int
  <2>1. w.query[q] \in QueryRecord /\ u.query[q] \in QueryRecord /\ v.query[q] \in QueryRecord
    BY WorldFacts, Zenon
  <2> QED  BY <2>1, ConstantsAssumption DEF QueryRecord, End
<1>2. w.query[q].backend <= v.query[q].backend
  BY <1>1 DEF Spares
<1> QED  BY <1>2 DEF Spares

(* Likewise for what is left alone of the others.                          *)
LEMMA IsolatesTransitive ==
    ASSUME NEW w, NEW u, NEW v, NEW q, Isolates(w, u, q), Isolates(u, v, q)
    PROVE  Isolates(w, v, q)
BY Zenon DEF Isolates, Alone

(* What changes in the record of q alone.                                  *)
LEMMA PutSpares ==
    ASSUME NEW w \in Worlds, NEW q \in Query, NEW r \in QueryRecord,
           w.query[q].backend <= r.backend
    PROVE  Spares(w, Put(w, q, r), q) /\ Alone(w, Put(w, q, r), q)
BY PutFacts DEF Spares, Alone

(* It is calm for the others if it was.                                    *)
LEMMA PutCalm ==
    ASSUME NEW w \in Worlds, NEW q \in Query, NEW r \in QueryRecord, Calm(w, q)
    PROVE  Calm(Put(w, q, r), q)
<1> DEFINE v == Put(w, q, r)
<1>1. /\ v.data = w.data /\ v.cleanup = w.cleanup
      /\ \A p \in Query : p # q => v.query[p] = w.query[p]
  BY PutFacts, Zenon
<1> HIDE DEF v
<1>2. Calm(v, q)
  BY <1>1, Zenon DEF Calm, Own
<1> QED  BY <1>2, Zenon DEF v

(* A query that stays where it is keeps its state object.                  *)
LEMMA PutIsolates ==
    ASSUME NEW w \in Worlds, NEW q \in Query, NEW r \in QueryRecord,
           r.backend = w.query[q].backend, r.life = w.query[q].life
    PROVE  Spares(w, Put(w, q, r), q) /\ Isolates(w, Put(w, q, r), q)
<1>1. w.query[q].backend <= r.backend
  <2>1. w.query[q] \in QueryRecord
    BY WorldFacts, Zenon
  <2> QED  BY <2>1, ConstantsAssumption DEF QueryRecord, End
<1>2. Spares(w, Put(w, q, r), q) /\ Alone(w, Put(w, q, r), q)
  BY <1>1, PutSpares, Zenon
<1>3. Calm(w, q) => Calm(Put(w, q, r), q)
  BY PutCalm, Zenon
<1>4. Own(w, q) => Own(Put(w, q, r), q)
  BY PutFacts DEF Own
<1> QED  BY <1>2, <1>3, <1>4, Zenon DEF Isolates, Tame

(* The owner of a state object that is released loses its watches, and is  *)
(* not finished unless it is q.                                            *)
LEMMA UnprivateSpares ==
    ASSUME NEW w, NEW q \in Query, NEW b \in Backend, Held(w, q), unprivate(w, b).fault = "none"
    PROVE  LET v == unprivate(w, b) IN
           /\ Spares(w, v, q)
           /\ v.query[q].backend = w.query[q].backend /\ v.query[q].life = w.query[q].life
           /\ v.query[q].called = w.query[q].called
           /\ w.data[b] = q => Alone(w, v, q)
           /\ v.cleanup = w.cleanup
           /\ \A j \in Backend : v.data[j] = IF j = b THEN NoQuery ELSE w.data[j]
<1> DEFINE v == unprivate(w, b)
           p == w.data[b]
           r == [w.query[p] EXCEPT !.watch = FALSE]
           u == Put(w, p, r)
<1>0. w \in Worlds
  BY Zenon DEF Held
<1>1. w.data[b] # NoQuery
  BY <1>0, StopFaults, Zenon DEF unprivate, Fault
<1>2. p \in Query /\ w.query[p] \in QueryRecord /\ w.query[q] \in QueryRecord
  BY <1>0, <1>1, WorldFacts, Zenon
<1>3. /\ r \in QueryRecord
      /\ r.life = w.query[p].life /\ r.backend = w.query[p].backend /\ r.state = w.query[p].state
      /\ r.called = w.query[p].called
  BY <1>2, Zenon DEF QueryRecord
<1>4. /\ u \in Worlds /\ u.query[p] = r /\ u.data = w.data /\ u.cleanup = w.cleanup
      /\ \A x \in Query : x # p => u.query[x] = w.query[x]
  <2> HIDE DEF r, p
  <2> QED  BY <1>0, <1>2, <1>3, PutFacts
<1>5. v = [u EXCEPT !.data[b] = NoQuery]
  BY <1>1, Zenon DEF unprivate
<1>6. /\ v.query = u.query /\ v.cleanup = u.cleanup
      /\ \A j \in Backend : v.data[j] = IF j = b THEN NoQuery ELSE u.data[j]
  <2> HIDE DEF u, v
  <2> QED  BY <1>4, <1>5, Zenon DEF Worlds
<1>7. p # q => w.query[p].state \notin Finished
  BY <1>1, Zenon DEF Held, Owned
<1> HIDE DEF v, u, r, p
<1>8. \A x \in Query : /\ v.query[x].life = w.query[x].life /\ v.query[x].backend = w.query[x].backend
                       /\ v.query[x].state = w.query[x].state /\ v.query[x].called = w.query[x].called
                       /\ x # p => v.query[x] = w.query[x]
  BY <1>3, <1>4, <1>6, Zenon
<1>9. w.query[q].backend <= w.query[q].backend
  BY <1>2, ConstantsAssumption DEF QueryRecord, End
<1>10. Spares(w, v, q)
  BY <1>7, <1>8, <1>9, Zenon DEF Spares
<1>11. w.data[b] = q => Alone(w, v, q)
  BY <1>8, Zenon DEF Alone, p
<1> QED  BY <1>4, <1>6, <1>8, <1>10, <1>11, Zenon DEF v

(* cleanup_query releases the state object of its own query, in the        *)
(* configurations that are Able.                                           *)
LEMMA CleanupSpares ==
    ASSUME NEW w, NEW q \in Query, Held(w, q), cleanup_query(w, q).fault = "none"
    PROVE  LET v == cleanup_query(w, q) IN
           /\ Spares(w, v, q)
           /\ v.query[q].backend = w.query[q].backend /\ v.query[q].life = "live"
           /\ v.query[q].called = w.query[q].called
           /\ Tame(w, q) => Calm(v, q) /\ Alone(w, v, q)
<1> DEFINE v == cleanup_query(w, q)
           b == w.query[q].backend
           r == [w.query[q] EXCEPT !.delayed = FALSE, !.request = FALSE, !.result = FALSE]
           w1 == Put(w, q, r)
<1>0. w \in Worlds /\ w.query[q] \in QueryRecord /\ w.query[q].life = "live"
  BY WorldFacts, Zenon DEF Held
<1>1. /\ r \in QueryRecord /\ r.life = w.query[q].life /\ r.backend = b /\ r.called = w.query[q].called
      /\ r.watch = w.query[q].watch /\ b \in 1..End
  BY <1>0, Zenon DEF QueryRecord
<1> HIDE DEF r
<1>2. Held(w1, q) /\ w1 \in Worlds /\ w1.query[q] = r
  BY <1>0, <1>1, PutHeld, PutFacts
<1>3. Spares(w, w1, q) /\ Isolates(w, w1, q)
  BY <1>0, <1>1, PutIsolates, Zenon
<1>4. w1.cleanup = w.cleanup /\ w1.data = w.data
  BY <1>0, <1>1, PutFacts
<1> HIDE DEF w1
<1>5. CASE b = End \/ ~w.cleanup[b]
  <2>1. v = w1
    BY <1>5, Zenon DEF cleanup_query, w1, r
  <2> QED  BY <2>1, <1>0, <1>1, <1>2, <1>3, Zenon DEF Isolates, Tame
<1>6. CASE b # End /\ w.cleanup[b]
  <2>1. v = unprivate(w1, b)
    BY <1>6, Zenon DEF cleanup_query, w1, r
  <2>2. b \in Backend
    BY <1>1, <1>6, BackendRange, Zenon
  <2>3. v \in Worlds
    BY <1>0, CleanupTyped, Zenon
  <2> HIDE DEF v
  <2>4. /\ Spares(w1, v, q)
        /\ v.query[q].backend = w1.query[q].backend /\ v.query[q].life = w1.query[q].life
        /\ v.query[q].called = w1.query[q].called
        /\ w1.data[b] = q => Alone(w1, v, q)
        /\ v.cleanup = w1.cleanup
        /\ \A j \in Backend : v.data[j] = IF j = b THEN NoQuery ELSE w1.data[j]
    BY <1>2, <2>1, <2>2, UnprivateSpares DEF v
  <2>5. Spares(w, v, q)
    BY <1>0, <1>2, <1>3, <2>3, <2>4, SparesTransitive, Zenon
  <2>6. ASSUME Tame(w, q) PROVE Calm(v, q) /\ Alone(w, v, q)
    <3>1. Tame(w1, q) /\ Alone(w, w1, q)
      BY <2>6, <1>3, Zenon DEF Isolates
    <3>2. b \in Stateful
      BY <2>2, <2>6, <1>6, Zenon DEF Tame, Calm
    <3>3. w1.data[b] = q
      BY <3>1, <3>2, <1>0, <1>1, <1>2, Zenon DEF Tame, Own
    <3>4. Alone(w1, v, q)
      BY <2>4, <3>3, Zenon
    <3>5. \A x \in Query : x # q => Own(v, x)
      <4> TAKE x \in Query
      <4> HAVE x # q
      <4>1. Own(w1, x) /\ v.query[x] = w1.query[x]
        BY <3>1, <3>4, Zenon DEF Tame, Calm, Alone
      <4>2. w1.query[x].backend \in Stateful => w1.query[x].backend \in Backend
        BY ConstantsAssumption, Zenon
      <4> QED  BY <4>1, <4>2, <2>4, <3>3, Zenon DEF Own
    <3>6. Calm(v, q)
      BY <3>1, <3>5, <2>4, Zenon DEF Tame, Calm
    <3> QED  BY <3>1, <3>4, <3>6, Zenon DEF Alone
  <2> QED  BY <2>4, <2>5, <2>6, <1>0, <1>1, <1>2, Zenon DEF v
<1> QED  BY <1>5, <1>6, Zenon

(* netresolve_query_free disturbs no other query.                          *)
LEMMA FreeSpares ==
    ASSUME NEW w, NEW q \in Query, Held(w, q), netresolve_query_free(w, q).fault = "none"
    PROVE  LET v == netresolve_query_free(w, q) IN
           Spares(w, v, q) /\ Isolates(w, v, q) /\ v.query[q].life = "freed"
<1> DEFINE v == netresolve_query_free(w, q)
           w1 == cleanup_query(w, q)
           r == [w1.query[q] EXCEPT !.life = "freed", !.state = "NONE", !.paths = FALSE]
<1>0. w \in Worlds /\ w1 \in Worlds /\ w1.query[q] \in QueryRecord
  BY CleanupTyped, WorldFacts, Zenon DEF Held
<1>1. v = Put(w1, q, r)
  BY <1>0, StopFaults, Zenon DEF netresolve_query_free, Fault
<1> HIDE DEF v, w1
<1>2. r \in QueryRecord /\ r.life = "freed" /\ r.backend = w1.query[q].backend
  BY <1>0, Zenon DEF QueryRecord, State
<1> HIDE DEF r
<1>3. v \in Worlds /\ v.fault = w1.fault /\ v.query[q] = r
  BY <1>0, <1>1, <1>2, PutFacts
<1>4. w1.fault = "none"
  BY <1>3, Zenon DEF v
<1>5. /\ Spares(w, w1, q)
      /\ Tame(w, q) => Calm(w1, q) /\ Alone(w, w1, q)
  BY <1>4, CleanupSpares, Zenon DEF w1
<1>6. w1.query[q].backend <= r.backend
  BY <1>0, <1>2, ConstantsAssumption DEF QueryRecord, End
<1>7. Spares(w1, v, q) /\ Alone(w1, v, q)
  BY <1>0, <1>1, <1>2, <1>6, PutSpares, Zenon
<1>8. Calm(w1, q) => Calm(v, q)
  BY <1>0, <1>1, <1>2, PutCalm, Zenon
<1>9. Own(v, q)
  BY <1>2, <1>3, Zenon DEF Own
<1>10. Spares(w, v, q)
  BY <1>0, <1>3, <1>5, <1>7, SparesTransitive, Zenon
<1>11. Isolates(w, v, q)
  BY <1>5, <1>7, <1>8, <1>9, Zenon DEF Isolates, Tame, Alone
<1> QED  BY <1>2, <1>3, <1>10, <1>11, Zenon DEF v

(* Nor does the callback.                                                  *)
LEMMA CallbackSpares ==
    ASSUME NEW w, NEW q \in Query, NEW frees \in BOOLEAN, Good(w), w.query[q].life = "live",
           callback(w, q, frees).fault = "none"
    PROVE  LET v == callback(w, q, frees) IN
           Spares(w, v, q) /\ Isolates(w, v, q)
<1> DEFINE v == callback(w, q, frees)
           r == [w.query[q] EXCEPT !.called = @ + 1]
           w1 == Put(w, q, r)
<1>0. w \in Worlds /\ w.query[q] \in QueryRecord
  BY WorldFacts, Zenon DEF Good
<1>1. /\ r \in QueryRecord /\ r.life = w.query[q].life /\ r.backend = w.query[q].backend
      /\ r.watch = w.query[q].watch
  BY <1>0 DEF QueryRecord
<1> HIDE DEF r
<1>2. w1 \in Worlds /\ Spares(w, w1, q) /\ Isolates(w, w1, q)
  BY <1>0, <1>1, PutFacts, PutIsolates, Zenon
<1>3. Held(w1, q)
  BY <1>1, GoodIsHeld, PutHeld, Zenon
<1>4. v \in Worlds
  BY <1>0, CallbackTyped, Zenon
<1> HIDE DEF w1
<1>5. CASE frees
  <2>1. v = netresolve_query_free(w1, q)
    BY <1>5, Zenon DEF callback, w1, r
  <2>2. Spares(w1, v, q) /\ Isolates(w1, v, q)
    BY <2>1, <1>3, FreeSpares, Zenon
  <2> HIDE DEF v
  <2>3. Spares(w, v, q)
    BY <2>2, <1>0, <1>2, <1>4, SparesTransitive, Zenon
  <2>4. Isolates(w, v, q)
    BY <2>2, <1>2, Zenon DEF Isolates, Alone
  <2> QED  BY <2>3, <2>4, Zenon DEF v
<1>6. CASE ~frees
  <2>1. v = w1
    BY <1>6, Zenon DEF callback, w1, r
  <2> QED  BY <2>1, <1>2, Zenon
<1> QED  BY <1>5, <1>6, Zenon

(* The walk of set_state(SETUP) takes a state object only from a query     *)
(* that waits, and in the configurations that are Able from none.          *)
LEMMA SetupWorldSpares ==
    ASSUME NEW w, NEW q \in Query, Detached(w, q), NEW o \in Plan, NEW i \in 1..End,
           w.query[q].backend <= i,
           \A j \in Visited(w, q, o, i) : SetupFault(w, q, j) = "none"
    PROVE  LET v == SetupWorld(w, q, o, i) IN
           /\ Spares(w, v, q)
           /\ Calm(w, q) => Tame(v, q) /\ Alone(w, v, q)
<1> DEFINE v == SetupWorld(w, q, o, i)
           s == Landing(w, q, o, i)
           able == Supports[w.query[q].type]
           visited == Visited(w, q, o, i)
           r == Settled(w.query[q], s, IF s = End THEN "fail" ELSE o[s])
<1>0. /\ w \in Worlds /\ Owned(w, q) /\ \A j \in Backend : w.data[j] # q
      /\ \A p \in Query : w.query[p] \in QueryRecord
  BY WorldFacts, Zenon DEF Detached, Held
<1>1. r.backend = s
  BY SettledRests, Zenon
<1>2. /\ s # End => s \in Backend /\ s \in visited
      /\ s \in 1..End /\ i <= s
  <2>1. s \in 1..End /\ (s # End => s \in Backend /\ i <= s)
    BY <1>0, LandingTyped, Zenon
  <2>2. s # End => s \in visited
    <3> HIDE DEF s
    <3> QED  BY <2>1, ConstantsAssumption DEF Visited, Backend, s
  <2> HIDE DEF s
  <2>3. i <= End
    BY ConstantsAssumption DEF End
  <2> QED  BY <2>1, <2>2, <2>3, Zenon
<1>3. /\ v.query[q] = r
      /\ \A p \in Query : p # q => v.query[p] =
            IF \E j \in visited \ able : p = w.data[j]
            THEN [w.query[p] EXCEPT !.watch = FALSE] ELSE w.query[p]
      /\ \A j \in Backend : v.data[j] = IF j \notin visited THEN w.data[j]
                                        ELSE IF j = s /\ j \in Stateful THEN q ELSE NoQuery
      /\ \A j \in Backend : v.cleanup[j] = (w.cleanup[j] \/ j \in visited \cap able \cap Stateful)
  BY Zenon DEF SetupWorld
<1>4. visited \subseteq Backend
  BY Zenon DEF Visited
<1>5. Owned(v, NoQuery)
  BY SetupWorldGood, Zenon DEF Good
<1>6. w.query[q].backend <= v.query[q].backend
  <2>1. w.query[q].backend \in Int /\ i \in Int /\ s \in Int
    <3>1. w.query[q].backend \in 1..End
      BY <1>0, Zenon DEF QueryRecord
    <3> HIDE DEF s
    <3> QED  BY <3>1, <1>2, ConstantsAssumption DEF End
  <2> HIDE DEF v, r, s
  <2> QED  BY <2>1, <1>1, <1>2, <1>3
<1>7. \A j \in visited : SetupFault(w, q, j) = "none"
  BY Zenon
<1> HIDE DEF v, r, s, visited
<1>8. Spares(w, v, q)
  <2>1. ASSUME NEW p \in Query, p # q
        PROVE  /\ v.query[p].life = w.query[p].life /\ v.query[p].backend = w.query[p].backend
               /\ w.query[p].state \in Finished => v.query[p] = w.query[p]
               /\ v.query[p].state = w.query[p].state /\ v.query[p].called = w.query[p].called
    <3> HIDE DEF able
    <3>1. CASE \E j \in visited \ able : p = w.data[j]
      <4>1. v.query[p] = [w.query[p] EXCEPT !.watch = FALSE]
        BY <3>1, <2>1, <1>3, Zenon
      <4>2. PICK j \in Backend : p = w.data[j]
        BY <3>1, <1>4, Zenon
      <4>3. w.query[p].state \notin Finished
        BY <4>2, <2>1, <1>0, ConstantsAssumption DEF Owned
      <4>4. w.query[p] \in QueryRecord
        BY <1>0, Zenon
      <4> QED  BY <4>1, <4>3, <4>4, Zenon DEF QueryRecord
    <3>2. CASE ~(\E j \in visited \ able : p = w.data[j])
      BY <3>2, <2>1, <1>3, Zenon
    <3> QED  BY <3>1, <3>2, Zenon
  <2> QED  BY <2>1, <1>6, Zenon DEF Spares
<1>9. ASSUME Calm(w, q) PROVE Tame(v, q) /\ Alone(w, v, q)
  <2>1. Stateful \subseteq able
    <3>1. w.query[q].type \in Type
      BY <1>0, Zenon DEF QueryRecord
    <3> QED  BY <3>1, <1>9, Zenon DEF Calm, Able
  <2>2. Alone(w, v, q)
    <3>1. \A j \in visited \ able : w.data[j] = NoQuery
      BY <2>1, <1>0, <1>4, Zenon DEF Owned
    <3>2. \A p \in Query : ~\E j \in visited \ able : p = w.data[j]
      BY <3>1, ConstantsAssumption, Zenon
    <3> HIDE DEF able
    <3> QED  BY <3>2, <1>3, Zenon DEF Alone
  <2>3. \A j \in Backend : (v.cleanup[j] => j \in Stateful) /\ (v.data[j] # NoQuery => v.cleanup[j])
    <3> TAKE j \in Backend
    <3>1. v.data[j] # NoQuery => v.cleanup[j]
      BY <1>5, Zenon DEF Owned
    <3>2. v.cleanup[j] => j \in Stateful
      BY <1>3, <1>9, Zenon DEF Calm
    <3> QED  BY <3>1, <3>2, Zenon
  <2>4. ASSUME NEW p \in Query, p # q PROVE Own(v, p)
    <3>1. SUFFICES ASSUME v.query[p].life = "live", v.query[p].backend \in Stateful
                   PROVE  v.data[v.query[p].backend] = p
      BY Zenon DEF Own
    <3> DEFINE c == w.query[p].backend
    <3>2. v.query[p].backend = c /\ c \in Stateful /\ c \in Backend /\ c \in able /\ w.data[c] = p
      BY <3>1, <2>1, <2>2, <2>4, <1>9, ConstantsAssumption, Zenon DEF Alone, Calm, Own
    <3> HIDE DEF c
    <3>3. c \notin visited
      <4>1. c \in visited => SetupFault(w, q, c) = "assert"
        BY <3>2, ConstantsAssumption, Zenon DEF SetupFault
      <4> QED  BY <4>1, <1>7, Zenon
    <3> QED  BY <3>2, <3>3, <1>3, Zenon
  <2>5. Own(v, q)
    <3>1. s \in Stateful => s \in visited /\ s \in Backend
      BY <1>2, ConstantsAssumption, BackendRange, Zenon
    <3> QED  BY <3>1, <1>1, <1>3, Zenon DEF Own
  <2>6. Able
    BY <1>9, Zenon DEF Calm
  <2> QED  BY <2>2, <2>3, <2>4, <2>5, <2>6, Zenon DEF Tame, Calm
<1> QED  BY <1>8, <1>9, Zenon DEF v

(* set_state(SETUP) of a query that holds nothing.                         *)
LEMMA SetupSpares ==
    ASSUME NEW w, NEW q \in Query, Detached(w, q), NEW o \in Plan, NEW i \in 1..End,
           w.query[q].backend <= i,
           NEW frees \in BOOLEAN, set_state_SETUP(w, q, o, i, frees).fault = "none"
    PROVE  LET v == set_state_SETUP(w, q, o, i, frees) IN
           /\ Spares(w, v, q)
           /\ Calm(w, q) => Tame(v, q) /\ Alone(w, v, q)
<1> DEFINE v == set_state_SETUP(w, q, o, i, frees)
           u == SetupWorld(w, q, o, i)
           c == callback(u, q, frees)
<1>0. w \in Worlds
  BY Zenon DEF Detached, Held
<1>1. ~\E f \in Fault \ {"none"} : v = Stop(w, f)
  BY <1>0, StopFaults, Zenon
<1> HIDE DEF v
<1>2. u \in Worlds /\ c \in Worlds
  BY <1>0, SetupWorldTyped, CallbackTyped, Zenon
<1>3. /\ \A j \in Visited(w, q, o, i) : SetupFault(w, q, j) = "none"
      /\ v = u \/ v = c \/ v = Touch(c, q)
  <2> HIDE DEF u, c
  <2> QED BY <1>0, <1>1, SetupCases, Zenon DEF v, c, u
<1>4. Good(u) /\ u.query[q].life = "live"
  BY <1>3, SetupWorldGood, Zenon
<1>5. /\ Spares(w, u, q)
      /\ Calm(w, q) => Tame(u, q) /\ Alone(w, u, q)
  BY <1>3, SetupWorldSpares, Zenon
<1>6. v.fault = "none"
  BY Zenon DEF v
<1> HIDE DEF u
<1>7. ASSUME v = c
      PROVE  Spares(w, v, q) /\ (Calm(w, q) => Tame(v, q) /\ Alone(w, v, q))
  <2>1. Spares(u, c, q) /\ Isolates(u, c, q)
    BY <1>4, <1>6, <1>7, CallbackSpares, Zenon
  <2> HIDE DEF c
  <2>2. Spares(w, c, q)
    BY <2>1, <1>0, <1>2, <1>5, SparesTransitive, Zenon
  <2> QED  BY <2>1, <2>2, <1>5, <1>7, Zenon DEF Isolates, Alone
<1>8. v = u \/ v = c
  <2> HIDE DEF c
  <2> QED  BY <1>2, <1>3, <1>6, TouchGood, Zenon
<1> QED  BY <1>5, <1>7, <1>8, Zenon DEF v

(* set_state(DONE): the cleanup, the way to the next backend, the callback.*)
LEMMA DoneSpares ==
    ASSUME NEW w, NEW q \in Query, Held(w, q), NEW o \in Plan, NEW frees \in BOOLEAN,
           set_state_DONE(w, q, o, frees).fault = "none"
    PROVE  LET v == set_state_DONE(w, q, o, frees) IN
           Spares(w, v, q) /\ Isolates(w, v, q)
<1> DEFINE v == set_state_DONE(w, q, o, frees)
           r == [w.query[q] EXCEPT !.state = "DONE"]
<1>0. w \in Worlds /\ w.query[q] \in QueryRecord
  BY WorldFacts, Zenon DEF Held
<1>1. PICK w0, w1, w2 : \E m \in 1..End : DoneStep(w, q, o, frees, w0, w1, m, w2)
  BY DoneSteps, Zenon
<1>2. PICK m \in 1..End : DoneStep(w, q, o, frees, w0, w1, m, w2)
  BY <1>1, Zenon
<1> DEFINE e == [w1.query[q] EXCEPT !.backend = End]
<1> HIDE DEF v
<1>3. /\ w0 = Put(w, q, r) /\ w1 = cleanup_query(w0, q)
      /\ w2 = IF m = End THEN Put(w1, q, e) ELSE set_state_SETUP(w1, q, o, m, frees)
      /\ v = callback(w2, q, frees)
      /\ w1.fault = "none" /\ w2.fault = "none" /\ Held(w0, q) /\ Detached(w1, q)
      /\ w1.query[q].backend = w.query[q].backend /\ w.query[q].backend <= m
      /\ Good(w2) /\ w2.query[q].life = "live"
  BY <1>2, Zenon DEF DoneStep, v
<1>4. v.fault = "none"
  BY Zenon DEF v
<1>5. r \in QueryRecord /\ r.backend = w.query[q].backend /\ r.life = w.query[q].life
  BY <1>0, Zenon DEF QueryRecord, State
<1> HIDE DEF r
<1>6. w0 \in Worlds /\ Spares(w, w0, q) /\ Isolates(w, w0, q)
  BY <1>0, <1>3, <1>5, PutFacts, PutIsolates, Zenon
<1>7. /\ Spares(w0, w1, q)
      /\ Tame(w0, q) => Calm(w1, q) /\ Alone(w0, w1, q)
  BY <1>3, CleanupSpares, Zenon
<1>8. w1 \in Worlds /\ w1.query[q] \in QueryRecord
  BY <1>3, WorldFacts, Zenon DEF Detached, Held
<1>9. w2 \in Worlds
  BY <1>3, Zenon DEF Good
<1>10. /\ Spares(w1, w2, q)
       /\ Calm(w1, q) => Tame(w2, q) /\ Alone(w1, w2, q)
  <2>1. CASE m = End
    <3>1. e \in QueryRecord /\ e.backend = End /\ w1.query[q].backend <= e.backend
      BY <2>1, <1>3, <1>8, BackendRange DEF QueryRecord
    <3> HIDE DEF e
    <3>2. w2 = Put(w1, q, e)
      BY <2>1, <1>3, Zenon
    <3>3. Spares(w1, w2, q) /\ Alone(w1, w2, q) /\ (Calm(w1, q) => Calm(w2, q))
      BY <3>1, <3>2, <1>8, PutSpares, PutCalm, Zenon
    <3>4. w2.query[q] = e
      BY <3>1, <3>2, <1>8, PutFacts, Zenon
    <3>5. Own(w2, q)
      BY <3>1, <3>4, BackendRange, ConstantsAssumption, Zenon DEF Own
    <3> QED  BY <3>3, <3>5, Zenon DEF Tame
  <2>2. CASE m # End
    <3>1. w2 = set_state_SETUP(w1, q, o, m, frees)
      BY <2>2, <1>3, Zenon
    <3>2. w1.query[q].backend <= m
      BY <1>3, Zenon
    <3> QED  BY <3>1, <3>2, <1>3, SetupSpares, Zenon
  <2> QED  BY <2>1, <2>2, Zenon
<1>11. Spares(w2, v, q) /\ Isolates(w2, v, q)
  BY <1>3, <1>4, CallbackSpares, Zenon
<1>12. v \in Worlds
  BY <1>3, <1>9, CallbackTyped, Zenon
<1>13. Spares(w, v, q)
  <2>1. Spares(w, w1, q)
    BY <1>0, <1>6, <1>7, <1>8, SparesTransitive, Zenon
  <2>2. Spares(w, w2, q)
    BY <2>1, <1>0, <1>8, <1>9, <1>10, SparesTransitive, Zenon
  <2> QED  BY <2>2, <1>0, <1>9, <1>11, <1>12, SparesTransitive, Zenon
<1>14. Isolates(w, v, q)
  BY <1>6, <1>7, <1>10, <1>11, Zenon DEF Isolates, Alone
<1> QED  BY <1>13, <1>14, Zenon DEF v

(* set_state(FAILED), likewise.                                            *)
LEMMA FailedSpares ==
    ASSUME NEW w, NEW q \in Query, Held(w, q), NEW o \in Plan, NEW frees \in BOOLEAN,
           set_state_FAILED(w, q, o, frees).fault = "none"
    PROVE  LET v == set_state_FAILED(w, q, o, frees) IN
           Spares(w, v, q) /\ Isolates(w, v, q)
<1> DEFINE v == set_state_FAILED(w, q, o, frees)
           r == [w.query[q] EXCEPT !.state = "FAILED"]
           i == w.query[q].backend + 1
<1>0. w \in Worlds /\ w.query[q] \in QueryRecord
  BY WorldFacts, Zenon DEF Held
<1>1. PICK w0, w1, w2 : FailedStep(w, q, o, frees, w0, w1, w2)
  BY FailedSteps, Zenon
<1> DEFINE e == [w1.query[q] EXCEPT !.backend = End]
<1> HIDE DEF v, i
<1>2. /\ w0 = Put(w, q, r) /\ w1 = cleanup_query(w0, q)
      /\ w1.fault = "none" /\ Held(w0, q) /\ Detached(w1, q)
      /\ w1.query[q].backend = w.query[q].backend
      /\ \/ i \in 1..End /\ v = set_state_SETUP(w1, q, o, i, frees)
         \/ /\ w2 = Put(w1, q, e) /\ Good(w2) /\ w2.query[q].life = "live"
            /\ v = callback(w2, q, frees)
  BY <1>1, Zenon DEF FailedStep, v, i
<1>3. v.fault = "none"
  BY Zenon DEF v
<1>4. r \in QueryRecord /\ r.backend = w.query[q].backend /\ r.life = w.query[q].life
  BY <1>0, Zenon DEF QueryRecord, State
<1> HIDE DEF r
<1>5. w0 \in Worlds /\ Spares(w, w0, q) /\ Isolates(w, w0, q)
  BY <1>0, <1>2, <1>4, PutFacts, PutIsolates, Zenon
<1>6. /\ Spares(w0, w1, q)
      /\ Tame(w0, q) => Calm(w1, q) /\ Alone(w0, w1, q)
  BY <1>2, CleanupSpares, Zenon
<1>7. w1 \in Worlds /\ w1.query[q] \in QueryRecord
  BY <1>2, WorldFacts, Zenon DEF Detached, Held
<1>8. v \in Worlds
  BY <1>0, FailedTyped, Zenon DEF v
<1>9. /\ Spares(w1, v, q)
      /\ Calm(w1, q) => Tame(v, q) /\ Alone(w1, v, q)
  <2>1. CASE i \in 1..End /\ v = set_state_SETUP(w1, q, o, i, frees)
    <3>1. w1.query[q].backend <= i
      BY <1>2, <1>7, ConstantsAssumption DEF i, QueryRecord, End
    <3> HIDE DEF e
    <3> QED  BY <2>1, <3>1, <1>2, <1>3, SetupSpares, Zenon
  <2>2. CASE /\ w2 = Put(w1, q, e) /\ Good(w2) /\ w2.query[q].life = "live"
             /\ v = callback(w2, q, frees)
    <3>1. e \in QueryRecord /\ e.backend = End /\ w1.query[q].backend <= e.backend
      BY <1>7, BackendRange, ConstantsAssumption DEF QueryRecord, End
    <3> HIDE DEF e
    <3>2. Spares(w1, w2, q) /\ Alone(w1, w2, q) /\ (Calm(w1, q) => Calm(w2, q))
      BY <2>2, <3>1, <1>7, PutSpares, PutCalm, Zenon
    <3>3. w2.query[q] = e
      BY <2>2, <3>1, <1>7, PutFacts, Zenon
    <3>4. Own(w2, q)
      BY <3>1, <3>3, BackendRange, ConstantsAssumption, Zenon DEF Own
    <3>5. Spares(w2, v, q) /\ Isolates(w2, v, q)
      BY <2>2, <1>3, CallbackSpares, Zenon
    <3>6. Spares(w1, v, q)
      BY <2>2, <3>2, <3>5, <1>7, <1>8, SparesTransitive, Zenon DEF Good
    <3> QED  BY <3>2, <3>4, <3>5, <3>6, Zenon DEF Tame, Isolates, Alone
  <2> QED  BY <2>1, <2>2, <1>2, Zenon
<1>10. Spares(w, v, q)
  <2>1. Spares(w, w1, q)
    BY <1>0, <1>5, <1>6, <1>7, SparesTransitive, Zenon
  <2> QED  BY <2>1, <1>0, <1>7, <1>8, <1>9, SparesTransitive, Zenon
<1>11. Isolates(w, v, q)
  BY <1>5, <1>6, <1>9, Zenon DEF Isolates, Alone
<1> QED  BY <1>10, <1>11, Zenon DEF v

(* What netresolve_query_dispatch does after a watch's callback.           *)
LEMMA AfterSpares ==
    ASSUME NEW w \in Worlds, NEW q \in Query, NEW o \in Plan, NEW frees \in BOOLEAN,
           w.query[q].life # "unused",
           Good(w) \/ (Held(w, q) /\ w.query[q].state \in {"RESOLVED", "ERROR"}),
           after_dispatch(w, q, o, frees).fault = "none"
    PROVE  LET v == after_dispatch(w, q, o, frees) IN
           Spares(w, v, q) /\ Isolates(w, v, q) /\ v.query[q].life # "unused"
<1> DEFINE v == after_dispatch(w, q, o, frees)
           w1 == Touch(w, q)
           d == set_state_DONE(w1, q, o, frees)
           w2 == IF w1.query[q].state = "RESOLVED" THEN Touch(d, q) ELSE w1
<1>1. w1 \in Worlds /\ d \in Worlds /\ w2 \in Worlds
  <2>1. w1 \in Worlds
    BY TouchTyped, Zenon
  <2> HIDE DEF w1
  <2>2. d \in Worlds
    BY <2>1, DoneTyped, Zenon
  <2> HIDE DEF d
  <2> QED  BY <2>1, <2>2, TouchTyped, Zenon
<1>2. v = IF w2.query[q].state = "ERROR" THEN set_state_FAILED(w2, q, o, frees) ELSE w2
  BY Zenon DEF after_dispatch
<1>3. v \in Worlds
  BY AfterTyped, Zenon
<1> HIDE DEF v, w2, d, w1
<1>4. v.fault = "none" /\ w2.fault = "none"
  BY <1>1, <1>2, FailedKeepsFault, Zenon DEF v
<1>5. w1 = w /\ w.query[q].life = "live"
  <2>1. w1.fault = "none"
    <3>1. CASE w1.query[q].state = "RESOLVED"
      <4>1. d.fault = "none"
        BY <3>1, <1>1, <1>4, TouchGood, Zenon DEF w2
      <4> QED  BY <4>1, <1>1, DoneKeepsFault, Zenon DEF d
    <3>2. CASE w1.query[q].state # "RESOLVED"
      BY <3>2, <1>4, Zenon DEF w2
    <3> QED  BY <3>1, <3>2, Zenon
  <2>2. w1 = w /\ w.query[q].life # "freed"
    BY <2>1, TouchGood, Zenon DEF w1
  <2> QED  BY <2>2, WorldFacts, Zenon DEF QueryRecord
<1>6. Held(w, q)
  BY <1>5, GoodIsHeld, Zenon
<1>7. Held(w2, q) /\ Spares(w, w2, q) /\ Isolates(w, w2, q)
  <2>1. CASE w1.query[q].state = "RESOLVED"
    <3>1. d = w2 /\ d.fault = "none" /\ d.query[q].life # "freed"
      BY <2>1, <1>1, <1>4, TouchGood, Zenon DEF w2
    <3>2. Good(d) /\ d.query[q].life # "unused"
      BY <3>1, <1>5, <1>6, DoneGood, Zenon DEF d
    <3>3. d.query[q].life = "live"
      BY <3>1, <3>2, <1>1, WorldFacts, Zenon DEF QueryRecord
    <3>4. Held(w2, q)
      BY <3>1, <3>2, <3>3, GoodIsHeld, Zenon
    <3>5. Spares(w, d, q) /\ Isolates(w, d, q)
      BY <3>1, <1>5, <1>6, DoneSpares, Zenon DEF d
    <3> QED  BY <3>1, <3>4, <3>5, Zenon
  <2>2. CASE w1.query[q].state # "RESOLVED"
    <3>1. w2 = w
      BY <2>2, <1>5, Zenon DEF w2
    <3>2. w.query[q].backend <= w.query[q].backend
      <4>1. w.query[q] \in QueryRecord
        BY WorldFacts, Zenon
      <4> QED  BY <4>1, ConstantsAssumption DEF QueryRecord, End
    <3> QED  BY <3>1, <3>2, <1>6, Zenon DEF Spares, Isolates, Alone
  <2> QED  BY <2>1, <2>2, Zenon
<1>8. CASE w2.query[q].state = "ERROR"
  <2>1. v = set_state_FAILED(w2, q, o, frees)
    BY <1>2, <1>8, Zenon
  <2>2. Spares(w2, v, q) /\ Isolates(w2, v, q)
    BY <2>1, <1>4, <1>7, FailedSpares, Zenon
  <2>3. Spares(w, v, q)
    BY <2>2, <1>1, <1>3, <1>7, SparesTransitive, Zenon
  <2>4. Isolates(w, v, q)
    BY <2>2, <1>7, Zenon DEF Isolates, Alone
  <2>5. v.query[q].life # "unused"
    BY <2>1, <1>4, <1>7, FailedGood, Zenon
  <2> QED  BY <2>3, <2>4, <2>5, Zenon DEF v
<1>9. CASE w2.query[q].state # "ERROR"
  <2>1. v = w2
    BY <1>2, <1>9, Zenon
  <2> QED  BY <2>1, <1>7, Zenon DEF v, Held
<1> QED  BY <1>8, <1>9, Zenon

(* netresolve_backend_add_path.                                            *)
LEMMA AddPathSpares ==
    ASSUME NEW w \in Worlds, NEW q \in Query, NEW o \in Plan, NEW frees \in BOOLEAN,
           add_path(w, q, o, frees).fault = "none"
    PROVE  LET v == add_path(w, q, o, frees) IN
           Spares(w, v, q) /\ Isolates(w, v, q)
<1> DEFINE v == add_path(w, q, o, frees)
           t == ResultTimeout > 0 /\ netresolve_timeout_add_ms(ResultTimeout)
           r == [w.query[q] EXCEPT !.paths = TRUE]
           more == [r EXCEPT !.state = "WAITING_MORE", !.result = t]
           new == IF r.state # "WAITING" THEN r ELSE more
<1>0. w.query[q] \in QueryRecord
  BY WorldFacts, Zenon
<1>1. r \in QueryRecord /\ r.life = w.query[q].life /\ r.backend = w.query[q].backend
  BY <1>0, Zenon DEF QueryRecord
<1>2. t \in BOOLEAN
  <2> HIDE DEF r
  <2> QED  BY TimersRun, Zenon
<1> HIDE DEF r, t
<1>3. more \in QueryRecord /\ more.life = r.life /\ more.backend = r.backend
  BY <1>1, <1>2, Zenon DEF QueryRecord, State
<1> HIDE DEF more
<1>4. Put(w, q, more) \in Worlds
  BY <1>3, PutFacts, Zenon
<1>5. set_state_DONE(Put(w, q, more), q, o, frees) \in Worlds
  BY <1>4, DoneTyped, Zenon
<1>6. v = Put(w, q, new)
  <2>1. Stop(set_state_DONE(Put(w, q, more), q, o, frees), "freed_priv").fault # "none"
    BY <1>5, StopFaults, Zenon DEF Fault
  <2> QED  BY <2>1, Zenon DEF add_path, more, r, t
<1>7. new \in QueryRecord /\ new.life = w.query[q].life /\ new.backend = w.query[q].backend
  BY <1>1, <1>3, Zenon
<1> HIDE DEF new, v
<1> QED  BY <1>6, <1>7, PutIsolates, Zenon DEF v
-----------------------------------------------------------------------------
(* The calls of the callback.                                              *)

(* The calls before the query finished, the mandatory backends that a      *)
(* query at backend b may have come by, and CallbackOnce for one query.    *)
Early(r) == r.called - (IF r.state \in Finished THEN 1 ELSE 0)

Passed(b) == {m \in Mandatory : 1 < m /\ m <= b}

Counted(r) == r.life = "live" => Early(r) \in 0..Cardinality(Passed(r.backend))

(* A query further down the list may have come by more of them, and has if *)
(* there is one in between.                                                *)
LEMMA PassedGrows ==
    ASSUME NEW b \in 1..End, NEW c \in 1..End, b <= c
    PROVE  /\ Cardinality(Passed(b)) \in Nat /\ Cardinality(Passed(c)) \in Nat
           /\ Cardinality(Passed(b)) <= Cardinality(Passed(c))
           /\ \A m \in Mandatory : b < m /\ m <= c => Cardinality(Passed(b)) + 1 <= Cardinality(Passed(c))
<1>1. b \in Int /\ c \in Int /\ 1 <= b /\ \A m \in Mandatory : m \in Int
  BY ConstantsAssumption DEF End, Backend
<1>2. IsFiniteSet(Passed(b)) /\ IsFiniteSet(Passed(c))
  <2>1. IsFiniteSet(Backend)
    BY ConstantsAssumption, FS_Interval DEF Backend
  <2>2. Passed(b) \subseteq Backend /\ Passed(c) \subseteq Backend
    BY ConstantsAssumption, Zenon DEF Passed
  <2> QED  BY <2>1, <2>2, FS_Subset, Zenon
<1>3. Passed(b) \subseteq Passed(c)
  BY <1>1 DEF Passed
<1>4. Cardinality(Passed(b)) \in Nat /\ Cardinality(Passed(c)) \in Nat
  BY <1>2, FS_CardinalityType, Zenon
<1>5. ASSUME NEW m \in Mandatory, b < m, m <= c
      PROVE  Cardinality(Passed(b)) + 1 <= Cardinality(Passed(c))
  <2>1. m \notin Passed(b) /\ m \in Passed(c)
    BY <1>1, <1>5 DEF Passed
  <2>2. Passed(b) \cup {m} \subseteq Passed(c)
    BY <1>3, <2>1, Zenon
  <2>3. IsFiniteSet(Passed(b) \cup {m}) /\ Cardinality(Passed(b) \cup {m}) = Cardinality(Passed(b)) + 1
    BY <1>2, <2>1, FS_AddElement, Zenon
  <2> QED  BY <1>2, <2>2, <2>3, FS_Subset
<1>6. Cardinality(Passed(b)) <= Cardinality(Passed(c))
  BY <1>2, <1>3, FS_Subset, Zenon
<1> QED  BY <1>4, <1>5, <1>6, Zenon

(* Two records of the same standing.                                       *)
LEMMA CountedSame ==
    ASSUME NEW r, NEW s, Counted(r), s.life = r.life, s.called = r.called, s.backend = r.backend,
           s.state \in Finished <=> r.state \in Finished
    PROVE  Counted(s)
BY Zenon DEF Counted, Early

(* The callback, if it does not free the query, is counted.                *)
LEMMA CallbackCalled ==
    ASSUME NEW w, NEW q \in Query, NEW frees \in BOOLEAN, Good(w), w.query[q].life = "live",
           callback(w, q, frees).fault = "none"
    PROVE  LET v == callback(w, q, frees) IN
           v.query[q].life = "live" => /\ v.query[q].called = w.query[q].called + 1
                                       /\ v.query[q].state = w.query[q].state
                                       /\ v.query[q].backend = w.query[q].backend
<1> DEFINE v == callback(w, q, frees)
           r == [w.query[q] EXCEPT !.called = @ + 1]
           w1 == Put(w, q, r)
<1>0. w \in Worlds /\ w.query[q] \in QueryRecord
  BY WorldFacts, Zenon DEF Good
<1>1. /\ r \in QueryRecord /\ r.life = w.query[q].life /\ r.backend = w.query[q].backend
      /\ r.watch = w.query[q].watch /\ r.state = w.query[q].state /\ r.called = w.query[q].called + 1
  BY <1>0 DEF QueryRecord
<1> HIDE DEF r
<1>2. Held(w1, q) /\ w1.query[q] = r
  BY <1>0, <1>1, GoodIsHeld, PutHeld, PutFacts
<1> HIDE DEF w1
<1>3. CASE frees
  <2>1. v = netresolve_query_free(w1, q)
    BY <1>3, Zenon DEF callback, w1, r
  <2>2. v.query[q].life = "freed"
    BY <2>1, <1>2, FreeSpares, Zenon
  <2> QED  BY <2>2, Zenon
<1>4. CASE ~frees
  <2>1. v = w1
    BY <1>4, Zenon DEF callback, w1, r
  <2> QED  BY <2>1, <1>1, <1>2, Zenon
<1> QED  BY <1>3, <1>4, Zenon

(* set_state(SETUP) calls the callback just if it finishes the query.      *)
LEMMA SetupCalled ==
    ASSUME NEW w, NEW q \in Query, Detached(w, q), NEW o \in Plan, NEW i \in 1..End,
           NEW frees \in BOOLEAN, set_state_SETUP(w, q, o, i, frees).fault = "none"
    PROVE  LET v == set_state_SETUP(w, q, o, i, frees) IN
           v.query[q].life = "live" => /\ Early(v.query[q]) = w.query[q].called
                                       /\ i <= v.query[q].backend
<1> DEFINE v == set_state_SETUP(w, q, o, i, frees)
           u == SetupWorld(w, q, o, i)
           c == callback(u, q, frees)
           s == Landing(w, q, o, i)
           r == Settled(w.query[q], s, IF s = End THEN "fail" ELSE o[s])
<1>0. w \in Worlds /\ w.query[q] \in QueryRecord
  BY WorldFacts, Zenon DEF Detached, Held
<1>1. ~\E f \in Fault \ {"none"} : v = Stop(w, f)
  BY <1>0, StopFaults, Zenon
<1>2. v.fault = "none"
  BY Zenon
<1> HIDE DEF v
<1>3. u \in Worlds /\ c \in Worlds
  BY <1>0, SetupWorldTyped, CallbackTyped, Zenon
<1>4. /\ \A j \in Visited(w, q, o, i) : SetupFault(w, q, j) = "none"
      /\ \/ s # End /\ v = u
         \/ s = End /\ (v = c \/ v = Touch(c, q))
  <2> HIDE DEF u, c
  <2> QED BY <1>0, <1>1, SetupCases, Zenon DEF v, c, u
<1>5. Good(u) /\ u.query[q].life = "live"
  BY <1>4, SetupWorldGood, Zenon
<1>6. /\ r.backend = s /\ (s # End => r.state \notin Finished)
  BY SettledRests, Zenon
<1>7. u.query[q] = r
  BY Zenon DEF SetupWorld
<1>8. s \in 1..End /\ i <= s
  <2>1. s \in 1..End /\ (s # End => i <= s)
    BY <1>0, LandingTyped, Zenon
  <2> HIDE DEF s
  <2>2. i <= End
    BY ConstantsAssumption DEF End
  <2> QED  BY <2>1, <2>2, Zenon
<1>9. r.called = w.query[q].called /\ (s = End => r.state = "FAILED")
  <2> DEFINE x == IF s = End THEN "fail" ELSE o[s]
  <2>1. s = End => x = "fail"
    BY Zenon
  <2> HIDE DEF s, x
  <2>2. r = Settled(w.query[q], s, x)
    BY Zenon DEF x
  <2>3. /\ r.called = w.query[q].called
        /\ r.state = CASE x = "fail" -> "FAILED"
                       [] x \in {"found", "empty"} -> "RESOLVED"
                       [] x \in {"wait", "idle"} -> "WAITING"
    <3> HIDE DEF r
    <3> QED  BY <1>0, <2>2, Zenon DEF Settled, QueryRecord
  <2> HIDE DEF r
  <2>4. x = "fail" => r.state = "FAILED"
    BY <2>3, Zenon
  <2> QED  BY <2>1, <2>3, <2>4, Zenon
<1> HIDE DEF u, r, s
<1>10. w.query[q].called \in Nat
  BY <1>0, Zenon DEF QueryRecord
<1>11. CASE s # End
  <2>1. v.query[q] = r
    BY <1>4, <1>7, <1>11, Zenon
  <2> QED  BY <1>6, <1>8, <1>9, <1>10, <1>11, <2>1 DEF v, Early
<1>12. CASE s = End
  <2>1. v = c
    <3> HIDE DEF c
    <3> QED  BY <1>2, <1>3, <1>4, <1>12, TouchGood, Zenon
  <2>2. c.query[q].life = "live" => /\ c.query[q].called = r.called + 1
                                    /\ c.query[q].state = r.state /\ c.query[q].backend = s
    BY <1>2, <1>5, <1>6, <1>7, <2>1, CallbackCalled, Zenon
  <2> HIDE DEF c
  <2> QED  BY <1>8, <1>9, <1>10, <1>12, <2>1, <2>2 DEF v, Early, Finished
<1> QED  BY <1>11, <1>12, Zenon

(* set_state(DONE) calls it once more than that, and the call is the one   *)
(* of the finish, or a mandatory backend has come into the count.          *)
LEMMA DoneCounts ==
    ASSUME NEW w, NEW q \in Query, Held(w, q), NEW o \in Plan, NEW frees \in BOOLEAN,
           set_state_DONE(w, q, o, frees).fault = "none",
           w.query[q].state \notin Finished, Counted(w.query[q])
    PROVE  Counted(set_state_DONE(w, q, o, frees).query[q])
<1> DEFINE v == set_state_DONE(w, q, o, frees)
           b == w.query[q].backend
           n == w.query[q].called
           r == [w.query[q] EXCEPT !.state = "DONE"]
<1>0. w \in Worlds /\ w.query[q] \in QueryRecord /\ w.query[q].life = "live"
  BY WorldFacts, Zenon DEF Held
<1>1. PICK w0, w1, w2 : \E m \in 1..End : DoneStep(w, q, o, frees, w0, w1, m, w2)
  BY DoneSteps, Zenon
<1>2. PICK m \in 1..End : DoneStep(w, q, o, frees, w0, w1, m, w2)
  BY <1>1, Zenon
<1> DEFINE e == [w1.query[q] EXCEPT !.backend = End]
<1>3. v.fault = "none"
  BY Zenon
<1> HIDE DEF v
<1>4. /\ w0 = Put(w, q, r) /\ w1 = cleanup_query(w0, q)
      /\ w2 = IF m = End THEN Put(w1, q, e) ELSE set_state_SETUP(w1, q, o, m, frees)
      /\ v = callback(w2, q, frees)
      /\ w1.fault = "none" /\ w2.fault = "none" /\ Held(w0, q) /\ Detached(w1, q)
      /\ w1.query[q].backend = b
      /\ m # End => m \in Mandatory /\ b < m
      /\ Good(w2) /\ w2.query[q].life = "live"
  BY <1>2, Zenon DEF DoneStep, v, b
<1>5. n \in Nat /\ b \in 1..End /\ n \in 0..Cardinality(Passed(b))
  BY <1>0 DEF QueryRecord, Counted, Early
<1>6. r \in QueryRecord /\ r.called = n /\ r.state = "DONE"
  BY <1>0, Zenon DEF QueryRecord, State
<1> HIDE DEF n, b, r
<1>7. w0.query[q] = r
  BY <1>0, <1>4, <1>6, PutFacts, Zenon
<1>8. w1.query[q].called = n /\ w1.query[q].state = "DONE"
  <2>1. Held(w0, q) /\ w1 = cleanup_query(w0, q) /\ w1.fault = "none"
    BY <1>4, Zenon
  <2>2. w1.query[q].called = w0.query[q].called
    BY <2>1, CleanupSpares, Zenon
  <2>3. w1.query[q].state = w0.query[q].state
    BY <2>1, CleanupDetaches, Zenon
  <2> QED  BY <1>6, <1>7, <2>2, <2>3, Zenon
<1>9. w1 \in Worlds /\ w1.query[q] \in QueryRecord /\ w2 \in Worlds /\ w2.query[q] \in QueryRecord
  BY <1>4, WorldFacts, ZenonT(40) DEF Detached, Held, Good
<1>10. v.query[q].life = "live" => /\ v.query[q].called = w2.query[q].called + 1
                                   /\ v.query[q].state = w2.query[q].state
                                   /\ v.query[q].backend = w2.query[q].backend
  BY <1>3, <1>4, CallbackCalled
<1>11. w2.query[q].called \in Nat /\ w2.query[q].backend \in 1..End
  BY <1>9, Zenon DEF QueryRecord
<1>12. End \in 1..End /\ b <= End /\ \A x \in 1..End : x \in Int
  BY <1>5, ConstantsAssumption DEF End
<1>13. CASE m = End
  <2>1. w2.query[q] = e
    <3>1. e \in QueryRecord
      BY <1>9, <1>12, Zenon DEF QueryRecord
    <3> HIDE DEF e
    <3> QED  BY <1>4, <1>9, <1>13, <3>1, PutFacts
  <2>2. e.called = n /\ e.state = "DONE" /\ e.backend = End
    BY <1>8, <1>9, Zenon DEF QueryRecord
  <2> HIDE DEF e
  <2>3. Cardinality(Passed(b)) \in Nat /\ Cardinality(Passed(b)) <= Cardinality(Passed(End))
    /\ Cardinality(Passed(End)) \in Nat
    BY <1>5, <1>12, PassedGrows, Zenon
  <2>4. v.query[q].life = "live" => Early(v.query[q]) = n /\ v.query[q].backend = End
    BY <1>5, <1>10, <2>1, <2>2 DEF Early, Finished
  <2> QED  BY <1>5, <2>3, <2>4, SMTT(40) DEF Counted, v
<1>14. CASE m # End
  <2>1. w2 = set_state_SETUP(w1, q, o, m, frees)
    BY <1>4, <1>14, Zenon
  <2>2. Early(w2.query[q]) = n /\ m <= w2.query[q].backend
    <3>1. Detached(w1, q) /\ w2.fault = "none" /\ w2.query[q].life = "live"
      BY <1>4, Zenon
    <3>2. set_state_SETUP(w1, q, o, m, frees).fault = "none"
      BY <2>1, <3>1, Zenon
    <3> QED  BY <1>8, <2>1, <3>1, <3>2, SetupCalled, Zenon
  <2> DEFINE c == w2.query[q].backend
  <2>3. m \in Mandatory /\ b < m /\ m <= c /\ b <= c /\ c \in 1..End
    <3>1. m \in Mandatory /\ b < m
      BY <1>4, <1>14, Zenon
    <3> QED  BY <1>5, <1>11, <1>12, <2>2, <3>1
  <2>4. v.query[q].life = "live" => Early(v.query[q]) = n + 1 /\ v.query[q].backend = c
    BY <1>5, <1>10, <1>11, <2>2 DEF Early
  <2> HIDE DEF c
  <2>5. /\ Cardinality(Passed(b)) + 1 <= Cardinality(Passed(c))
        /\ Cardinality(Passed(b)) \in Nat /\ Cardinality(Passed(c)) \in Nat
    BY <1>5, <2>3, PassedGrows, Zenon
  <2> QED  BY <1>5, <2>4, <2>5 DEF Counted, v
<1> QED  BY <1>13, <1>14, Zenon

(* set_state(FAILED) calls it just if it finishes the query.               *)
LEMMA FailedCounts ==
    ASSUME NEW w, NEW q \in Query, Held(w, q), NEW o \in Plan, NEW frees \in BOOLEAN,
           set_state_FAILED(w, q, o, frees).fault = "none",
           w.query[q].state \notin Finished, Counted(w.query[q])
    PROVE  Counted(set_state_FAILED(w, q, o, frees).query[q])
<1> DEFINE v == set_state_FAILED(w, q, o, frees)
           b == w.query[q].backend
           n == w.query[q].called
           i == b + 1
           r == [w.query[q] EXCEPT !.state = "FAILED"]
<1>0. w \in Worlds /\ w.query[q] \in QueryRecord /\ w.query[q].life = "live"
  BY WorldFacts, Zenon DEF Held
<1>1. PICK w0, w1, w2 : FailedStep(w, q, o, frees, w0, w1, w2)
  BY FailedSteps, Zenon
<1> DEFINE e == [w1.query[q] EXCEPT !.backend = End]
<1>2. v.fault = "none" /\ v \in Worlds
  BY <1>0, FailedTyped, Zenon
<1> HIDE DEF v, i
<1>3. /\ w0 = Put(w, q, r) /\ w1 = cleanup_query(w0, q)
      /\ w1.fault = "none" /\ Held(w0, q) /\ Detached(w1, q)
      /\ w1.query[q].backend = b
      /\ \/ i \in 1..End /\ v = set_state_SETUP(w1, q, o, i, frees)
         \/ /\ w2 = Put(w1, q, e) /\ Good(w2) /\ w2.query[q].life = "live"
            /\ v = callback(w2, q, frees)
  BY <1>1, Zenon DEF FailedStep, v, i, b
<1>4. n \in Nat /\ b \in 1..End /\ n \in 0..Cardinality(Passed(b))
  BY <1>0 DEF QueryRecord, Counted, Early
<1>5. r \in QueryRecord /\ r.called = n /\ r.state = "FAILED"
  BY <1>0, Zenon DEF QueryRecord, State
<1>6. b \in Int /\ i = b + 1 /\ b <= End /\ End \in 1..End /\ \A x \in 1..End : x \in Int
  BY <1>4, ConstantsAssumption DEF End, i
<1> HIDE DEF n, b, r
<1>7. w0.query[q] = r
  BY <1>0, <1>3, <1>5, PutFacts, Zenon
<1>8. w1.query[q].called = n /\ w1.query[q].state = "FAILED"
  <2>1. Held(w0, q) /\ w1 = cleanup_query(w0, q) /\ w1.fault = "none"
    BY <1>3, Zenon
  <2>2. w1.query[q].called = w0.query[q].called
    BY <2>1, CleanupSpares, Zenon
  <2>3. w1.query[q].state = w0.query[q].state
    BY <2>1, CleanupDetaches, Zenon
  <2> QED  BY <1>5, <1>7, <2>2, <2>3, Zenon
<1>9. w1 \in Worlds /\ w1.query[q] \in QueryRecord /\ v.query[q] \in QueryRecord
  BY <1>2, <1>3, WorldFacts, Zenon DEF Detached, Held
<1>10. v.query[q].life = "live" => /\ Early(v.query[q]) = n
                                   /\ b <= v.query[q].backend /\ v.query[q].backend \in 1..End
  <2>0. v.query[q].backend \in 1..End
    BY <1>9, Zenon DEF QueryRecord
  <2>1. CASE i \in 1..End /\ v = set_state_SETUP(w1, q, o, i, frees)
    <3>1. v.query[q].life = "live" => Early(v.query[q]) = n /\ i <= v.query[q].backend
      BY <1>2, <1>3, <1>8, <2>1, SetupCalled, ZenonT(40)
    <3> QED  BY <1>6, <2>0, <3>1
  <2>2. CASE /\ w2 = Put(w1, q, e) /\ Good(w2) /\ w2.query[q].life = "live"
             /\ v = callback(w2, q, frees)
    <3>1. e \in QueryRecord /\ e.called = n /\ e.state = "FAILED" /\ e.backend = End
      BY <1>6, <1>8, <1>9, Zenon DEF QueryRecord
    <3> HIDE DEF e
    <3>2. w2.query[q] = e
      BY <1>9, <2>2, <3>1, PutFacts, ZenonT(40)
    <3>3. v.query[q].life = "live" => /\ v.query[q].called = n + 1 /\ v.query[q].state = "FAILED"
                                      /\ v.query[q].backend = End
      <4>1. callback(w2, q, frees).fault = "none"
        BY <1>2, <2>2, Zenon
      <4>2. v.query[q].life = "live" => /\ v.query[q].called = w2.query[q].called + 1
                                        /\ v.query[q].state = w2.query[q].state
                                        /\ v.query[q].backend = w2.query[q].backend
        BY <2>2, <4>1, CallbackCalled, Zenon
      <4> QED  BY <3>1, <3>2, <4>2, Zenon
    <3> QED  BY <1>4, <1>6, <2>0, <3>3 DEF Early, Finished
  <2> QED  BY <1>3, <2>1, <2>2, Zenon
<1> DEFINE c == v.query[q].backend
<1>11. ASSUME v.query[q].life = "live" PROVE n \in 0..Cardinality(Passed(c))
  <2>1. b <= c /\ c \in 1..End
    BY <1>10, <1>11, Zenon
  <2> HIDE DEF c
  <2>2. /\ Cardinality(Passed(b)) <= Cardinality(Passed(c))
        /\ Cardinality(Passed(b)) \in Nat /\ Cardinality(Passed(c)) \in Nat
    BY <1>4, <2>1, PassedGrows, Zenon
  <2> QED  BY <1>4, <2>2
<1> QED  BY <1>10, <1>11, Zenon DEF Counted, v

(* netresolve_query_dispatch, after the callback of a watch.               *)
LEMMA AfterCounts ==
    ASSUME NEW w \in Worlds, NEW q \in Query, NEW o \in Plan, NEW frees \in BOOLEAN,
           w.query[q].life # "unused",
           Good(w) \/ (Held(w, q) /\ w.query[q].state \in {"RESOLVED", "ERROR"}),
           after_dispatch(w, q, o, frees).fault = "none",
           Counted(w.query[q])
    PROVE  Counted(after_dispatch(w, q, o, frees).query[q])
<1> DEFINE v == after_dispatch(w, q, o, frees)
           w1 == Touch(w, q)
           d == set_state_DONE(w1, q, o, frees)
           w2 == IF w1.query[q].state = "RESOLVED" THEN Touch(d, q) ELSE w1
<1>1. w1 \in Worlds /\ d \in Worlds /\ w2 \in Worlds
  <2>1. w1 \in Worlds
    BY TouchTyped, Zenon
  <2> HIDE DEF w1
  <2>2. d \in Worlds
    BY <2>1, DoneTyped, Zenon
  <2> HIDE DEF d
  <2> QED  BY <2>1, <2>2, TouchTyped, Zenon
<1>2. v = IF w2.query[q].state = "ERROR" THEN set_state_FAILED(w2, q, o, frees) ELSE w2
  BY Zenon DEF after_dispatch
<1> HIDE DEF v, w2, d, w1
<1>3. v.fault = "none" /\ w2.fault = "none"
  BY <1>1, <1>2, FailedKeepsFault, Zenon DEF v
<1>4. w1 = w /\ w.query[q].life = "live"
  <2>1. w1.fault = "none"
    <3>1. CASE w1.query[q].state = "RESOLVED"
      <4>1. d.fault = "none"
        BY <3>1, <1>1, <1>3, TouchGood, Zenon DEF w2
      <4> QED  BY <4>1, <1>1, DoneKeepsFault, Zenon DEF d
    <3>2. CASE w1.query[q].state # "RESOLVED"
      BY <3>2, <1>3, Zenon DEF w2
    <3> QED  BY <3>1, <3>2, Zenon
  <2>2. w1 = w /\ w.query[q].life # "freed"
    BY <2>1, TouchGood, Zenon DEF w1
  <2> QED  BY <2>2, WorldFacts, Zenon DEF QueryRecord
<1>5. Held(w, q)
  BY <1>4, GoodIsHeld, Zenon
<1>6. Held(w2, q) /\ Counted(w2.query[q])
  <2>1. CASE w1.query[q].state = "RESOLVED"
    <3>1. d = w2 /\ d.fault = "none" /\ d.query[q].life # "freed"
      BY <2>1, <1>1, <1>3, TouchGood, Zenon DEF w2
    <3>2. Good(d) /\ d.query[q].life # "unused"
      BY <3>1, <1>4, <1>5, DoneGood, Zenon DEF d
    <3>3. d.query[q].life = "live"
      BY <3>1, <3>2, <1>1, WorldFacts, Zenon DEF QueryRecord
    <3>4. Held(w2, q)
      BY <3>1, <3>2, <3>3, GoodIsHeld, Zenon
    <3>5. w.query[q].state \notin Finished
      BY <2>1, <1>4, Zenon DEF Finished
    <3>6. Counted(d.query[q])
      BY <3>1, <3>5, <1>4, <1>5, DoneCounts, Zenon DEF d
    <3> QED  BY <3>1, <3>4, <3>6, Zenon
  <2>2. CASE w1.query[q].state # "RESOLVED"
    BY <2>2, <1>4, <1>5, Zenon DEF w2
  <2> QED  BY <2>1, <2>2, Zenon
<1>7. CASE w2.query[q].state = "ERROR"
  <2>1. v = set_state_FAILED(w2, q, o, frees) /\ w2.query[q].state \notin Finished
    BY <1>2, <1>7, Zenon DEF Finished
  <2> QED  BY <2>1, <1>3, <1>6, FailedCounts, Zenon DEF v
<1>8. CASE w2.query[q].state # "ERROR"
  BY <1>2, <1>6, <1>8, Zenon DEF v
<1> QED  BY <1>7, <1>8, Zenon

(* netresolve_backend_add_path of a query that is not finished.            *)
LEMMA AddPathCounts ==
    ASSUME NEW w \in Worlds, NEW q \in Query, NEW o \in Plan, NEW frees \in BOOLEAN,
           add_path(w, q, o, frees).fault = "none",
           w.query[q].state \notin Finished, Counted(w.query[q])
    PROVE  LET v == add_path(w, q, o, frees) IN
           Counted(v.query[q]) /\ v.query[q].state \notin Finished
<1> DEFINE v == add_path(w, q, o, frees)
           t == ResultTimeout > 0 /\ netresolve_timeout_add_ms(ResultTimeout)
           r == [w.query[q] EXCEPT !.paths = TRUE]
           more == [r EXCEPT !.state = "WAITING_MORE", !.result = t]
           new == IF r.state # "WAITING" THEN r ELSE more
<1>0. w.query[q] \in QueryRecord
  BY WorldFacts, Zenon
<1>1. /\ r \in QueryRecord /\ r.life = w.query[q].life /\ r.backend = w.query[q].backend
      /\ r.called = w.query[q].called /\ r.state = w.query[q].state
  BY <1>0, Zenon DEF QueryRecord
<1>2. t \in BOOLEAN
  <2> HIDE DEF r
  <2> QED  BY TimersRun, Zenon
<1> HIDE DEF r, t
<1>3. /\ more \in QueryRecord /\ more.life = r.life /\ more.backend = r.backend
      /\ more.called = r.called /\ more.state = "WAITING_MORE"
  BY <1>1, <1>2, Zenon DEF QueryRecord, State
<1> HIDE DEF more
<1>4. Put(w, q, more) \in Worlds
  BY <1>3, PutFacts, Zenon
<1>5. set_state_DONE(Put(w, q, more), q, o, frees) \in Worlds
  BY <1>4, DoneTyped, Zenon
<1>6. v = Put(w, q, new)
  <2>1. Stop(set_state_DONE(Put(w, q, more), q, o, frees), "freed_priv").fault # "none"
    BY <1>5, StopFaults, Zenon DEF Fault
  <2> QED  BY <2>1, Zenon DEF add_path, more, r, t
<1>7. /\ new \in QueryRecord /\ new.life = w.query[q].life /\ new.backend = w.query[q].backend
      /\ new.called = w.query[q].called /\ new.state \notin Finished
  BY <1>1, <1>3, Zenon DEF Finished
<1> HIDE DEF new, v
<1>8. v.query[q] = new
  BY <1>6, <1>7, PutFacts, Zenon
<1>9. Counted(new)
  BY <1>7, CountedSame, Zenon
<1> QED  BY <1>7, <1>8, <1>9, Zenon DEF v
-----------------------------------------------------------------------------
(* The actions.  A query that is not used yet is at the first backend, and *)
(* its callback has not been called.                                       *)

Placed == \A q \in Query : query[q].life = "unused" => query[q].backend = 1 /\ query[q].called = 0

(* A step of q.  If q has finished then the step is the one that frees it. *)
Turn(q) ==
    \/ UNCHANGED <<query, data, cleanup>>
    \/ /\ Spares(World, World', q) /\ Isolates(World, World', q)
       /\ query'[q].life # "unused"
       /\ Counted(query[q]) => Counted(query'[q])
       /\ query[q].life = "live" /\ query[q].state \in Finished => query'[q].life # "live"

(* An action that applies what one handler makes of the world.             *)
LEMMA ApplyTurns ==
    ASSUME NEW v \in Worlds, NEW q \in Query, Apply(v),
           v.fault = "none" =>
               /\ Spares(World, v, q) /\ Isolates(World, v, q) /\ v.query[q].life # "unused"
               /\ Counted(query[q]) => Counted(v.query[q])
               /\ query[q].life = "live" /\ query[q].state \in Finished => v.query[q].life # "live"
    PROVE  Turn(q)
<1>1. CASE v.fault = "none"
  <2>1. v = [query |-> v.query, data |-> v.data, cleanup |-> v.cleanup, fault |-> v.fault]
    BY Zenon DEF Worlds
  <2>2. World' = v /\ query' = v.query
    BY <1>1, <2>1, Zenon DEF Apply, World
  <2> QED  BY <1>1, <2>2, Zenon DEF Turn
<1>2. CASE v.fault # "none"
  BY <1>2, Zenon DEF Apply, Turn
<1> QED  BY <1>1, <1>2, Zenon

(* A finished query has nothing that could be dispatched.                  *)
LEMMA FinishedRests ==
    ASSUME IndInv, NEW q \in Query, query[q].state \in Finished
    PROVE  ~query[q].delayed /\ ~query[q].request /\ ~query[q].result /\ ~query[q].watch
<1>1. Resting(query[q]) /\ query[q] \in QueryRecord
  BY WorldFields, WorldFacts, Zenon DEF IndInv, Good
<1>2. query[q].backend \notin Backend
  BY <1>1, BackendRange, Zenon DEF Resting
<1>3. ~query[q].watch
  BY <1>2, WorldFields, Zenon DEF IndInv, Good, Owned
<1>4. ~query[q].delayed /\ ~query[q].request /\ ~query[q].result
  BY <1>1, Zenon DEF Resting, Finished, Waiting
<1> QED  BY <1>3, <1>4, Zenon

(* netresolve_query.                                                       *)
LEMMA IssueTurns ==
    ASSUME IndInv, Placed, NEW q \in Query, NEW t \in Requests, NEW o \in Plan, NEW frees \in Frees,
           netresolve_query(q, t, o, frees)
    PROVE  Turn(q)
<1> DEFINE r == [query[q] EXCEPT !.life = "live", !.type = t]
           w == Created(q, t)
           v == set_state_SETUP(w, q, o, 1, frees)
<1>1. query[q].life = "unused" /\ query[q].backend = 1 /\ query[q].called = 0 /\ Apply(v)
  BY Zenon DEF netresolve_query, Placed
<1>2. w \in Worlds /\ Detached(w, q)
  BY <1>1, CreatedDetached, Zenon
<1>3. 1 \in 1..End /\ frees \in BOOLEAN
  BY BackendRange, FreesBoolean, Zenon
<1>4. World \in Worlds /\ World.query[q] \in QueryRecord /\ World.query = query
  BY WorldFacts, WorldFields, Zenon DEF IndInv, Good
<1>5. r \in QueryRecord /\ r.backend = 1 /\ r.called = 0
  BY <1>1, <1>4, ConstantsAssumption, Zenon DEF QueryRecord
<1>6. w = Put(World, q, r)
  BY Zenon DEF Created
<1> HIDE DEF r, w
<1>7. w.query[q] = r
  BY <1>4, <1>5, <1>6, PutFacts, Zenon
<1>8. World.query[q].backend <= r.backend /\ w.query[q].backend <= 1
  BY <1>1, <1>4, <1>5, <1>7
<1>9. Spares(World, w, q) /\ Alone(World, w, q) /\ (Calm(World, q) => Calm(w, q))
  BY <1>4, <1>5, <1>6, <1>8, PutSpares, PutCalm, Zenon
<1>10. v \in Worlds
  BY <1>2, <1>3, SetupTyped, Zenon
<1>11. ASSUME v.fault = "none"
       PROVE  /\ Spares(World, v, q) /\ Isolates(World, v, q) /\ v.query[q].life # "unused"
              /\ Counted(v.query[q])
  <2>1. /\ Spares(w, v, q)
        /\ Calm(w, q) => Tame(v, q) /\ Alone(w, v, q)
    BY <1>2, <1>3, <1>8, <1>11, SetupSpares, Zenon
  <2>2. v.query[q].life # "unused"
    BY <1>2, <1>3, <1>11, SetupGood, Zenon
  <2>3. v.query[q].life = "live" => Early(v.query[q]) = 0
    BY <1>2, <1>3, <1>5, <1>7, <1>11, SetupCalled, Zenon
  <2> HIDE DEF v
  <2>4. Spares(World, v, q)
    BY <2>1, <1>2, <1>4, <1>9, <1>10, SparesTransitive, Zenon
  <2>5. Isolates(World, v, q)
    BY <2>1, <1>9, Zenon DEF Isolates, Tame, Alone
  <2>6. Counted(v.query[q])
    <3>1. v.query[q].backend \in 1..End
      BY <1>10, WorldFacts, Zenon DEF QueryRecord
    <3>2. v.query[q].backend <= v.query[q].backend
      BY <3>1, ConstantsAssumption DEF End
    <3>3. Cardinality(Passed(v.query[q].backend)) \in Nat
      BY <3>1, <3>2, PassedGrows, Zenon
    <3> QED  BY <2>3, <3>3 DEF Counted
  <2> QED  BY <2>2, <2>4, <2>5, <2>6, Zenon
<1> HIDE DEF v
<1> QED  BY <1>1, <1>10, <1>11, ApplyTurns, Zenon

(* netresolve_query with options that are not understood.                  *)
LEMMA RefusedTurns ==
    ASSUME IndInv, Placed, NEW q \in Query, NEW t \in Requests, netresolve_query_refused(q, t)
    PROVE  Turn(q)
<1> DEFINE r == [query[q] EXCEPT !.life = "live", !.type = t]
           w == Created(q, t)
           v == netresolve_query_free(w, q)
<1>1. query[q].life = "unused" /\ query[q].backend = 1 /\ Apply(v)
  BY Zenon DEF netresolve_query_refused, Placed
<1>2. w \in Worlds /\ Held(w, q)
  BY <1>1, CreatedDetached, Zenon DEF Detached
<1>3. World \in Worlds /\ World.query[q] \in QueryRecord /\ World.query = query
  BY WorldFacts, WorldFields, Zenon DEF IndInv, Good
<1>4. r \in QueryRecord /\ r.backend = 1
  BY <1>1, <1>3, ConstantsAssumption, Zenon DEF QueryRecord
<1>5. w = Put(World, q, r)
  BY Zenon DEF Created
<1> HIDE DEF r, w
<1>6. w.query[q] = r
  BY <1>3, <1>4, <1>5, PutFacts, Zenon
<1>7. World.query[q].backend <= r.backend
  BY <1>1, <1>3, <1>4
<1>8. Spares(World, w, q) /\ Alone(World, w, q) /\ (Calm(World, q) => Calm(w, q))
  BY <1>3, <1>4, <1>5, <1>7, PutSpares, PutCalm, Zenon
<1>9. v \in Worlds
  BY <1>2, FreeTyped, Zenon
<1>10. ASSUME v.fault = "none"
       PROVE  /\ Spares(World, v, q) /\ Isolates(World, v, q) /\ v.query[q].life # "unused"
              /\ Counted(v.query[q])
  <2>1. Spares(w, v, q) /\ Isolates(w, v, q) /\ v.query[q].life = "freed"
    BY <1>2, <1>10, FreeSpares, Zenon
  <2> HIDE DEF v
  <2>2. Spares(World, v, q)
    BY <2>1, <1>2, <1>3, <1>8, <1>9, SparesTransitive, Zenon
  <2>3. Calm(w, q) => Own(w, q)
    BY <1>4, <1>6, Zenon DEF Calm, Able, Own
  <2>4. Isolates(World, v, q)
    BY <2>1, <2>3, <1>8, Zenon DEF Isolates, Tame, Alone
  <2> QED  BY <2>1, <2>2, <2>4, Zenon DEF Counted
<1> HIDE DEF v
<1> QED  BY <1>1, <1>9, <1>10, ApplyTurns, Zenon

(* netresolve_query_free, called by the application.                       *)
LEMMA FreeTurns ==
    ASSUME IndInv, NEW q \in Query, Free(q)
    PROVE  Turn(q)
<1> DEFINE v == netresolve_query_free(World, q)
<1>1. World \in Worlds /\ Held(World, q) /\ Apply(v)
  BY GoodIsHeld, WorldFields, Zenon DEF IndInv, Good, Free, Live
<1>2. v \in Worlds
  BY <1>1, FreeTyped, Zenon
<1>3. v.fault = "none" => Spares(World, v, q) /\ Isolates(World, v, q) /\ v.query[q].life = "freed"
  BY <1>1, FreeSpares, Zenon
<1>4. v.fault = "none" => Counted(v.query[q])
  BY <1>3, Zenon DEF Counted
<1> HIDE DEF v
<1> QED  BY <1>1, <1>2, <1>3, <1>4, ApplyTurns, Zenon

(* What the handlers of timers and watches have in common: a state u in    *)
(* which q is left by the handler, and netresolve_query_dispatch.          *)
LEMMA DispatchTurns ==
    ASSUME IndInv, NEW u \in Worlds, NEW q \in Query, NEW o \in Plan, NEW frees \in BOOLEAN,
           query[q].state \notin Finished,
           u.fault = "none" =>
               /\ Spares(World, u, q) /\ Isolates(World, u, q) /\ u.query[q].life # "unused"
               /\ Counted(query[q]) => Counted(u.query[q])
               /\ Good(u) \/ (Held(u, q) /\ u.query[q].state \in {"RESOLVED", "ERROR"}),
           Apply(after_dispatch(u, q, o, frees))
    PROVE  Turn(q)
<1> DEFINE v == after_dispatch(u, q, o, frees)
<1>1. v \in Worlds /\ World \in Worlds
  BY AfterTyped, Zenon DEF IndInv, Good
<1>2. ASSUME v.fault = "none"
      PROVE  /\ Spares(World, v, q) /\ Isolates(World, v, q) /\ v.query[q].life # "unused"
             /\ Counted(query[q]) => Counted(v.query[q])
  <2>1. u.fault = "none"
    BY <1>2, AfterKeepsFault, Zenon
  <2>2. Spares(u, v, q) /\ Isolates(u, v, q) /\ v.query[q].life # "unused"
    BY <2>1, <1>2, AfterSpares, Zenon
  <2>3. Counted(u.query[q]) => Counted(v.query[q])
    BY <2>1, <1>2, AfterCounts, Zenon
  <2> HIDE DEF v
  <2>4. Spares(World, v, q)
    BY <2>1, <2>2, <1>1, SparesTransitive, Zenon
  <2>5. Isolates(World, v, q)
    BY <2>1, <2>2, IsolatesTransitive, Zenon
  <2> QED  BY <2>1, <2>2, <2>4, <2>5, <2>3, Zenon
<1>3. Apply(v)
  BY Zenon
<1> HIDE DEF v
<1> QED  BY <1>1, <1>2, <1>3, ApplyTurns, Zenon

(* What a timer leaves to set_state(DONE) or set_state(FAILED).            *)
LEMMA TimerTurns ==
    ASSUME IndInv, NEW q \in Query, NEW o \in Plan, NEW frees \in BOOLEAN, NEW r \in QueryRecord,
           Live(q), r.life = query[q].life, r.backend = query[q].backend, r.watch = query[q].watch,
           r.state = query[q].state, r.called = query[q].called,
           query[q].state \notin Finished,
           LET w == Put(World, q, r)
           IN  \/ Apply(Stop(w, "assert"))
               \/ Apply(after_dispatch(set_state_DONE(w, q, o, frees), q, o, frees))
               \/ Apply(after_dispatch(set_state_FAILED(w, q, o, frees), q, o, frees))
    PROVE  Turn(q)
<1> DEFINE w == Put(World, q, r)
<1>0. World \in Worlds /\ World.query = query
  BY WorldFields, Zenon DEF IndInv, Good
<1>1. Held(w, q) /\ w \in Worlds
  BY TimerHeld, Zenon DEF Held
<1>2. Spares(World, w, q) /\ Isolates(World, w, q)
  BY <1>0, PutIsolates, Zenon
<1>3. w.query[q].state \notin Finished /\ (Counted(query[q]) => Counted(w.query[q]))
  <2>1. w.query[q] = r
    BY <1>0, PutFacts, Zenon
  <2> QED  BY <2>1, CountedSame, Zenon
<1> HIDE DEF w
<1>4. CASE Apply(Stop(w, "assert"))
  <2>1. Stop(w, "assert") \in Worlds /\ Stop(w, "assert").fault # "none"
    BY <1>1, StopTyped, StopFaults, Zenon DEF Fault
  <2> QED  BY <2>1, <1>4, ApplyTurns, Zenon
<1>5. ASSUME NEW u \in Worlds, Apply(after_dispatch(u, q, o, frees)),
             u.fault = "none" => /\ Spares(w, u, q) /\ Isolates(w, u, q)
                                 /\ Good(u) /\ u.query[q].life # "unused"
                                 /\ Counted(w.query[q]) => Counted(u.query[q])
      PROVE  Turn(q)
  <2>1. ASSUME u.fault = "none"
        PROVE  /\ Spares(World, u, q) /\ Isolates(World, u, q) /\ u.query[q].life # "unused"
               /\ Counted(query[q]) => Counted(u.query[q])
               /\ Good(u)
    <3>1. Spares(World, u, q)
      BY <1>0, <1>1, <1>2, <1>5, <2>1, SparesTransitive, Zenon
    <3>2. Isolates(World, u, q)
      BY <1>2, <1>5, <2>1, IsolatesTransitive, Zenon
    <3> QED  BY <3>1, <3>2, <1>3, <1>5, <2>1, Zenon
  <2> QED  BY <2>1, <1>5, DispatchTurns, Zenon
<1>6. CASE Apply(after_dispatch(set_state_DONE(w, q, o, frees), q, o, frees))
  <2> DEFINE u == set_state_DONE(w, q, o, frees)
  <2>1. u \in Worlds /\ (u.fault = "none" => /\ Spares(w, u, q) /\ Isolates(w, u, q)
                                             /\ Good(u) /\ u.query[q].life # "unused"
                                             /\ Counted(w.query[q]) => Counted(u.query[q]))
    BY <1>1, <1>3, DoneTyped, DoneGood, DoneSpares, DoneCounts, ZenonT(40)
  <2> HIDE DEF u
  <2> QED  BY <2>1, <1>5, <1>6, ZenonT(40) DEF u
<1>7. CASE Apply(after_dispatch(set_state_FAILED(w, q, o, frees), q, o, frees))
  <2> DEFINE u == set_state_FAILED(w, q, o, frees)
  <2>1. u \in Worlds /\ (u.fault = "none" => /\ Spares(w, u, q) /\ Isolates(w, u, q)
                                             /\ Good(u) /\ u.query[q].life # "unused"
                                             /\ Counted(w.query[q]) => Counted(u.query[q]))
    BY <1>1, <1>3, FailedTyped, FailedGood, FailedSpares, FailedCounts, Zenon
  <2> HIDE DEF u
  <2> QED  BY <2>1, <1>5, <1>7, ZenonT(40) DEF u
<1> QED  BY <1>4, <1>6, <1>7, Zenon DEF w

(* The delayed callback, the request timer and the result timer.           *)
LEMMA TimeoutsTurn ==
    ASSUME IndInv, NEW q \in Query, NEW o \in Plan, NEW frees \in Frees,
           \/ dispatch_delayed(q, o, frees)
           \/ dispatch_request_timeout(q, o, frees)
           \/ dispatch_result_timeout(q, o, frees)
    PROVE  Turn(q)
<1>0. query[q] \in QueryRecord /\ frees \in BOOLEAN
  BY WorldFacts, WorldFields, FreesBoolean, Zenon DEF IndInv, Good
<1>1. CASE dispatch_delayed(q, o, frees)
  <2> DEFINE r == [query[q] EXCEPT !.delayed = FALSE]
  <2>1. Live(q) /\ query[q].state \notin Finished
    BY <1>1, FinishedRests, Zenon DEF dispatch_delayed
  <2>2. /\ r \in QueryRecord /\ r.life = query[q].life /\ r.backend = query[q].backend
        /\ r.watch = query[q].watch /\ r.state = query[q].state /\ r.called = query[q].called
    BY <1>0, Zenon DEF QueryRecord
  <2>3. \/ Apply(Stop(Put(World, q, r), "assert"))
        \/ Apply(after_dispatch(set_state_DONE(Put(World, q, r), q, o, frees), q, o, frees))
    BY <1>1, Zenon DEF dispatch_delayed
  <2> HIDE DEF r
  <2> QED  BY <2>1, <2>2, <2>3, <1>0, TimerTurns, Zenon
<1>2. CASE dispatch_request_timeout(q, o, frees)
  <2> DEFINE r == [query[q] EXCEPT !.request = FALSE]
  <2>1. Live(q) /\ query[q].state \notin Finished
    BY <1>2, FinishedRests, Zenon DEF dispatch_request_timeout
  <2>2. /\ r \in QueryRecord /\ r.life = query[q].life /\ r.backend = query[q].backend
        /\ r.watch = query[q].watch /\ r.state = query[q].state /\ r.called = query[q].called
    BY <1>0, Zenon DEF QueryRecord
  <2>3. \/ Apply(Stop(Put(World, q, r), "assert"))
        \/ Apply(after_dispatch(set_state_FAILED(Put(World, q, r), q, o, frees), q, o, frees))
    BY <1>2, Zenon DEF dispatch_request_timeout
  <2> HIDE DEF r
  <2> QED  BY <2>1, <2>2, <2>3, <1>0, TimerTurns, Zenon
<1>3. CASE dispatch_result_timeout(q, o, frees)
  <2> DEFINE r == [query[q] EXCEPT !.result = FALSE]
  <2>1. Live(q) /\ query[q].state \notin Finished
    BY <1>3, FinishedRests, Zenon DEF dispatch_result_timeout
  <2>2. /\ r \in QueryRecord /\ r.life = query[q].life /\ r.backend = query[q].backend
        /\ r.watch = query[q].watch /\ r.state = query[q].state /\ r.called = query[q].called
    BY <1>0, ZenonT(40) DEF QueryRecord
  <2>3. \/ Apply(Stop(Put(World, q, r), "assert"))
        \/ Apply(after_dispatch(set_state_DONE(Put(World, q, r), q, o, frees), q, o, frees))
    BY <1>3, Zenon DEF dispatch_result_timeout
  <2> HIDE DEF r
  <2> QED  BY <2>1, <2>2, <2>3, <1>0, TimerTurns, Zenon
<1> QED  BY <1>1, <1>2, <1>3, Zenon

(* The dispatch of a watch of the backend.                                 *)
LEMMA WatchTurns ==
    ASSUME IndInv, NEW q \in Query, NEW a \in Reply, NEW o \in Plan, NEW frees \in Frees,
           dispatch_watch(q, a, o, frees)
    PROVE  Turn(q)
<1> DEFINE w1 == IF a.adds THEN add_path(World, q, o, frees) ELSE World
           w2 == CASE a.verdict = "more" -> w1
                   [] a.verdict = "finish" -> Put(w1, q, [w1.query[q] EXCEPT !.state = "RESOLVED"])
                   [] a.verdict = "fail" -> Put(w1, q, [w1.query[q] EXCEPT !.state = "ERROR"])
<1>0. /\ World \in Worlds /\ Good(World) /\ World.query[q].life = "live" /\ World.query[q].watch
      /\ World.query[q] \in QueryRecord /\ frees \in BOOLEAN /\ query[q].state \notin Finished
  <2>1. Live(q) /\ query[q].watch
    BY Zenon DEF dispatch_watch
  <2> QED  BY <2>1, WorldFields, WorldFacts, FreesBoolean, FinishedRests, Zenon DEF IndInv, Good, Live
<1>1. Apply(after_dispatch(w2, q, o, frees))
  BY Zenon DEF dispatch_watch
<1>2. w1 \in Worlds /\ w1.query[q] \in QueryRecord
  BY <1>0, AddPathTyped, WorldFacts, Zenon
<1>3. w1.fault = "none" => Good(w1) /\ w1.query[q].life = "live"
  BY <1>0, AddPathGood, Zenon
<1>4. w1.fault = "none" => Spares(World, w1, q) /\ Isolates(World, w1, q)
  <2>1. Spares(World, World, q) /\ Isolates(World, World, q)
    <3>1. World.query[q].backend <= World.query[q].backend
      BY <1>0, ConstantsAssumption DEF QueryRecord, End
    <3> QED  BY <3>1, Zenon DEF Spares, Isolates, Alone
  <2> HIDE DEF World
  <2> QED  BY <2>1, <1>0, AddPathSpares, Zenon
<1>5. World.query[q] = query[q]
  BY WorldFields, Zenon
<1>6. w1.fault = "none" /\ Counted(query[q]) => Counted(w1.query[q]) /\ w1.query[q].state \notin Finished
  <2> HIDE DEF World
  <2>1. CASE a.adds
    <3>1. w1 = add_path(World, q, o, frees)
      BY <2>1, Zenon
    <3> HIDE DEF w1
    <3> QED  BY <1>0, <1>5, <3>1, AddPathCounts, Zenon
  <2>2. CASE ~a.adds
    <3>1. w1 = World
      BY <2>2, Zenon
    <3> HIDE DEF w1
    <3> QED  BY <1>0, <1>5, <3>1, Zenon
  <2> QED  BY <2>1, <2>2, Zenon
<1> HIDE DEF w1
<1>7. ASSUME NEW st \in {"RESOLVED", "ERROR"}, NEW x, x = Put(w1, q, [w1.query[q] EXCEPT !.state = st])
      PROVE  /\ x \in Worlds
             /\ x.fault = "none" =>
                   /\ Spares(World, x, q) /\ Isolates(World, x, q) /\ x.query[q].life # "unused"
                   /\ Counted(query[q]) => Counted(x.query[q])
                   /\ Held(x, q) /\ x.query[q].state = st
  <2> DEFINE r == [w1.query[q] EXCEPT !.state = st]
  <2>1. /\ r \in QueryRecord /\ r.life = w1.query[q].life /\ r.backend = w1.query[q].backend
        /\ r.watch = w1.query[q].watch /\ r.state = st /\ r.called = w1.query[q].called
    BY <1>2, Zenon DEF QueryRecord, State
  <2> HIDE DEF r
  <2>2. x = Put(w1, q, r)
    BY <1>7, Zenon DEF r
  <2>3. x \in Worlds /\ x.fault = w1.fault /\ x.query[q] = r
    BY <2>1, <2>2, <1>2, PutFacts, Zenon
  <2>4. x.fault = "none" => Held(x, q)
    <3> SUFFICES ASSUME x.fault = "none" PROVE Held(x, q)
      BY Zenon
    <3>1. Good(w1) /\ w1.query[q].life = "live"
      BY <2>3, <1>3, Zenon
    <3>2. Held(w1, q)
      BY <3>1, GoodIsHeld, Zenon
    <3> QED  BY <2>1, <2>2, <3>1, <3>2, PutHeld, Zenon
  <2>5. Spares(w1, x, q) /\ Isolates(w1, x, q)
    BY <2>1, <2>2, <1>2, PutIsolates, Zenon
  <2>6. x.fault = "none" => Spares(World, x, q)
    BY <2>3, <2>5, <1>0, <1>2, <1>4, SparesTransitive, Zenon
  <2>7. x.fault = "none" => Isolates(World, x, q)
    BY <2>3, <2>5, <1>4, Zenon DEF Isolates, Alone
  <2>8. x.fault = "none" /\ Counted(query[q]) => Counted(x.query[q])
    <3>1. st \notin Finished
      BY Zenon DEF Finished
    <3> QED  BY <2>1, <2>3, <3>1, <1>6, CountedSame, Zenon
  <2> QED  BY <2>1, <2>3, <2>4, <2>6, <2>7, <2>8, <1>3, Zenon
<1>8. a.verdict \in {"more", "finish", "fail"}
  BY Zenon DEF Reply
<1>9. /\ w2 \in Worlds
      /\ w2.fault = "none" =>
            /\ Spares(World, w2, q) /\ Isolates(World, w2, q) /\ w2.query[q].life # "unused"
            /\ Counted(query[q]) => Counted(w2.query[q])
            /\ Good(w2) \/ (Held(w2, q) /\ w2.query[q].state \in {"RESOLVED", "ERROR"})
  <2>1. CASE a.verdict = "more"
    <3>1. w2 = w1
      BY <2>1, Zenon
    <3> QED  BY <3>1, <1>2, <1>3, <1>4, <1>6, Zenon
  <2>2. CASE a.verdict = "finish"
    <3>1. w2 = Put(w1, q, [w1.query[q] EXCEPT !.state = "RESOLVED"])
      BY <2>2, Zenon
    <3> HIDE DEF w2
    <3> QED  BY <3>1, <1>7, Zenon
  <2>3. CASE a.verdict = "fail"
    <3>1. w2 = Put(w1, q, [w1.query[q] EXCEPT !.state = "ERROR"])
      BY <2>3, Zenon
    <3> HIDE DEF w2
    <3> QED  BY <3>1, <1>7, Zenon
  <2> QED  BY <2>1, <2>2, <2>3, <1>8, Zenon
<1> HIDE DEF w2
<1> QED  BY <1>0, <1>1, <1>9, DispatchTurns, Zenon
-----------------------------------------------------------------------------
(* Every step is the turn of one query or leaves the queries alone; in the *)
(* latter case the state objects stay too, or the backends are loaded anew.*)
LEMMA StepIsTurn ==
    ASSUME IndInv, Placed, [Next]_vars
    PROVE  \/ \E q \in Query : Turn(q)
           \/ UNCHANGED <<query, data, cleanup>>
           \/ netresolve_set_backend_string
<1>1. CASE UNCHANGED vars
  BY <1>1, Zenon DEF vars
<1>2. CASE Progress
  <2>1. PICK q \in Query, o \in Plan, frees \in Frees :
            \/ \E t \in Requests : netresolve_query(q, t, o, frees)
            \/ dispatch_delayed(q, o, frees)
            \/ dispatch_request_timeout(q, o, frees)
            \/ dispatch_result_timeout(q, o, frees)
            \/ \E r \in Reply : dispatch_watch(q, r, o, frees)
    BY <1>2, Zenon DEF Progress, Ahead
  <2>2. Turn(q)
    BY <2>1, IssueTurns, TimeoutsTurn, WatchTurns, Zenon
  <2> QED  BY <2>2, Zenon
<1>3. CASE \E q \in Query, t \in Requests : netresolve_query_refused(q, t)
  BY <1>3, RefusedTurns, Zenon
<1>4. CASE \E q \in Query : Free(q)
  BY <1>4, FreeTurns, Zenon
<1>5. CASE netresolve_set_backend_string
  BY <1>5, Zenon
<1>6. CASE netresolve_context_free \/ netresolve_context_free_end
  BY <1>6, Zenon DEF netresolve_context_free, netresolve_context_free_end
<1> QED  BY <1>1, <1>2, <1>3, <1>4, <1>5, <1>6, Zenon DEF Next

(* No step creates an unused query, or moves one.                          *)
LEMMA PlacedKeeps == IndInv /\ Placed /\ [Next]_vars => Placed'
<1> SUFFICES ASSUME IndInv, Placed, [Next]_vars PROVE Placed'
  BY Zenon
<1>1. CASE query' = query
  BY <1>1, Zenon DEF Placed
<1>2. CASE \E q \in Query : Turn(q)
  <2>1. PICK q \in Query : Turn(q)
    BY <1>2, Zenon
  <2>2. CASE Spares(World, World', q) /\ query'[q].life # "unused"
    BY <2>2, WorldFields, ZenonT(40) DEF Placed, Spares
  <2> QED  BY <2>1, <2>2, <1>1, Zenon DEF Turn
<1> QED  BY <1>1, <1>2, StepIsTurn, Zenon DEF netresolve_set_backend_string

(* A turn spares the finished queries and moves no query back.             *)
LEMMA StepIsStable ==
    ASSUME IndInv, Placed, [Next]_vars, NEW q \in Query, Live(q), Live(q)'
    PROVE  /\ query[q].state \in Finished => query'[q] = query[q]
           /\ query'[q].backend >= query[q].backend
<1>0. query[q].backend \in Int
  <2>1. query[q] \in QueryRecord
    BY WorldFacts, WorldFields, Zenon DEF IndInv, Good
  <2> QED  BY <2>1, ConstantsAssumption, SMTT(40) DEF QueryRecord, End
<1>1. CASE query' = query
  BY <1>0, <1>1
<1>2. CASE \E p \in Query : Turn(p)
  <2>1. PICK p \in Query : Turn(p)
    BY <1>2, Zenon
  <2>2. ASSUME Spares(World, World', p),
               query[p].life = "live" /\ query[p].state \in Finished => query'[p].life # "live"
        PROVE  /\ query[q].state \in Finished => query'[q] = query[q]
               /\ query[q].backend <= query'[q].backend
    <3>1. CASE p = q
      BY <2>2, <3>1, WorldFields, Zenon DEF Spares, Live
    <3>2. CASE p # q
      BY <2>2, <3>2, <1>0, WorldFields DEF Spares
    <3> QED  BY <3>1, <3>2, Zenon
  <2>3. query[q].backend <= query'[q].backend => query'[q].backend >= query[q].backend
    BY Zenon
  <2> QED  BY <2>1, <2>2, <2>3, <1>1, Zenon DEF Turn
<1> QED  BY <1>1, <1>2, StepIsTurn, Zenon DEF netresolve_set_backend_string

Peace == \A q \in Query : Tame(World, q)

(* It does not matter whose handler comes next.                            *)
LEMMA TameForAll ==
    ASSUME NEW w, NEW q \in Query, NEW p \in Query, Tame(w, q)
    PROVE  Tame(w, p)
BY Zenon DEF Tame, Calm

(* Every step keeps the peace, and changes one query at most.              *)
LEMMA PeaceKeeps ==
    ASSUME IndInv, Placed, Peace, [Next]_vars
    PROVE  /\ Peace'
           /\ \A q, r \in Query : q # r => query'[q] = query[q] \/ query'[r] = query[r]
<1>1. CASE UNCHANGED <<query, data, cleanup>>
  <2>1. World'.query = World.query /\ World'.data = World.data /\ World'.cleanup = World.cleanup
    BY <1>1, WorldFields, Zenon
  <2>2. ASSUME NEW q \in Query PROVE Tame(World', q)
    <3>1. Tame(World, q)
      BY Zenon DEF Peace
    <3> HIDE DEF World
    <3> QED  BY <3>1, <2>1, Zenon DEF Tame, Calm, Own
  <2> QED  BY <2>2, <1>1, Zenon DEF Peace
<1>2. CASE netresolve_set_backend_string
  <2>1. /\ query' = query /\ World'.query = query
        /\ \A b \in Backend : World'.data[b] = NoQuery /\ ~World'.cleanup[b]
        /\ \A q \in Query : query[q].life # "live"
    BY <1>2, WorldFields, Zenon DEF netresolve_set_backend_string, NoneLive, Live
  <2>2. ASSUME NEW q \in Query PROVE Tame(World', q)
    <3>1. Able
      BY Zenon DEF Peace, Tame, Calm
    <3> QED  BY <3>1, <2>1, Zenon DEF Tame, Calm, Own
  <2> QED  BY <2>1, <2>2, Zenon DEF Peace
<1>3. CASE \E p \in Query : Turn(p)
  <2>1. PICK p \in Query : Turn(p)
    BY <1>3, Zenon
  <2>2. CASE Isolates(World, World', p)
    <3>1. Tame(World', p) /\ Alone(World, World', p)
      BY <2>2, Zenon DEF Peace, Isolates
    <3>2. Peace'
      BY <3>1, TameForAll, Zenon DEF Peace
    <3> QED  BY <3>1, <3>2, WorldFields, Zenon DEF Alone
  <2> QED  BY <2>1, <2>2, <1>1, Zenon DEF Turn
<1> QED  BY <1>1, <1>2, <1>3, StepIsTurn, Zenon

(* The queries of a new context are at the first backend, and nobody holds *)
(* anything.                                                               *)
LEMMA InitPeaceful == Init => Placed /\ (Able => Peace)
<1> SUFFICES ASSUME Init PROVE Placed /\ (Able => Peace)
  BY Zenon
<1>1. /\ \A q \in Query : query[q].life = "unused" /\ query[q].backend = 1 /\ query[q].called = 0
      /\ \A b \in Backend : data[b] = NoQuery /\ ~cleanup[b]
  BY Zenon DEF Init, Fresh
<1>2. Able => Peace
  BY <1>1, WorldFields, Zenon DEF Peace, Tame, Calm, Own
<1> QED  BY <1>1, <1>2, Zenon DEF Placed

(* Every step keeps the count of every query.                              *)
LEMMA CountKeeps ==
    ASSUME IndInv, Placed, [Next]_vars, \A q \in Query : Counted(query[q])
    PROVE  \A q \in Query : Counted(query'[q])
<1>1. CASE query' = query
  BY <1>1, Zenon
<1>2. CASE \E p \in Query : Turn(p)
  <2>1. PICK p \in Query : Turn(p)
    BY <1>2, Zenon
  <2>2. ASSUME Spares(World, World', p), Counted(query'[p]), NEW q \in Query
        PROVE  Counted(query'[q])
    <3>1. CASE p = q
      BY <2>2, <3>1, Zenon
    <3>2. CASE p # q
      <4>1. /\ query'[q].life = query[q].life /\ query'[q].backend = query[q].backend
            /\ query'[q].state = query[q].state /\ query'[q].called = query[q].called
        BY <2>2, <3>2, WorldFields, Zenon DEF Spares
      <4> QED  BY <4>1, CountedSame, Zenon
    <3> QED  BY <3>1, <3>2, Zenon
  <2> QED  BY <2>1, <2>2, <1>1, Zenon DEF Turn
<1> QED  BY <1>1, <1>2, StepIsTurn, Zenon DEF netresolve_set_backend_string

(* CallbackOnce for any number of queries and backends and any             *)
(* configuration: set_state calls the callback when the query finishes,    *)
(* and otherwise only in its DONE case on the way to a further mandatory   *)
(* backend.                                                                *)
THEOREM CalledOnce == Spec => []CallbackOnce
<1> DEFINE Inv == IndInv /\ Placed /\ \A q \in Query : Counted(query[q])
<1>1. Init => Inv
  <2> SUFFICES ASSUME Init PROVE \A q \in Query : Counted(query[q])
    BY InitGood, InitPeaceful, Zenon
  <2>1. \A q \in Query : query[q].life = "unused"
    BY Zenon DEF Init, Fresh
  <2> QED  BY <2>1, Zenon DEF Counted
<1>2. Inv /\ [Next]_vars => Inv'
  BY NextKeeps, PlacedKeeps, CountKeeps, Zenon
<1>3. Inv => CallbackOnce
  BY Zenon DEF Counted, Early, Passed, CallbackOnce, Live
<1> HIDE DEF Inv
<1> QED  BY <1>1, <1>2, <1>3, PTL DEF Spec

(* ResultStable for any number of queries and backends and any             *)
(* configuration: no handler, not even one that takes a state object from  *)
(* another query, changes a finished query that the application holds on   *)
(* to, and set_state never goes back in the list of backends.              *)
THEOREM Stability == Spec => ResultStable
<1>1. Init => IndInv /\ Placed
  BY InitGood, InitPeaceful, Zenon
<1>2. IndInv /\ Placed /\ [Next]_vars => (IndInv /\ Placed)'
  BY NextKeeps, PlacedKeeps, Zenon
<1>3. IndInv /\ Placed /\ [Next]_vars =>
        [\A q \in Query : Live(q) /\ Live(q)' =>
            /\ query[q].state \in Finished => query'[q] = query[q]
            /\ query'[q].backend >= query[q].backend]_vars
  BY StepIsStable, Zenon
<1> QED  BY <1>1, <1>2, <1>3, PTL DEF Spec, ResultStable

(* Isolation for any number of queries and backends, as long as the        *)
(* backends with a state object handle every request type and the first    *)
(* backend has none: then cleanup_query and set_state(SETUP) of one query  *)
(* never reach the state object of another one without ending in the       *)
(* assertion of netresolve_backend_new_priv.                               *)
THEOREM Isolated == ASSUME Able PROVE Spec => Isolation
<1>1. Init => IndInv /\ Placed /\ Peace
  BY InitGood, InitPeaceful, Zenon
<1>2. IndInv /\ Placed /\ Peace /\ [Next]_vars => (IndInv /\ Placed /\ Peace)'
  BY NextKeeps, PlacedKeeps, PeaceKeeps, Zenon
<1>3. IndInv /\ Placed /\ Peace /\ [Next]_vars =>
        [\A q, r \in Query : q # r => query'[q] = query[q] \/ query'[r] = query[r]]_vars
  BY PeaceKeeps, Zenon
<1> QED  BY <1>1, <1>2, <1>3, PTL DEF Spec, Isolation
=============================================================================
