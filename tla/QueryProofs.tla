---------------------------- MODULE QueryProofs ----------------------------
(***************************************************************************)
(* Proofs about Query, for any number of queries and backends and any      *)
(* configuration.  Every handler is an operator on worlds, so the proofs   *)
(* have one lemma per operator: first that it keeps worlds typed, then     *)
(* that, unless it ends in a fault, it leads from a world in which the     *)
(* query being handled is Held to one that is Good.                        *)
(***************************************************************************)
EXTENDS Query, WellFoundedInduction, TLAPS

(* A non-empty set of natural numbers has a first element, which is what   *)
(* First returns: the backend at which a walk along the list stops.        *)
LEMMA FirstIsLeast ==
    ASSUME NEW S \in SUBSET Nat, S # {}
    PROVE  First(S) \in S /\ \A j \in S : First(S) <= j
<1> DEFINE R == {ss \in Nat \X Nat : ss[1] < ss[2]}
<1>1. IsWellFoundedOn(R, Nat)
  BY NatLessThanWellFounded, Zenon DEF OpToRel
<1>2. PICK i \in S : \A j \in S : ~(<<j, i>> \in R)
  <2> HIDE DEF R
  <2> QED BY <1>1, WFMin, Zenon
<1>3. ASSUME NEW j \in S PROVE i <= j
  <2>1. ~(<<j, i>>[1] < <<j, i>>[2])
    BY <1>2, Zenon
  <2> QED  BY <2>1
<1> QED  BY <1>3, Zenon DEF First

(* A walk that ends at the terminator at the latest stops in the list.     *)
LEMMA FirstToEnd ==
    ASSUME NEW S \in SUBSET Backend
    PROVE  /\ First(S \cup {End}) \in S \cup {End}
           /\ First(S \cup {End}) \in 1..End
           /\ First(S \cup {End}) # End => First(S \cup {End}) \in S
<1>1. S \cup {End} \in SUBSET Nat /\ S \cup {End} # {} /\ S \cup {End} \in SUBSET (1..End)
  BY ConstantsAssumption DEF Backend, End
<1>2. First(S \cup {End}) \in S \cup {End}
  BY <1>1, FirstIsLeast
<1> QED  BY <1>1, <1>2

(* The positions in the backend list: a position that is not the           *)
(* terminating NULL is a backend, and has a next position.                 *)
LEMMA BackendRange ==
    /\ 1 \in Backend /\ End \notin Backend /\ End \in 1..End
    /\ \A b \in 1..End : b # End => b \in Backend
    /\ \A b \in Backend : b \in 1..End /\ b + 1 \in 1..End
BY ConstantsAssumption DEF Backend, End
-----------------------------------------------------------------------------
(* Typing: each operator maps typed worlds to typed worlds.                *)

Outcome == {"fail", "found", "empty", "wait", "idle"}

(* A plan assigns an outcome to the setup function of each backend.        *)
LEMMA PlanTyped == \A o \in Plan : o \in [Backend -> Outcome]
BY DEF Plan, Outcome

(* What Put changes and what it leaves alone.                              *)
LEMMA PutFacts ==
    ASSUME NEW w \in Worlds, NEW q \in Query, NEW r \in QueryRecord
    PROVE  /\ Put(w, q, r) \in Worlds
           /\ Put(w, q, r).query[q] = r
           /\ \A p \in Query : p # q => Put(w, q, r).query[p] = w.query[p]
           /\ Put(w, q, r).data = w.data
           /\ Put(w, q, r).cleanup = w.cleanup
           /\ Put(w, q, r).fault = w.fault
BY DEF Put, Worlds

(* The components of a typed world are typed.                              *)
LEMMA WorldFacts ==
    ASSUME NEW w \in Worlds
    PROVE  /\ \A q \in Query : w.query[q] \in QueryRecord
           /\ \A b \in Backend : w.data[b] \in Query \cup {NoQuery} /\ w.cleanup[b] \in BOOLEAN
           /\ w.fault \in Fault
BY DEF Worlds

(* Stopping the process keeps a world typed.                               *)
LEMMA StopTyped ==
    ASSUME NEW w \in Worlds, NEW f \in Fault
    PROVE  Stop(w, f) \in Worlds
BY DEF Stop, Worlds

(* Using a query object keeps a world typed.                               *)
LEMMA TouchTyped ==
    ASSUME NEW w \in Worlds, NEW q \in Query
    PROVE  Touch(w, q) \in Worlds
BY StopTyped DEF Touch, Fault

(* Releasing the state object of a backend keeps a world typed.            *)
LEMMA UnprivateTyped ==
    ASSUME NEW w \in Worlds, NEW b \in Backend
    PROVE  unprivate(w, b) \in Worlds
<1>1. CASE w.data[b] = NoQuery
  BY <1>1, StopTyped DEF unprivate, Fault
<1>2. CASE w.data[b] # NoQuery
  <2> DEFINE p == w.data[b]
             r == [w.query[p] EXCEPT !.watch = FALSE]
  <2>1. p \in Query /\ w.query[p] \in QueryRecord
    BY <1>2, WorldFacts
  <2>2. r \in QueryRecord
    BY <2>1, Zenon DEF QueryRecord
  <2>3. Put(w, p, r) \in Worlds
    BY <2>1, <2>2, PutFacts
  <2>4. [Put(w, p, r) EXCEPT !.data[b] = NoQuery] \in Worlds
    <3> HIDE DEF p, r
    <3> QED  BY <2>3 DEF Worlds
  <2> QED  BY <1>2, <2>4 DEF unprivate
<1> QED  BY <1>1, <1>2

(* cleanup_query keeps a world typed.                                      *)
LEMMA CleanupTyped ==
    ASSUME NEW w \in Worlds, NEW q \in Query
    PROVE  cleanup_query(w, q) \in Worlds
<1> DEFINE r == [w.query[q] EXCEPT !.delayed = FALSE, !.request = FALSE, !.result = FALSE]
<1>1. w.query[q] \in QueryRecord
  BY WorldFacts
<1>2. r \in QueryRecord /\ w.query[q].backend \in 1..End
  BY <1>1, Zenon DEF QueryRecord
<1>3. Put(w, q, r) \in Worlds
  BY <1>2, PutFacts
<1> QED  BY <1>2, <1>3, UnprivateTyped, BackendRange DEF cleanup_query

(* netresolve_query_free keeps a world typed.                              *)
LEMMA FreeTyped ==
    ASSUME NEW w \in Worlds, NEW q \in Query
    PROVE  netresolve_query_free(w, q) \in Worlds
<1> DEFINE w1 == cleanup_query(w, q)
           r == [w1.query[q] EXCEPT !.life = "freed", !.state = "NONE", !.paths = FALSE]
<1>1. w1 \in Worlds /\ w1.query[q] \in QueryRecord
  BY CleanupTyped, WorldFacts
<1> HIDE DEF w1
<1>2. r \in QueryRecord
  BY <1>1, Zenon DEF QueryRecord, State
<1>3. Put(w1, q, r) \in Worlds
  BY <1>1, <1>2, PutFacts
<1> QED  BY <1>1, <1>3, StopTyped DEF netresolve_query_free, Fault, w1

(* The application's callback, freeing the query or not, keeps a world     *)
(* typed.                                                                  *)
LEMMA CallbackTyped ==
    ASSUME NEW w \in Worlds, NEW q \in Query, NEW frees \in BOOLEAN
    PROVE  callback(w, q, frees) \in Worlds
<1> DEFINE r == [w.query[q] EXCEPT !.called = @ + 1]
<1>0. w.query[q] \in QueryRecord
  BY WorldFacts
<1>1. r \in QueryRecord
  BY <1>0 DEF QueryRecord
<1>2. Put(w, q, r) \in Worlds
  BY <1>1, PutFacts
<1> QED  BY <1>2, FreeTyped DEF callback

(* A timer that is created runs, whatever its time, zero included.         *)
LEMMA TimeoutRuns ==
    ASSUME NEW msec \in Nat
    PROVE  netresolve_timeout_add_ms(msec) = TRUE
BY DEF netresolve_timeout_add_ms, netresolve_timeout_add

(* So the three timers of a query run if they are wanted.                  *)
LEMMA TimersRun ==
    /\ netresolve_timeout_add_ms(0) = TRUE
    /\ (RequestTimeout > 0 /\ netresolve_timeout_add_ms(RequestTimeout)) = (RequestTimeout > 0)
    /\ (ResultTimeout > 0 /\ netresolve_timeout_add_ms(ResultTimeout)) = (ResultTimeout > 0)
    /\ (RequestTimeout > 0) \in BOOLEAN /\ (ResultTimeout > 0) \in BOOLEAN
<1>1. RequestTimeout > 0 => RequestTimeout \in Nat
  BY ConstantsAssumption
<1>2. ResultTimeout > 0 => ResultTimeout \in Nat
  BY ConstantsAssumption
<1>3. (RequestTimeout > 0) \in BOOLEAN /\ (ResultTimeout > 0) \in BOOLEAN
  BY ConstantsAssumption
<1>4. netresolve_timeout_add_ms(0) = TRUE
  BY TimeoutRuns, Zenon
<1>5. RequestTimeout > 0 => netresolve_timeout_add_ms(RequestTimeout) = TRUE
  BY <1>1, TimeoutRuns, Zenon
<1>6. ResultTimeout > 0 => netresolve_timeout_add_ms(ResultTimeout) = TRUE
  BY <1>2, TimeoutRuns, Zenon
<1> QED  BY <1>3, <1>4, <1>5, <1>6

(* A query that has settled at a position of the list is a typed record.   *)
LEMMA SettledTyped ==
    ASSUME NEW r \in QueryRecord, NEW s \in 1..End, NEW v \in Outcome
    PROVE  Settled(r, s, v) \in QueryRecord
<1> DEFINE st == CASE v = "fail" -> "FAILED"
                   [] v \in {"found", "empty"} -> "RESOLVED"
                   [] v \in {"wait", "idle"} -> "WAITING"
           d == v \in {"found", "empty"} /\ netresolve_timeout_add_ms(0)
           e == /\ v \in {"wait", "idle"} /\ RequestTimeout > 0
                /\ netresolve_timeout_add_ms(RequestTimeout)
           f == v = "wait"
           g == r.paths \/ v = "found"
<1>1. st \in State
  BY DEF State, Outcome
<1>2. d \in BOOLEAN /\ e \in BOOLEAN /\ f \in BOOLEAN /\ g \in BOOLEAN
  BY TimersRun
<1>3. Settled(r, s, v) = [r EXCEPT !.backend = s, !.state = st, !.delayed = d, !.request = e,
                                   !.watch = f, !.paths = g]
  BY DEF Settled, QueryRecord
<1> HIDE DEF st, d, e, f, g
<1> QED  BY <1>1, <1>2, <1>3, Zenon DEF QueryRecord

(* The three ways in which set_state(SETUP) ends.                          *)
LEMMA SetupCases ==
    ASSUME NEW w \in Worlds, NEW q \in Query, NEW o \in Plan, NEW i \in 1..End,
           NEW frees \in BOOLEAN
    PROVE  \/ \E f \in Fault \ {"none"} : set_state_SETUP(w, q, o, i, frees) = Stop(w, f)
           \/ /\ Landing(w, q, o, i) # End
              /\ \A j \in Visited(w, q, o, i) : SetupFault(w, q, j) = "none"
              /\ set_state_SETUP(w, q, o, i, frees) = SetupWorld(w, q, o, i)
           \/ /\ Landing(w, q, o, i) = End
              /\ \A j \in Visited(w, q, o, i) : SetupFault(w, q, j) = "none"
              /\ \/ set_state_SETUP(w, q, o, i, frees) = callback(SetupWorld(w, q, o, i), q, frees)
                 \/ set_state_SETUP(w, q, o, i, frees)
                        = Touch(callback(SetupWorld(w, q, o, i), q, frees), q)
<1> DEFINE broken == {j \in Visited(w, q, o, i) : SetupFault(w, q, j) # "none"}
<1>1. CASE broken # {}
  <2>1. First(broken) \in broken
    BY <1>1, FirstIsLeast, ConstantsAssumption DEF Backend, Visited
  <2>2. SetupFault(w, q, First(broken)) \in Fault \ {"none"}
    BY <2>1, Zenon DEF SetupFault, Fault
  <2> QED  BY <1>1, <2>2, SMTT(40) DEF set_state_SETUP
<1>2. CASE broken = {}
  BY <1>2 DEF set_state_SETUP
<1> QED  BY <1>1, <1>2

(* The walk along failing setup functions ends at a position of the list.  *)
LEMMA LandingTyped ==
    ASSUME NEW w \in Worlds, NEW q \in Query, NEW o \in Plan, NEW i \in 1..End
    PROVE  /\ Landing(w, q, o, i) \in 1..End
           /\ Landing(w, q, o, i) # End =>
                /\ Landing(w, q, o, i) \in Backend
                /\ i <= Landing(w, q, o, i)
                /\ ~FallsThrough(w, q, o, Landing(w, q, o, i))
<1> DEFINE S == {j \in i..NBackends : ~FallsThrough(w, q, o, j)}
<1>1. S \in SUBSET Backend
  BY ConstantsAssumption DEF Backend
<1>2. Landing(w, q, o, i) = First(S \cup {End})
  BY DEF Landing
<1>3. Landing(w, q, o, i) \in 1..End /\ (Landing(w, q, o, i) # End => Landing(w, q, o, i) \in S)
  <2> HIDE DEF S
  <2> QED  BY <1>1, <1>2, FirstToEnd
<1> QED  BY <1>1, <1>3

(* The world in which the setups have come to rest is typed.               *)
LEMMA SetupWorldTyped ==
    ASSUME NEW w \in Worlds, NEW q \in Query, NEW o \in Plan, NEW i \in 1..End
    PROVE  SetupWorld(w, q, o, i) \in Worlds
<1> DEFINE s == Landing(w, q, o, i)
           v == IF s = End THEN "fail" ELSE o[s]
           w1 == SetupWorld(w, q, o, i)
<1>1. s \in 1..End /\ v \in Outcome
  BY LandingTyped, PlanTyped DEF Outcome
<1>2. Settled(w.query[q], s, v) \in QueryRecord
  BY <1>1, SettledTyped, WorldFacts
<1>3. \A r \in Query : [w.query[r] EXCEPT !.watch = FALSE] \in QueryRecord
  <2> TAKE r \in Query
  <2>1. w.query[r] \in QueryRecord
    BY WorldFacts
  <2> QED  BY <2>1, Zenon DEF QueryRecord
<1>4. w1.query \in [Query -> QueryRecord]
  <2> HIDE DEF s
  <2> QED BY <1>2, <1>3, WorldFacts DEF SetupWorld, s
<1>5. w1.data \in [Backend -> Query \cup {NoQuery}]
  BY WorldFacts DEF SetupWorld
<1>6. w1.cleanup \in [Backend -> BOOLEAN]
  BY WorldFacts DEF SetupWorld
<1>7. w1.fault \in Fault
  BY WorldFacts DEF SetupWorld
<1>8. w1 = [query |-> w1.query, data |-> w1.data, cleanup |-> w1.cleanup, fault |-> w1.fault]
  BY DEF SetupWorld
<1> HIDE DEF w1
<1> QED  BY <1>4, <1>5, <1>6, <1>7, <1>8 DEF Worlds, w1

(* set_state(SETUP), with everything it leads to, keeps a world typed.     *)
LEMMA SetupTyped ==
    ASSUME NEW w \in Worlds, NEW q \in Query, NEW o \in Plan, NEW i \in 1..End,
           NEW frees \in BOOLEAN
    PROVE  set_state_SETUP(w, q, o, i, frees) \in Worlds
<1> DEFINE w1 == SetupWorld(w, q, o, i)
<1>1. w1 \in Worlds /\ callback(w1, q, frees) \in Worlds
  BY SetupWorldTyped, CallbackTyped
<1>2. Touch(callback(w1, q, frees), q) \in Worlds
  BY <1>1, TouchTyped
<1>3. \A f \in Fault : Stop(w, f) \in Worlds
  BY StopTyped
<1> HIDE DEF w1
<1> QED  BY <1>1, <1>2, <1>3, SetupCases DEF w1

(* set_state(DONE) keeps a world typed: the search for a mandatory backend *)
(* does not leave the list.                                                *)
LEMMA DoneTyped ==
    ASSUME NEW w \in Worlds, NEW q \in Query, NEW o \in Plan, NEW frees \in BOOLEAN
    PROVE  set_state_DONE(w, q, o, frees) \in Worlds
<1> DEFINE b == w.query[q].backend
           r == [w.query[q] EXCEPT !.state = "DONE"]
           w1 == cleanup_query(Put(w, q, r), q)
           m == First({j \in Mandatory : j > b} \cup {End})
           w2 == IF m = End THEN Put(w1, q, [w1.query[q] EXCEPT !.backend = End])
                 ELSE set_state_SETUP(w1, q, o, m, frees)
<1>0. w.query[q] \in QueryRecord
  BY WorldFacts
<1>1. r \in QueryRecord
  BY <1>0 DEF QueryRecord, State
<1>2. w1 \in Worlds /\ w1.query[q] \in QueryRecord
  BY <1>1, PutFacts, CleanupTyped, WorldFacts
<1>3. m \in 1..End
  <2>1. {j \in Mandatory : j > b} \in SUBSET Backend
    BY ConstantsAssumption
  <2> QED  BY <2>1, FirstToEnd, Zenon
<1>4. w2 \in Worlds
  <2> HIDE DEF m, w1
  <2>1. [w1.query[q] EXCEPT !.backend = End] \in QueryRecord
    BY <1>2, BackendRange DEF QueryRecord
  <2> QED  BY <1>2, <1>3, <2>1, PutFacts, SetupTyped
<1>5. callback(Touch(w2, q), q, frees) \in Worlds
  <2> HIDE DEF w2
  <2> QED  BY <1>4, TouchTyped, CallbackTyped
<1>6. Stop(w1, "overrun") \in Worlds
  <2> HIDE DEF w1
  <2> QED  BY <1>2, StopTyped DEF Fault
<1> QED  BY <1>5, <1>6 DEF set_state_DONE

(* set_state(FAILED) keeps a world typed: the step to the next backend     *)
(* does not leave the list.                                                *)
LEMMA FailedTyped ==
    ASSUME NEW w \in Worlds, NEW q \in Query, NEW o \in Plan, NEW frees \in BOOLEAN
    PROVE  set_state_FAILED(w, q, o, frees) \in Worlds
<1> DEFINE b == w.query[q].backend
           r == [w.query[q] EXCEPT !.state = "FAILED"]
           w1 == cleanup_query(Put(w, q, r), q)
           w2 == Put(w1, q, [w1.query[q] EXCEPT !.backend = End])
<1>1. r \in QueryRecord /\ b \in 1..End
  BY WorldFacts DEF QueryRecord, State
<1>2. w1 \in Worlds /\ w1.query[q] \in QueryRecord
  BY <1>1, PutFacts, CleanupTyped, WorldFacts
<1> HIDE DEF w1
<1>3. w2 \in Worlds
  <2>1. [w1.query[q] EXCEPT !.backend = End] \in QueryRecord
    BY <1>2, BackendRange DEF QueryRecord
  <2> QED  BY <1>2, <2>1, PutFacts
<1>4. callback(w2, q, frees) \in Worlds
  <2> HIDE DEF w2
  <2> QED  BY <1>3, CallbackTyped
<1>5. b # End => set_state_SETUP(w1, q, o, b + 1, frees) \in Worlds
  BY <1>1, <1>2, SetupTyped, BackendRange
<1>6. Stop(w1, "overrun") \in Worlds
  BY <1>2, StopTyped DEF Fault
<1> QED  BY <1>4, <1>5, <1>6 DEF set_state_FAILED, w1

(* What netresolve_query_dispatch does after the callback keeps a world    *)
(* typed.                                                                  *)
LEMMA AfterTyped ==
    ASSUME NEW w \in Worlds, NEW q \in Query, NEW o \in Plan, NEW frees \in BOOLEAN
    PROVE  after_dispatch(w, q, o, frees) \in Worlds
<1> DEFINE w1 == Touch(w, q)
           w2 == IF w1.query[q].state = "RESOLVED"
                 THEN Touch(set_state_DONE(w1, q, o, frees), q)
                 ELSE w1
<1>1. w1 \in Worlds
  BY TouchTyped
<1>2. w2 \in Worlds
  <2> HIDE DEF w1
  <2> QED  BY <1>1, DoneTyped, TouchTyped
<1>3. set_state_FAILED(w2, q, o, frees) \in Worlds
  <2> HIDE DEF w2
  <2> QED  BY <1>2, FailedTyped
<1> QED  BY <1>2, <1>3 DEF after_dispatch

(* netresolve_backend_add_path keeps a world typed.                        *)
LEMMA AddPathTyped ==
    ASSUME NEW w \in Worlds, NEW q \in Query, NEW o \in Plan, NEW frees \in BOOLEAN
    PROVE  add_path(w, q, o, frees) \in Worlds
<1> DEFINE r == [w.query[q] EXCEPT !.paths = TRUE]
           t == ResultTimeout > 0 /\ netresolve_timeout_add_ms(ResultTimeout)
           more == [r EXCEPT !.state = "WAITING_MORE", !.result = t]
<1>0. w.query[q] \in QueryRecord
  BY WorldFacts
<1>1. r \in QueryRecord
  BY <1>0, Zenon DEF QueryRecord
<1>2. t \in BOOLEAN
  <2> HIDE DEF r
  <2> QED  BY TimersRun
<1>3. more \in QueryRecord
  <2> HIDE DEF r, t
  <2> QED  BY <1>1, <1>2, Zenon DEF QueryRecord, State
<1>4. Put(w, q, r) \in Worlds /\ Put(w, q, more) \in Worlds
  <2> HIDE DEF r, more
  <2> QED  BY <1>1, <1>3, PutFacts
<1>5. Stop(set_state_DONE(Put(w, q, more), q, o, frees), "freed_priv") \in Worlds
  <2> HIDE DEF more
  <2> QED  BY <1>4, DoneTyped, StopTyped DEF Fault
<1> QED  BY <1>4, <1>5 DEF add_path
-----------------------------------------------------------------------------
(* The inductive invariant, on worlds.                                     *)

Waiting == {"WAITING", "WAITING_MORE"}

Silent(r) == ~r.delayed /\ ~r.request /\ ~r.result

(* A query between two handlers.                                           *)
Resting(r) ==
    /\ r.delayed <=> r.life = "live" /\ r.state = "RESOLVED"
    /\ r.request => r.life = "live" /\ r.state \in Waiting
    /\ r.result => r.life = "live" /\ r.state = "WAITING_MORE"
    /\ r.life = "live" => r.state \in Waiting \cup {"RESOLVED"} \cup Finished
    /\ r.life = "live" /\ RequestTimeout > 0 /\ r.state \in Waiting => r.request
    /\ r.state \in Finished => r.life = "live" /\ r.backend = End

(* Who holds a state object and who has watches; p is a query in the       *)
(* middle of a handler, of which only the place in the list is required.   *)
Owned(w, p) ==
    /\ \A b \in Backend : w.data[b] # NoQuery =>
          /\ b \in Stateful /\ w.cleanup[b]
          /\ w.query[w.data[b]].backend = b
          /\ w.query[w.data[b]].life = "live"
          /\ w.data[b] # p => w.query[w.data[b]].state \notin Finished
    /\ \A r \in Query : w.query[r].watch =>
          /\ w.query[r].backend \in Backend
          /\ w.data[w.query[r].backend] = r

Good(w) ==
    /\ w \in Worlds
    /\ \A r \in Query : Resting(w.query[r])
    /\ Owned(w, NoQuery)

Held(w, q) ==
    /\ w \in Worlds
    /\ w.query[q].life = "live"
    /\ \A r \in Query : r # q => Resting(w.query[r])
    /\ Owned(w, q)

Detached(w, q) ==
    /\ Held(w, q)
    /\ Silent(w.query[q]) /\ ~w.query[q].watch
    /\ \A b \in Backend : w.data[b] # q

(* Ownership is about the queries, the state objects and the cleanup       *)
(* handlers, and nothing else of the world.                                *)
LEMMA OwnedSame ==
    ASSUME NEW w, NEW v, NEW p, Owned(w, p),
           v.query = w.query, v.data = w.data, v.cleanup = w.cleanup
    PROVE  Owned(v, p)
<1>1. ASSUME NEW b \in Backend, v.data[b] # NoQuery
      PROVE  /\ b \in Stateful /\ v.cleanup[b]
             /\ v.query[v.data[b]].backend = b
             /\ v.query[v.data[b]].life = "live"
             /\ v.data[b] # p => v.query[v.data[b]].state \notin Finished
  BY <1>1 DEF Owned
<1>2. ASSUME NEW x \in Query, v.query[x].watch
      PROVE  v.query[x].backend \in Backend /\ v.data[v.query[x].backend] = x
  BY <1>2 DEF Owned
<1> QED  BY <1>1, <1>2 DEF Owned

(* A change of one query keeps ownership, as long as the query stays at    *)
(* its backend and opens no watch, and holds no state object if it ends.   *)
LEMMA OwnedCarries ==
    ASSUME NEW w, NEW v, NEW p, NEW q, NEW c \in Query, Owned(w, p),
           v.data = w.data, v.cleanup = w.cleanup,
           \A x \in Query : x # c => v.query[x] = w.query[x],
           \A b \in Backend : w.data[b] \in Query \cup {NoQuery},
           v.query[c].watch => w.query[c].watch /\ v.query[c].backend = w.query[c].backend,
           \A b \in Backend : w.data[b] = c =>
               /\ v.query[c].backend = w.query[c].backend
               /\ v.query[c].life = "live"
               /\ c # q => v.query[c].state \notin Finished,
           p \in {c, q, NoQuery}
    PROVE  Owned(v, q)
<1>1. ASSUME NEW b \in Backend, v.data[b] # NoQuery
      PROVE  /\ b \in Stateful /\ v.cleanup[b]
             /\ v.query[v.data[b]].backend = b
             /\ v.query[v.data[b]].life = "live"
             /\ v.data[b] # q => v.query[v.data[b]].state \notin Finished
  <2> DEFINE d == w.data[b]
  <2>1. d # NoQuery /\ d \in Query /\ v.data[b] = d
    BY <1>1
  <2>2. /\ b \in Stateful /\ w.cleanup[b] /\ w.query[d].backend = b /\ w.query[d].life = "live"
        /\ d # p => w.query[d].state \notin Finished
    BY <2>1 DEF Owned
  <2>3. CASE d = c
    BY <2>1, <2>2, <2>3
  <2>4. CASE d # c
    <3>1. v.query[d] = w.query[d]
      BY <2>1, <2>4
    <3>2. d # q => d # p
      BY <2>1, <2>4
    <3> QED  BY <2>1, <2>2, <3>1, <3>2
  <2> QED  BY <2>3, <2>4
<1>2. ASSUME NEW x \in Query, v.query[x].watch
      PROVE  v.query[x].backend \in Backend /\ v.data[v.query[x].backend] = x
  <2>1. w.query[x].watch /\ v.query[x].backend = w.query[x].backend
    BY <1>2
  <2>2. w.query[x].backend \in Backend /\ w.data[w.query[x].backend] = x
    BY <2>1 DEF Owned
  <2> QED  BY <2>1, <2>2
<1> QED  BY <1>1, <1>2 DEF Owned

(* Between two handlers a live query is in the condition in which a        *)
(* handler may take it up.                                                 *)
LEMMA GoodIsHeld ==
    ASSUME NEW w, NEW q \in Query, Good(w), w.query[q].life = "live"
    PROVE  Held(w, q)
<1>1. Owned(w, q)
  <2>1. \A b \in Backend : w.data[b] \in Query \cup {NoQuery}
    BY WorldFacts DEF Good
  <2> QED  BY <2>1, ConstantsAssumption DEF Good, Owned
<1> QED  BY <1>1 DEF Good, Held

(* What a handler may do to its own query: it stays Held as long as it     *)
(* stays where it is and its watches do not grow.                          *)
LEMMA PutHeld ==
    ASSUME NEW w, NEW q \in Query, Held(w, q), NEW r \in QueryRecord,
           r.life = "live", r.backend = w.query[q].backend, r.watch => w.query[q].watch
    PROVE  Held(Put(w, q, r), q)
<1> DEFINE v == Put(w, q, r)
<1>0. w \in Worlds
  BY DEF Held
<1>1. /\ v \in Worlds /\ v.query[q] = r /\ v.data = w.data /\ v.cleanup = w.cleanup
      /\ \A p \in Query : p # q => v.query[p] = w.query[p]
  BY <1>0, PutFacts
<1> HIDE DEF v
<1>2. \A b \in Backend : w.data[b] \in Query \cup {NoQuery}
  BY <1>0, WorldFacts
<1>3. Owned(v, q)
  BY <1>1, <1>2 DEF Owned, Held
<1>4. Held(v, q)
  BY <1>1, <1>3 DEF Held
<1> QED  BY <1>4 DEF v

(* A process that was stopped has a fault.                                 *)
LEMMA StopFaults ==
    ASSUME NEW w \in Worlds, NEW f \in Fault \ {"none"}
    PROVE  Stop(w, f).fault # "none"
BY DEF Stop, Worlds

(* Releasing a state object, be it one's own or another query's.           *)
LEMMA UnprivateHeld ==
    ASSUME NEW w, NEW q \in Query, NEW b \in Backend, Held(w, q),
           unprivate(w, b).fault = "none"
    PROVE  LET v == unprivate(w, b) IN
           /\ w.fault = "none"
           /\ Held(v, q)
           /\ v.query[q] \in {w.query[q], [w.query[q] EXCEPT !.watch = FALSE]}
           /\ \A j \in Backend : v.data[j] = IF j = b THEN NoQuery ELSE w.data[j]
<1> DEFINE v == unprivate(w, b)
           p == w.data[b]
           r == [w.query[p] EXCEPT !.watch = FALSE]
           u == Put(w, p, r)
<1>0. w \in Worlds
  BY DEF Held
<1>1. w.data[b] # NoQuery
  BY <1>0, StopFaults DEF unprivate, Fault
<1>2. p \in Query /\ w.query[p] \in QueryRecord
  BY <1>0, <1>1, WorldFacts
<1>3. /\ r \in QueryRecord /\ ~r.watch
      /\ r.life = w.query[p].life /\ r.backend = w.query[p].backend
      /\ r.state = w.query[p].state /\ r.delayed = w.query[p].delayed
      /\ r.request = w.query[p].request /\ r.result = w.query[p].result
  BY <1>2, Zenon DEF QueryRecord
<1>4. /\ u \in Worlds /\ u.query[p] = r /\ u.data = w.data /\ u.cleanup = w.cleanup
      /\ \A x \in Query : x # p => u.query[x] = w.query[x]
      /\ u.fault = w.fault
  <2> HIDE DEF r, p
  <2> QED  BY <1>0, <1>2, <1>3, PutFacts
<1>5. v = [u EXCEPT !.data[b] = NoQuery]
  BY <1>1 DEF unprivate
<1>6. /\ v.query = u.query /\ v.cleanup = u.cleanup /\ v.fault = u.fault
      /\ \A j \in Backend : v.data[j] = IF j = b THEN NoQuery ELSE u.data[j]
  <2> HIDE DEF u, v
  <2> QED  BY <1>4, <1>5 DEF Worlds
<1>7. v \in Worlds
  BY <1>0, UnprivateTyped
<1> HIDE DEF v, u, r
<1>8. \A x \in Query : x # q => Resting(v.query[x])
  <2> TAKE x \in Query
  <2> HAVE x # q
  <2>1. Resting(w.query[x])
    BY DEF Held
  <2>2. CASE x # p
    BY <2>1, <2>2, <1>4, <1>6
  <2>3. CASE x = p
    <3>1. v.query[x] = r
      BY <2>3, <1>4, <1>6
    <3>2. Resting(w.query[p])
      BY <2>1, <2>3
    <3> HIDE DEF p
    <3>3. Resting(r)
      BY <3>2, <1>3 DEF Resting
    <3> QED  BY <3>1, <3>3
  <2> QED  BY <2>2, <2>3
<1>9. \A j \in Backend : w.data[j] \in Query \cup {NoQuery}
  BY <1>0, WorldFacts
<1>10. w.query[p].backend = b
  BY <1>1 DEF Held, Owned
<1>11. Owned(v, q)
  <2>1. ASSUME NEW j \in Backend, v.data[j] # NoQuery
        PROVE  /\ j \in Stateful /\ v.cleanup[j]
               /\ v.query[v.data[j]].backend = j
               /\ v.query[v.data[j]].life = "live"
               /\ v.data[j] # q => v.query[v.data[j]].state \notin Finished
    <3>1. j # b /\ v.data[j] = w.data[j] /\ v.cleanup = w.cleanup
      BY <2>1, <1>4, <1>6
    <3>2. w.data[j] \in Query /\ w.data[j] # NoQuery
      BY <2>1, <3>1, <1>9
    <3>3. /\ j \in Stateful /\ w.cleanup[j]
          /\ w.query[w.data[j]].backend = j
          /\ w.query[w.data[j]].life = "live"
          /\ w.data[j] # q => w.query[w.data[j]].state \notin Finished
      BY <3>2 DEF Held, Owned
    <3>4. \A x \in Query : /\ v.query[x].backend = w.query[x].backend
                           /\ v.query[x].life = w.query[x].life
                           /\ v.query[x].state = w.query[x].state
      <4> HIDE DEF p
      <4> QED  BY <1>2, <1>3, <1>4, <1>6
    <3> QED  BY <3>1, <3>2, <3>3, <3>4
  <2>2. ASSUME NEW x \in Query, v.query[x].watch
        PROVE  v.query[x].backend \in Backend /\ v.data[v.query[x].backend] = x
    <3>1. x # p
      BY <2>2, <1>3, <1>4, <1>6
    <3>2. w.query[x].watch /\ v.query[x] = w.query[x]
      BY <3>1, <2>2, <1>4, <1>6
    <3>3. w.query[x].backend \in Backend /\ w.data[w.query[x].backend] = x
      BY <3>2 DEF Held, Owned
    <3> QED  BY <3>1, <3>2, <3>3, <1>4, <1>6
  <2> QED  BY <2>1, <2>2 DEF Owned
<1>12. v.query[q].life = "live" /\ v.query[q] \in {w.query[q], [w.query[q] EXCEPT !.watch = FALSE]}
  BY <1>2, <1>3, <1>4, <1>6, ZenonT(40) DEF Held, r
<1>13. Held(v, q)
  BY <1>7, <1>8, <1>11, <1>12 DEF Held
<1> QED  BY <1>4, <1>6, <1>12, <1>13 DEF v

(* cleanup_query leaves its query without timers, watches and state        *)
(* object, and in its place.                                               *)
LEMMA CleanupDetaches ==
    ASSUME NEW w, NEW q \in Query, Held(w, q), cleanup_query(w, q).fault = "none"
    PROVE  LET v == cleanup_query(w, q) IN
           /\ w.fault = "none"
           /\ Detached(v, q)
           /\ v.query[q].backend = w.query[q].backend
           /\ v.query[q].state = w.query[q].state
<1> DEFINE v == cleanup_query(w, q)
           b == w.query[q].backend
           r == [w.query[q] EXCEPT !.delayed = FALSE, !.request = FALSE, !.result = FALSE]
           w1 == Put(w, q, r)
<1>0. w \in Worlds /\ w.query[q] \in QueryRecord
  BY WorldFacts DEF Held
<1>1. /\ r \in QueryRecord /\ Silent(r) /\ r.life = "live" /\ r.backend = b
      /\ r.state = w.query[q].state /\ r.watch = w.query[q].watch
  BY <1>0, Zenon DEF QueryRecord, Silent, Held
<1>2. Held(w1, q)
  <2> HIDE DEF r
  <2> QED  BY <1>1, PutHeld
<1>3. w1.query[q] = r /\ w1.data = w.data /\ w1.cleanup = w.cleanup /\ w1.fault = w.fault
  <2> HIDE DEF r
  <2> QED  BY <1>0, <1>1, PutFacts
<1>4. b \in 1..End
  BY <1>0 DEF QueryRecord
<1> HIDE DEF r, w1
<1>5. CASE b = End \/ ~w.cleanup[b]
  <2>1. v = w1
    BY <1>5, Zenon DEF cleanup_query, w1, r
  <2>2. \A j \in Backend : w1.data[j] # q
    <3> SUFFICES ASSUME NEW j \in Backend, w1.data[j] = q  PROVE FALSE
      OBVIOUS
    <3>1. q # NoQuery
      BY ConstantsAssumption
    <3>2. Owned(w1, q)
      BY <1>2 DEF Held
    <3>3. w1.cleanup[j] /\ w1.query[q].backend = j
      BY <3>1, <3>2 DEF Owned
    <3>4. b = j /\ w.cleanup[j]
      BY <3>3, <1>1, <1>3
    <3> QED  BY <3>4, <1>5, BackendRange
  <2>3. ~w1.query[q].watch
    BY <1>2, <2>2 DEF Held, Owned
  <2> QED  BY <1>1, <1>2, <1>3, <2>1, <2>2, <2>3 DEF Detached
<1>6. CASE b # End /\ w.cleanup[b]
  <2>1. v = unprivate(w1, b)
    BY <1>6, Zenon DEF cleanup_query, w1, r
  <2>2. b \in Backend
    BY <1>4, <1>6, BackendRange
  <2> HIDE DEF v, b
  <2>3. /\ w1.fault = "none" /\ Held(v, q)
        /\ v.query[q] \in {r, [r EXCEPT !.watch = FALSE]}
        /\ v.data[b] = NoQuery
    BY <1>2, <1>3, <2>1, <2>2, UnprivateHeld DEF v
  <2>4. v.query[q].backend = b /\ v.query[q].state = w.query[q].state /\ Silent(v.query[q])
    BY <1>1, <2>3 DEF QueryRecord, Silent
  <2>5. \A j \in Backend : v.data[j] # q
    BY <2>3, <2>4, ConstantsAssumption DEF Held, Owned
  <2>6. ~v.query[q].watch
    BY <2>3, <2>5 DEF Held, Owned
  <2> QED  BY <1>3, <2>3, <2>4, <2>5, <2>6 DEF Detached, v, b
<1> QED  BY <1>5, <1>6

(* Once a detached query has come to rest, the world is good.              *)
LEMMA DetachedRests ==
    ASSUME NEW w, NEW q \in Query, Detached(w, q), NEW r \in QueryRecord, Resting(r), ~r.watch
    PROVE  Good(Put(w, q, r))
<1> DEFINE v == Put(w, q, r)
<1>0. w \in Worlds
  BY DEF Detached, Held
<1>1. /\ v \in Worlds /\ v.query[q] = r /\ v.data = w.data /\ v.cleanup = w.cleanup
      /\ \A p \in Query : p # q => v.query[p] = w.query[p]
  BY <1>0, PutFacts
<1> HIDE DEF v
<1>2. \A b \in Backend : w.data[b] \in Query \cup {NoQuery}
  BY <1>0, WorldFacts
<1>3. Owned(v, NoQuery)
  BY <1>1, <1>2 DEF Detached, Held, Owned
<1>4. Good(v)
  BY <1>1, <1>3 DEF Detached, Held, Good
<1> QED  BY <1>4 DEF v

(* netresolve_query_free leaves a good world, or a fault.                  *)
LEMMA FreeGood ==
    ASSUME NEW w, NEW q \in Query, Held(w, q), netresolve_query_free(w, q).fault = "none"
    PROVE  LET v == netresolve_query_free(w, q) IN
           w.fault = "none" /\ Good(v) /\ v.query[q].life = "freed"
<1> DEFINE v == netresolve_query_free(w, q)
           w1 == cleanup_query(w, q)
           r == [w1.query[q] EXCEPT !.life = "freed", !.state = "NONE", !.paths = FALSE]
<1>0. w1 \in Worlds /\ w1.query[q] \in QueryRecord
  BY CleanupTyped, WorldFacts DEF Held
<1>1. v = Put(w1, q, r)
  BY <1>0, StopFaults, Zenon DEF netresolve_query_free, Fault
<1> HIDE DEF v, w1
<1>2. r \in QueryRecord
  BY <1>0, Zenon DEF QueryRecord, State
<1>3. v.fault = w1.fault /\ v.query[q] = r
  <2> HIDE DEF r
  <2> QED  BY <1>0, <1>1, <1>2, PutFacts
<1>4. w.fault = "none" /\ Detached(w1, q)
  BY <1>3, CleanupDetaches DEF v, w1
<1>5. Resting(r) /\ ~r.watch
  BY <1>0, <1>2, <1>4 DEF Detached, Silent, Resting, QueryRecord, Finished
<1>6. Good(v)
  <2> HIDE DEF r
  <2> QED  BY <1>1, <1>2, <1>4, <1>5, DetachedRests
<1>7. v.query[q].life = "freed"
  BY <1>0, <1>3 DEF QueryRecord
<1> QED  BY <1>4, <1>6, <1>7 DEF v

(* The callback, whether it frees the query or not, keeps the world good.  *)
LEMMA CallbackGood ==
    ASSUME NEW w, NEW q \in Query, NEW frees \in BOOLEAN, Good(w), w.query[q].life = "live",
           callback(w, q, frees).fault = "none"
    PROVE  LET v == callback(w, q, frees) IN
           w.fault = "none" /\ Good(v) /\ v.query[q].life # "unused"
<1> DEFINE v == callback(w, q, frees)
           r == [w.query[q] EXCEPT !.called = @ + 1]
           w1 == Put(w, q, r)
<1>0. w \in Worlds /\ w.query[q] \in QueryRecord
  BY WorldFacts DEF Good
<1>1. /\ r \in QueryRecord /\ r.life = "live" /\ r.backend = w.query[q].backend
      /\ r.watch = w.query[q].watch /\ r.state = w.query[q].state
      /\ Resting(r) <=> Resting(w.query[q])
  BY <1>0 DEF QueryRecord, Resting
<1> HIDE DEF r
<1>2. /\ w1 \in Worlds /\ w1.query[q] = r /\ w1.data = w.data /\ w1.cleanup = w.cleanup
      /\ \A p \in Query : p # q => w1.query[p] = w.query[p]
      /\ w1.fault = w.fault
  BY <1>0, <1>1, PutFacts
<1> HIDE DEF w1
<1>3. \A b \in Backend : w.data[b] \in Query \cup {NoQuery}
  BY <1>0, WorldFacts
<1>4. Owned(w1, NoQuery)
  BY <1>1, <1>2, <1>3, SMTT(60) DEF Good, Owned
<1>5. Good(w1)
  BY <1>1, <1>2, <1>4 DEF Good
<1>6. CASE frees
  <2>1. v = netresolve_query_free(w1, q)
    BY <1>6, Zenon DEF callback, w1, r
  <2>2. Held(w1, q)
    BY <1>1, <1>2, <1>5, GoodIsHeld
  <2> QED  BY <2>1, <2>2, <1>2, FreeGood
<1>7. CASE ~frees
  <2>1. v = w1
    BY <1>7, Zenon DEF callback, w1, r
  <2> QED  BY <2>1, <1>1, <1>2, <1>5
<1> QED  BY <1>6, <1>7

(* Where the query settles, its timers fit its state.                      *)
LEMMA SettledRests ==
    ASSUME NEW w, NEW q \in Query, Detached(w, q), NEW o \in Plan, NEW i \in 1..End
    PROVE  LET s == Landing(w, q, o, i)
               r == Settled(w.query[q], s, IF s = End THEN "fail" ELSE o[s])
           IN  /\ Resting(r) /\ r.life = "live" /\ r.backend = s
               /\ s # End => r.state \notin Finished
               /\ r.watch => s \in Stateful
<1> DEFINE s == Landing(w, q, o, i)
           v == IF s = End THEN "fail" ELSE o[s]
           p == w.query[q]
           r == Settled(p, s, v)
<1>0. w \in Worlds /\ p \in QueryRecord /\ p.life = "live" /\ Silent(p)
  BY WorldFacts DEF Detached, Held
<1>1. /\ s \in 1..End /\ v \in Outcome
      /\ s = End => v = "fail"
      /\ s # End => s \in Backend /\ ~FallsThrough(w, q, o, s)
  BY <1>0, LandingTyped, PlanTyped DEF Outcome
<1>2. s # End => v # "fail" /\ (v \in {"wait", "idle"} => s \in Stateful /\ RequestTimeout # 0)
  BY <1>1 DEF FallsThrough, Plan
<1> HIDE DEF s, v, p
<1>3. /\ r.life = "live" /\ r.backend = s /\ r.result = p.result
      /\ r.delayed <=> v \in {"found", "empty"}
      /\ r.request <=> v \in {"wait", "idle"} /\ RequestTimeout > 0
      /\ r.watch = (v = "wait")
      /\ r.state = CASE v = "fail" -> "FAILED"
                     [] v \in {"found", "empty"} -> "RESOLVED"
                     [] v \in {"wait", "idle"} -> "WAITING"
  BY <1>0, TimersRun, Zenon DEF Settled, QueryRecord
<1> HIDE DEF r
<1>4. /\ v = "fail" => r.state = "FAILED"
      /\ v \in {"found", "empty"} => r.state = "RESOLVED"
      /\ v \in {"wait", "idle"} => r.state = "WAITING"
  BY <1>3
<1>5. Resting(r)
  <2>1. CASE v = "fail"
    BY <2>1, <1>0, <1>1, <1>2, <1>3, <1>4 DEF Resting, Silent, Waiting, Finished
  <2>2. CASE v \in {"found", "empty"}
    BY <2>2, <1>0, <1>3, <1>4 DEF Resting, Silent, Waiting, Finished
  <2>3. CASE v \in {"wait", "idle"}
    BY <2>3, <1>0, <1>3, <1>4 DEF Resting, Silent, Waiting, Finished
  <2> QED  BY <2>1, <2>2, <2>3, <1>1 DEF Outcome
<1>6. (s # End => r.state \notin Finished) /\ (r.watch => s \in Stateful)
  BY <1>1, <1>2, <1>3, <1>4, Zenon DEF Outcome, Finished
<1> QED  BY <1>3, <1>5, <1>6 DEF r, v, s, p

(* The walk of set_state(SETUP) leaves the world good: a state object it   *)
(* meets is taken from a query only along with that query's watches.       *)
LEMMA SetupWorldGood ==
    ASSUME NEW w, NEW q \in Query, Detached(w, q), NEW o \in Plan, NEW i \in 1..End,
           \A j \in Visited(w, q, o, i) : SetupFault(w, q, j) = "none"
    PROVE  LET v == SetupWorld(w, q, o, i) IN
           /\ v.fault = w.fault /\ Good(v) /\ v.query[q].life = "live"
<1> DEFINE v == SetupWorld(w, q, o, i)
           s == Landing(w, q, o, i)
           able == Supports[w.query[q].type]
           visited == Visited(w, q, o, i)
           r == Settled(w.query[q], s, IF s = End THEN "fail" ELSE o[s])
<1>0. w \in Worlds /\ \A p \in Query : w.query[p] \in QueryRecord
  BY WorldFacts DEF Detached, Held
<1>1. v \in Worlds
  BY <1>0, SetupWorldTyped
<1>2. /\ Resting(r) /\ r.life = "live" /\ r.backend = s
      /\ s # End => r.state \notin Finished
      /\ r.watch => s \in Stateful
  BY SettledRests
<1>3. /\ s # End => s \in Backend /\ s \in visited /\ s \in able
      /\ s \in 1..End
  BY <1>0, LandingTyped, SMTT(60) DEF Visited, FallsThrough, Backend
<1>4. /\ v.query[q] = r /\ v.fault = w.fault
      /\ \A p \in Query : p # q => v.query[p] =
            IF \E j \in visited \ able : p = w.data[j]
            THEN [w.query[p] EXCEPT !.watch = FALSE] ELSE w.query[p]
      /\ \A j \in Backend : v.data[j] = IF j \notin visited THEN w.data[j]
                                        ELSE IF j = s /\ j \in Stateful THEN q ELSE NoQuery
      /\ \A j \in Backend : v.cleanup[j] = (w.cleanup[j] \/ j \in visited \cap able \cap Stateful)
  BY DEF SetupWorld
<1>5. visited \subseteq Backend
  BY DEF Visited
<1> HIDE DEF v, r, s
<1>6. ASSUME NEW p \in Query, p # q
      PROVE  /\ v.query[p].life = w.query[p].life /\ v.query[p].backend = w.query[p].backend
             /\ v.query[p].state = w.query[p].state /\ v.query[p].delayed = w.query[p].delayed
             /\ v.query[p].request = w.query[p].request /\ v.query[p].result = w.query[p].result
             /\ v.query[p].watch => /\ w.query[p].watch
                                    /\ \A j \in visited \ able : p # w.data[j]
  <2> HIDE DEF visited, able
  <2>1. w.query[p] \in QueryRecord
    BY <1>0
  <2>2. CASE \E j \in visited \ able : p = w.data[j]
    <3>1. v.query[p] = [w.query[p] EXCEPT !.watch = FALSE]
      BY <2>2, <1>4, <1>6
    <3> QED  BY <3>1, <2>1 DEF QueryRecord
  <2>3. CASE ~(\E j \in visited \ able : p = w.data[j])
    <3>1. v.query[p] = w.query[p]
      BY <2>3, <1>4, <1>6, Zenon
    <3> QED  BY <3>1, <2>3
  <2> QED  BY <2>2, <2>3
<1>7. \A p \in Query : Resting(v.query[p])
  <2>1. ASSUME NEW p \in Query, p # q PROVE Resting(v.query[p])
    <3>1. Resting(w.query[p])
      BY <2>1 DEF Detached, Held
    <3> QED  BY <2>1, <3>1, <1>6 DEF Resting
  <2> QED  BY <2>1, <1>2, <1>4
<1>8. ASSUME NEW j \in Backend, v.data[j] # NoQuery
      PROVE  /\ j \in Stateful /\ v.cleanup[j]
             /\ v.query[v.data[j]].backend = j
             /\ v.query[v.data[j]].life = "live"
             /\ v.query[v.data[j]].state \notin Finished
  <2>1. CASE j \notin visited
    <3> HIDE DEF visited, able
    <3>1. v.data[j] = w.data[j] /\ w.data[j] # q /\ w.data[j] \in Query
      BY <2>1, <1>0, <1>4, <1>8, WorldFacts DEF Detached
    <3>2. /\ j \in Stateful /\ w.cleanup[j] /\ w.query[w.data[j]].backend = j
          /\ w.query[w.data[j]].life = "live" /\ w.query[w.data[j]].state \notin Finished
      BY <3>1, <1>8 DEF Detached, Held, Owned
    <3>3. v.cleanup[j]
      BY <3>2, <1>4, Zenon
    <3>4. /\ v.query[w.data[j]].backend = j /\ v.query[w.data[j]].life = "live"
          /\ v.query[w.data[j]].state \notin Finished
      BY <3>1, <3>2, <1>6
    <3> QED  BY <3>1, <3>2, <3>3, <3>4
  <2>2. CASE j \in visited
    <3> HIDE DEF visited, able
    <3>1. v.data[j] = q /\ j = s /\ j \in Stateful
      BY <2>2, <1>4, <1>8, Zenon
    <3>2. s # End
      BY <3>1, BackendRange, Zenon
    <3> QED  BY <3>1, <3>2, <1>2, <1>3, <1>4, Zenon
  <2> QED  BY <2>1, <2>2, Zenon
<1>9. ASSUME NEW p \in Query, v.query[p].watch
      PROVE  v.query[p].backend \in Backend /\ v.data[v.query[p].backend] = p
  <2>1. CASE p = q
    <3>1. s \in Stateful /\ v.query[p].backend = s
      BY <2>1, <1>9, <1>2, <1>4, Zenon
    <3>2. s \in Backend /\ s # End
      BY <3>1, ConstantsAssumption, BackendRange, Zenon
    <3> QED  BY <3>1, <3>2, <2>1, <1>3, <1>4, Zenon
  <2>2. CASE p # q
    <3> DEFINE c == w.query[p].backend
    <3>1. /\ w.query[p].watch /\ v.query[p].backend = c
          /\ \A j \in visited \ able : p # w.data[j]
      BY <2>2, <1>6, <1>9, Zenon
    <3>2. c \in Backend /\ w.data[c] = p /\ p # NoQuery
      BY <3>1, ConstantsAssumption DEF Detached, Held, Owned
    <3>3. c \in Stateful
      BY <3>2, Zenon DEF Detached, Held, Owned
    <3>4. c \notin visited
      <4>1. SUFFICES ASSUME c \in visited PROVE FALSE
        BY Zenon
      <4>2. c \in able
        BY <3>1, <3>2, <4>1, Zenon
      <4> QED  BY <3>2, <3>3, <4>1, <4>2, Zenon DEF SetupFault
    <3> QED  BY <3>1, <3>2, <3>4, <1>4
  <2> QED  BY <2>1, <2>2, Zenon
<1>10. Owned(v, NoQuery)
  BY <1>8, <1>9, Zenon DEF Owned
<1>11. Good(v)
  BY <1>1, <1>7, <1>10, Zenon DEF Good
<1> QED  BY <1>2, <1>4, <1>11, Zenon DEF v

(* A use of the query goes through only if the query is still there.       *)
LEMMA TouchGood ==
    ASSUME NEW w \in Worlds, NEW q \in Query, Touch(w, q).fault = "none"
    PROVE  Touch(w, q) = w /\ w.query[q].life # "freed"
BY StopFaults, Zenon DEF Touch, Fault

(* set_state(SETUP) leaves a good world, or a fault.                       *)
LEMMA SetupGood ==
    ASSUME NEW w, NEW q \in Query, Detached(w, q), NEW o \in Plan, NEW i \in 1..End,
           NEW frees \in BOOLEAN, set_state_SETUP(w, q, o, i, frees).fault = "none"
    PROVE  LET v == set_state_SETUP(w, q, o, i, frees) IN
           w.fault = "none" /\ Good(v) /\ v.query[q].life # "unused"
<1> DEFINE v == set_state_SETUP(w, q, o, i, frees)
           u == SetupWorld(w, q, o, i)
           c == callback(u, q, frees)
<1>0. w \in Worlds
  BY Zenon DEF Detached, Held
<1>1. ~\E f \in Fault \ {"none"} : v = Stop(w, f)
  BY <1>0, StopFaults, Zenon
<1> HIDE DEF v
<1>2. u \in Worlds /\ c \in Worlds
  BY <1>0, SetupWorldTyped, CallbackTyped, Zenon
<1>3. /\ \A j \in Visited(w, q, o, i) : SetupFault(w, q, j) = "none"
      /\ v = u \/ v = c \/ v = Touch(c, q)
  <2> HIDE DEF u, c
  <2> QED BY <1>0, <1>1, SetupCases DEF v, c, u
<1>4. u.fault = w.fault /\ Good(u) /\ u.query[q].life = "live"
  BY <1>3, SetupWorldGood
<1> HIDE DEF u
<1>5. CASE v = u
  BY <1>4, <1>5, Zenon DEF v
<1>6. ASSUME v = c
      PROVE  w.fault = "none" /\ Good(v) /\ v.query[q].life # "unused"
  BY <1>4, <1>6, CallbackGood DEF v
<1>7. CASE v = Touch(c, q)
  <2>0. v.fault = "none"
    BY Zenon DEF v
  <2>1. v = c
    <3> HIDE DEF c
    <3> QED  BY <1>2, <1>7, <2>0, TouchGood, Zenon
  <2> QED  BY <1>6, <2>1, Zenon DEF v
<1> QED  BY <1>3, <1>5, <1>6, <1>7, Zenon DEF v

(* A fault is final: no operator takes it back.                            *)
LEMMA UnprivateKeepsFault ==
    ASSUME NEW w \in Worlds, NEW b \in Backend, unprivate(w, b).fault = "none"
    PROVE  w.fault = "none"
<1> DEFINE p == w.data[b]
           r == [w.query[p] EXCEPT !.watch = FALSE]
<1>1. w.data[b] # NoQuery
  BY StopFaults, Zenon DEF unprivate, Fault
<1>2. p \in Query /\ w.query[p] \in QueryRecord
  BY <1>1, WorldFacts, Zenon
<1>3. r \in QueryRecord
  BY <1>2, Zenon DEF QueryRecord
<1>4. Put(w, p, r).fault = w.fault /\ Put(w, p, r) \in Worlds
  BY <1>2, <1>3, PutFacts
<1>5. [Put(w, p, r) EXCEPT !.data[b] = NoQuery].fault = Put(w, p, r).fault
  <2> HIDE DEF p, r
  <2> QED  BY <1>4, Zenon DEF Worlds
<1> QED  BY <1>1, <1>4, <1>5, Zenon DEF unprivate

(* cleanup_query does not take a fault back.                               *)
LEMMA CleanupKeepsFault ==
    ASSUME NEW w \in Worlds, NEW q \in Query, cleanup_query(w, q).fault = "none"
    PROVE  w.fault = "none"
<1> DEFINE r == [w.query[q] EXCEPT !.delayed = FALSE, !.request = FALSE, !.result = FALSE]
<1>1. w.query[q] \in QueryRecord
  BY WorldFacts, Zenon
<1>2. r \in QueryRecord /\ w.query[q].backend \in 1..End
  BY <1>1, Zenon DEF QueryRecord
<1>3. Put(w, q, r) \in Worlds /\ Put(w, q, r).fault = w.fault
  BY <1>2, PutFacts
<1> QED  BY <1>2, <1>3, UnprivateKeepsFault, BackendRange, Zenon DEF cleanup_query

(* The application's callback does not take a fault back.                  *)
LEMMA CallbackKeepsFault ==
    ASSUME NEW w \in Worlds, NEW q \in Query, NEW frees \in BOOLEAN,
           callback(w, q, frees).fault = "none"
    PROVE  w.fault = "none"
<1> DEFINE r == [w.query[q] EXCEPT !.called = @ + 1]
           w1 == Put(w, q, r)
           w2 == cleanup_query(w1, q)
           e == [w2.query[q] EXCEPT !.life = "freed", !.state = "NONE", !.paths = FALSE]
<1>0. w.query[q] \in QueryRecord
  BY WorldFacts, Zenon
<1>1. r \in QueryRecord
  BY <1>0 DEF QueryRecord
<1>2. w1 \in Worlds /\ w1.fault = w.fault
  <2> HIDE DEF r
  <2> QED  BY <1>1, PutFacts
<1> HIDE DEF w1
<1>3. w2 \in Worlds /\ w2.query[q] \in QueryRecord
  BY <1>2, CleanupTyped, WorldFacts, Zenon
<1>4. w2.fault = "none" => w1.fault = "none"
  BY <1>2, CleanupKeepsFault, Zenon
<1> HIDE DEF w2
<1>5. e \in QueryRecord
  BY <1>3, Zenon DEF QueryRecord, State
<1>6. Put(w2, q, e).fault = w2.fault
  <2> HIDE DEF e
  <2> QED  BY <1>3, <1>5, PutFacts
<1>7. netresolve_query_free(w1, q).fault = "none" => w2.fault = "none"
  BY <1>3, <1>6, StopFaults, Zenon DEF netresolve_query_free, Fault, w2
<1> QED  BY <1>2, <1>4, <1>7, Zenon DEF callback, w1

(* set_state(SETUP) does not take a fault back.                            *)
LEMMA SetupKeepsFault ==
    ASSUME NEW w \in Worlds, NEW q \in Query, NEW o \in Plan, NEW i \in 1..End,
           NEW frees \in BOOLEAN, set_state_SETUP(w, q, o, i, frees).fault = "none"
    PROVE  w.fault = "none"
<1> DEFINE u == SetupWorld(w, q, o, i)
           c == callback(u, q, frees)
<1>1. u \in Worlds /\ c \in Worlds
  BY SetupWorldTyped, CallbackTyped, Zenon
<1>2. u.fault = w.fault
  BY Zenon DEF SetupWorld
<1>3. c.fault = "none" => u.fault = "none"
  <2> HIDE DEF u
  <2> QED  BY <1>1, CallbackKeepsFault, Zenon
<1>4. Touch(c, q).fault = "none" => c.fault = "none"
  <2> HIDE DEF c
  <2> QED  BY <1>1, TouchGood, Zenon
<1>5. \A f \in Fault \ {"none"} : Stop(w, f).fault # "none"
  BY StopFaults, Zenon
<1> HIDE DEF u, c
<1> QED  BY <1>2, <1>3, <1>4, <1>5, SetupCases DEF u, c

(* set_state(DONE) does not take a fault back.                             *)
LEMMA DoneKeepsFault ==
    ASSUME NEW w \in Worlds, NEW q \in Query, NEW o \in Plan, NEW frees \in BOOLEAN,
           set_state_DONE(w, q, o, frees).fault = "none"
    PROVE  w.fault = "none"
<1> DEFINE b == w.query[q].backend
           r == [w.query[q] EXCEPT !.state = "DONE"]
           w0 == Put(w, q, r)
           w1 == cleanup_query(w0, q)
           m == First({j \in Mandatory : j > b} \cup {End})
           e == [w1.query[q] EXCEPT !.backend = End]
           w2 == IF m = End THEN Put(w1, q, e) ELSE set_state_SETUP(w1, q, o, m, frees)
<1>0. w.query[q] \in QueryRecord
  BY WorldFacts, Zenon
<1>1. r \in QueryRecord
  BY <1>0, Zenon DEF QueryRecord, State
<1>2. w0 \in Worlds /\ w0.fault = w.fault
  <2> HIDE DEF r
  <2> QED  BY <1>1, PutFacts
<1>3. m \in 1..End
  <2>1. {j \in Mandatory : j > b} \in SUBSET Backend
    BY ConstantsAssumption, Zenon
  <2> QED  BY <2>1, FirstToEnd, Zenon
<1> HIDE DEF w0, m
<1>4. w1 \in Worlds /\ w1.query[q] \in QueryRecord
  BY <1>2, CleanupTyped, WorldFacts, Zenon
<1>5. w1.fault = "none" => w0.fault = "none"
  BY <1>2, CleanupKeepsFault, Zenon
<1> HIDE DEF w1
<1>6. e \in QueryRecord
  BY <1>4, BackendRange, Zenon DEF QueryRecord
<1>7. w2 \in Worlds /\ (w2.fault = "none" => w1.fault = "none")
  <2> HIDE DEF e
  <2> QED  BY <1>3, <1>4, <1>6, PutFacts, SetupTyped, SetupKeepsFault
<1> HIDE DEF w2
<1>8. Touch(w2, q) \in Worlds
  BY <1>7, TouchTyped, Zenon
<1>9. set_state_DONE(w, q, o, frees)
        = IF b = End THEN Stop(w1, "overrun") ELSE callback(Touch(w2, q), q, frees)
  BY Zenon DEF set_state_DONE, w2, w1, w0, m
<1>10. Stop(w1, "overrun").fault # "none"
  BY <1>4, StopFaults, Zenon DEF Fault
<1>11. Touch(w2, q).fault = "none"
  BY <1>8, <1>9, <1>10, CallbackKeepsFault, Zenon
<1> QED  BY <1>2, <1>5, <1>7, <1>11, TouchGood, Zenon

(* set_state(FAILED) does not take a fault back.                           *)
LEMMA FailedKeepsFault ==
    ASSUME NEW w \in Worlds, NEW q \in Query, NEW o \in Plan, NEW frees \in BOOLEAN,
           set_state_FAILED(w, q, o, frees).fault = "none"
    PROVE  w.fault = "none"
<1> DEFINE b == w.query[q].backend
           r == [w.query[q] EXCEPT !.state = "FAILED"]
           w0 == Put(w, q, r)
           w1 == cleanup_query(w0, q)
           e == [w1.query[q] EXCEPT !.backend = End]
           w2 == Put(w1, q, e)
<1>0. w.query[q] \in QueryRecord
  BY WorldFacts, Zenon
<1>1. r \in QueryRecord /\ b \in 1..End
  BY <1>0, Zenon DEF QueryRecord, State
<1>2. w0 \in Worlds /\ w0.fault = w.fault
  <2> HIDE DEF r
  <2> QED  BY <1>1, PutFacts
<1> HIDE DEF w0
<1>3. w1 \in Worlds /\ w1.query[q] \in QueryRecord
  BY <1>2, CleanupTyped, WorldFacts, Zenon
<1>4. w1.fault = "none" => w0.fault = "none"
  BY <1>2, CleanupKeepsFault, Zenon
<1> HIDE DEF w1
<1>5. e \in QueryRecord
  BY <1>3, BackendRange, Zenon DEF QueryRecord
<1>6. w2 \in Worlds /\ w2.fault = w1.fault
  <2> HIDE DEF e
  <2> QED  BY <1>3, <1>5, PutFacts
<1>7. set_state_FAILED(w, q, o, frees)
        = IF b = End THEN Stop(w1, "overrun")
          ELSE IF b < NBackends THEN set_state_SETUP(w1, q, o, b + 1, frees)
          ELSE callback(w2, q, frees)
  BY Zenon DEF set_state_FAILED, w1, w0
<1>8. Stop(w1, "overrun").fault # "none"
  BY <1>3, StopFaults, Zenon DEF Fault
<1>9. b # End => b + 1 \in 1..End
  BY <1>1, BackendRange, Zenon
<1> HIDE DEF w2, b
<1>10. w1.fault = "none"
  BY <1>3, <1>6, <1>7, <1>8, <1>9, SetupKeepsFault, CallbackKeepsFault
<1> QED  BY <1>2, <1>4, <1>10, Zenon

(* The worlds set_state(DONE) passes through when a handler calls it: the  *)
(* backend is cleaned up, the query moves on to the mandatory backend m or *)
(* to the end, and the callback is called on a good world.                 *)
DoneStep(w, q, o, frees, w0, w1, m, w2) ==
    /\ w0 = Put(w, q, [w.query[q] EXCEPT !.state = "DONE"])
    /\ w1 = cleanup_query(w0, q)
    /\ w2 = IF m = End THEN Put(w1, q, [w1.query[q] EXCEPT !.backend = End])
            ELSE set_state_SETUP(w1, q, o, m, frees)
    /\ set_state_DONE(w, q, o, frees) = callback(w2, q, frees)
    /\ w.fault = "none" /\ w1.fault = "none" /\ w2.fault = "none"
    /\ Held(w0, q) /\ Detached(w1, q)
    /\ w1.query[q].backend = w.query[q].backend /\ w.query[q].backend <= m
    /\ m # End => m \in Mandatory /\ w.query[q].backend < m
    /\ Good(w2) /\ w2.query[q].life = "live"

(* set_state(DONE) that does not end in a fault consists of those steps.   *)
LEMMA DoneSteps ==
    ASSUME NEW w, NEW q \in Query, Held(w, q), NEW o \in Plan, NEW frees \in BOOLEAN,
           set_state_DONE(w, q, o, frees).fault = "none"
    PROVE  \E w0, w1, w2 : \E m \in 1..End : DoneStep(w, q, o, frees, w0, w1, m, w2)
<1> DEFINE v == set_state_DONE(w, q, o, frees)
           b == w.query[q].backend
           r == [w.query[q] EXCEPT !.state = "DONE"]
           w0 == Put(w, q, r)
           w1 == cleanup_query(w0, q)
           m == First({j \in Mandatory : j > b} \cup {End})
           e == [w1.query[q] EXCEPT !.backend = End]
           w2 == IF m = End THEN Put(w1, q, e) ELSE set_state_SETUP(w1, q, o, m, frees)
<1>0. w \in Worlds /\ w.query[q] \in QueryRecord
  BY WorldFacts, Zenon DEF Held
<1>1. /\ r \in QueryRecord /\ r.life = "live" /\ r.backend = b /\ r.watch = w.query[q].watch
      /\ r.state = "DONE" /\ b \in 1..End
  BY <1>0, Zenon DEF QueryRecord, State, Held
<1>2. Held(w0, q) /\ w0.query[q] = r /\ w0.fault = w.fault /\ w0 \in Worlds
  <2> HIDE DEF r
  <2> QED  BY <1>0, <1>1, PutHeld, PutFacts
<1>3. m \in 1..End /\ b <= m /\ (m # End => m \in Mandatory /\ b < m)
  <2> DEFINE S == {j \in Mandatory : j > b}
  <2>1. S \in SUBSET Backend /\ \A j \in S : j > b /\ j \in Mandatory
    BY ConstantsAssumption, Zenon
  <2> HIDE DEF S
  <2>2. m \in 1..End /\ (m # End => m \in S)
    <3>1. m = First(S \cup {End})
      BY Zenon DEF S
    <3> HIDE DEF m
    <3> QED  BY <3>1, <2>1, FirstToEnd, Zenon
  <2> HIDE DEF m
  <2>3. b \in Int /\ m \in Int /\ b <= End
    BY <1>1, <2>2, ConstantsAssumption DEF End
  <2>4. b <= m /\ (m # End => m \in Mandatory /\ b < m)
    BY <2>1, <2>2, <2>3
  <2> QED  BY <2>2, <2>4, Zenon
<1> HIDE DEF w0, m
<1>4. w1 \in Worlds /\ w1.query[q] \in QueryRecord
  BY <1>2, CleanupTyped, WorldFacts, Zenon
<1> HIDE DEF w1
<1>5. v = IF b = End THEN Stop(w1, "overrun") ELSE callback(Touch(w2, q), q, frees)
  BY Zenon DEF set_state_DONE, w1, w0, m
<1>6. b # End /\ v = callback(Touch(w2, q), q, frees)
  BY <1>4, <1>5, StopFaults, Zenon DEF Fault
<1>7. e \in QueryRecord
  BY <1>4, BackendRange, Zenon DEF QueryRecord
<1>8. w2 \in Worlds
  <2> HIDE DEF e
  <2> QED  BY <1>3, <1>4, <1>7, PutFacts, SetupTyped, Zenon
<1> HIDE DEF v, w2
<1>9. Touch(w2, q) \in Worlds
  BY <1>8, TouchTyped, Zenon
<1>10. Touch(w2, q).fault = "none"
  <2>1. callback(Touch(w2, q), q, frees).fault = "none"
    BY <1>6, Zenon DEF v
  <2>2. \A x \in Worlds : callback(x, q, frees).fault = "none" => x.fault = "none"
    BY CallbackKeepsFault, Zenon
  <2> QED  BY <1>9, <2>1, <2>2, Zenon
<1>11. Touch(w2, q) = w2 /\ w2.query[q].life # "freed" /\ w2.fault = "none"
  BY <1>8, <1>10, TouchGood, Zenon
<1>12. /\ w.fault = "none" /\ w1.fault = "none" /\ Detached(w1, q) /\ w1.query[q].backend = b
       /\ Good(w2) /\ w2.query[q].life # "unused"
  <2>1. CASE m = End
    <3> HIDE DEF e
    <3>1. w2 = Put(w1, q, e)
      BY <2>1, Zenon DEF w2
    <3>2. w1.fault = "none" /\ w2.query[q] = e
      BY <3>1, <1>4, <1>7, <1>11, PutFacts, ZenonT(40)
    <3>3. /\ w0.fault = "none" /\ Detached(w1, q) /\ w1.query[q].state = "DONE"
          /\ w1.query[q].backend = b
      <4> HIDE DEF r, b
      <4>1. /\ w0.fault = "none" /\ Detached(w1, q) /\ w1.query[q].state = w0.query[q].state
            /\ w1.query[q].backend = w0.query[q].backend
        BY <3>2, <1>2, CleanupDetaches, Zenon DEF w1
      <4> QED  BY <4>1, <1>1, <1>2, Zenon
    <3>4. Resting(e) /\ ~e.watch /\ e.life = "live"
      BY <3>3, <1>4, ZenonT(40) DEF Detached, Held, Silent, Resting, Waiting, Finished, QueryRecord, e
    <3>5. Good(w2)
      BY <3>1, <3>3, <3>4, <1>7, DetachedRests, Zenon
    <3> QED  BY <3>2, <3>3, <3>4, <3>5, <1>2, Zenon
  <2>2. CASE m # End
    <3>1. w2 = set_state_SETUP(w1, q, o, m, frees)
      BY <2>2, Zenon DEF w2
    <3>2. w1.fault = "none"
      BY <3>1, <1>3, <1>4, <1>11, SetupKeepsFault, Zenon
    <3>3. w0.fault = "none" /\ Detached(w1, q) /\ w1.query[q].backend = b
      <4> HIDE DEF r, b
      <4>1. /\ w0.fault = "none" /\ Detached(w1, q)
            /\ w1.query[q].backend = w0.query[q].backend
        BY <3>2, <1>2, CleanupDetaches, Zenon DEF w1
      <4> QED  BY <4>1, <1>1, <1>2, Zenon
    <3> QED  BY <3>1, <3>2, <3>3, <1>2, <1>3, <1>11, SetupGood
  <2> QED  BY <2>1, <2>2, Zenon
<1>13. w2.query[q].life = "live"
  BY <1>8, <1>11, <1>12, WorldFacts, Zenon DEF QueryRecord
<1>14. v = callback(w2, q, frees)
  BY <1>6, <1>11, Zenon
<1>15. /\ w0 = Put(w, q, [w.query[q] EXCEPT !.state = "DONE"])
       /\ w1 = cleanup_query(w0, q)
       /\ w2 = IF m = End THEN Put(w1, q, [w1.query[q] EXCEPT !.backend = End])
               ELSE set_state_SETUP(w1, q, o, m, frees)
  BY Zenon DEF w0, w1, w2
<1>16. DoneStep(w, q, o, frees, w0, w1, m, w2)
  BY <1>2, <1>3, <1>11, <1>12, <1>13, <1>14, <1>15, Zenon DEF v, DoneStep
<1> QED  BY <1>3, <1>16, Zenon

(* set_state(DONE), called by a handler, leaves a good world, or a fault.  *)
LEMMA DoneGood ==
    ASSUME NEW w, NEW q \in Query, Held(w, q), NEW o \in Plan, NEW frees \in BOOLEAN,
           set_state_DONE(w, q, o, frees).fault = "none"
    PROVE  LET v == set_state_DONE(w, q, o, frees) IN
           w.fault = "none" /\ Good(v) /\ v.query[q].life # "unused"
<1> DEFINE v == set_state_DONE(w, q, o, frees)
<1>1. PICK w0, w1, w2 : \E m \in 1..End : DoneStep(w, q, o, frees, w0, w1, m, w2)
  BY DoneSteps, Zenon
<1>2. /\ w.fault = "none" /\ Good(w2) /\ w2.query[q].life = "live"
      /\ v = callback(w2, q, frees)
  BY <1>1, Zenon DEF DoneStep
<1> HIDE DEF v
<1> QED  BY <1>2, CallbackGood, Zenon DEF v

(* The same of set_state(FAILED): the next backend is set up, or there is  *)
(* none and the callback is called.                                        *)
FailedStep(w, q, o, frees, w0, w1, w2) ==
    /\ w0 = Put(w, q, [w.query[q] EXCEPT !.state = "FAILED"])
    /\ w1 = cleanup_query(w0, q)
    /\ w.fault = "none" /\ w1.fault = "none"
    /\ Held(w0, q) /\ Detached(w1, q)
    /\ w1.query[q].backend = w.query[q].backend
    /\ \/ /\ w.query[q].backend + 1 \in 1..End
          /\ set_state_FAILED(w, q, o, frees)
               = set_state_SETUP(w1, q, o, w.query[q].backend + 1, frees)
       \/ /\ w2 = Put(w1, q, [w1.query[q] EXCEPT !.backend = End])
          /\ Good(w2) /\ w2.query[q].life = "live"
          /\ set_state_FAILED(w, q, o, frees) = callback(w2, q, frees)

(* set_state(FAILED) that does not end in a fault consists of those steps. *)
LEMMA FailedSteps ==
    ASSUME NEW w, NEW q \in Query, Held(w, q), NEW o \in Plan, NEW frees \in BOOLEAN,
           set_state_FAILED(w, q, o, frees).fault = "none"
    PROVE  \E w0, w1, w2 : FailedStep(w, q, o, frees, w0, w1, w2)
<1> DEFINE v == set_state_FAILED(w, q, o, frees)
           b == w.query[q].backend
           r == [w.query[q] EXCEPT !.state = "FAILED"]
           w0 == Put(w, q, r)
           w1 == cleanup_query(w0, q)
           e == [w1.query[q] EXCEPT !.backend = End]
           w2 == Put(w1, q, e)
<1>0. w \in Worlds /\ w.query[q] \in QueryRecord
  BY WorldFacts, Zenon DEF Held
<1>1. /\ r \in QueryRecord /\ r.life = "live" /\ r.backend = b /\ r.watch = w.query[q].watch
      /\ r.state = "FAILED" /\ b \in 1..End
  BY <1>0, Zenon DEF QueryRecord, State, Held
<1>2. Held(w0, q) /\ w0.query[q] = r /\ w0.fault = w.fault /\ w0 \in Worlds
  <2> HIDE DEF r
  <2>1. Held(w0, q)
    BY <1>1, PutHeld, Zenon
  <2>2. w0.query[q] = r /\ w0.fault = w.fault /\ w0 \in Worlds
    BY <1>0, <1>1, PutFacts, ZenonT(40)
  <2> QED  BY <2>1, <2>2, Zenon
<1> HIDE DEF w0
<1>3. w1 \in Worlds /\ w1.query[q] \in QueryRecord
  BY <1>2, CleanupTyped, WorldFacts, Zenon
<1> HIDE DEF w1
<1>4. v = IF b = End THEN Stop(w1, "overrun")
          ELSE IF b < NBackends THEN set_state_SETUP(w1, q, o, b + 1, frees)
          ELSE callback(w2, q, frees)
  BY Zenon DEF set_state_FAILED, w1, w0
<1>5. b # End
  BY <1>3, <1>4, StopFaults, Zenon DEF Fault
<1>6. b + 1 \in 1..End
  BY <1>1, <1>5, BackendRange, Zenon
<1>7. e \in QueryRecord
  BY <1>3, BackendRange, Zenon DEF QueryRecord
<1>8. w2 \in Worlds /\ w2.query[q] = e /\ w2.fault = w1.fault
  <2> HIDE DEF e
  <2> QED  BY <1>3, <1>7, PutFacts, ZenonT(40)
<1> HIDE DEF v, w2
<1>9. w1.fault = "none"
  <2>1. CASE b < NBackends
    BY <2>1, <1>3, <1>4, <1>5, <1>6, SetupKeepsFault, ZenonT(40) DEF v
  <2>2. CASE ~(b < NBackends)
    BY <2>2, <1>4, <1>5, <1>8, CallbackKeepsFault, ZenonT(40) DEF v
  <2> QED  BY <2>1, <2>2, Zenon
<1>10. /\ w0.fault = "none" /\ Detached(w1, q) /\ w1.query[q].state = "FAILED"
       /\ w1.query[q].backend = b
  <2> HIDE DEF r, e, b
  <2>1. /\ w0.fault = "none" /\ Detached(w1, q) /\ w1.query[q].state = w0.query[q].state
        /\ w1.query[q].backend = w0.query[q].backend
    BY <1>2, <1>9, CleanupDetaches, Zenon DEF w1
  <2> QED  BY <2>1, <1>1, <1>2, Zenon
<1>11. ~(b < NBackends) => Good(w2) /\ w2.query[q].life = "live"
  <2>1. Resting(e) /\ ~e.watch /\ e.life = "live"
    BY <1>3, <1>10, ZenonT(40) DEF Detached, Held, Silent, Resting, Waiting, Finished, QueryRecord
  <2>2. Good(w2)
    <3> HIDE DEF e
    <3> QED  BY <2>1, <1>7, <1>10, DetachedRests, Zenon DEF w2
  <2> QED  BY <2>1, <2>2, <1>8, Zenon
<1>12. /\ w0 = Put(w, q, [w.query[q] EXCEPT !.state = "FAILED"])
       /\ w1 = cleanup_query(w0, q)
       /\ w2 = Put(w1, q, [w1.query[q] EXCEPT !.backend = End])
  BY Zenon DEF w0, w1, w2
<1>13. \/ v = set_state_SETUP(w1, q, o, b + 1, frees)
       \/ Good(w2) /\ w2.query[q].life = "live" /\ v = callback(w2, q, frees)
  BY <1>4, <1>5, <1>11, Zenon
<1>14. FailedStep(w, q, o, frees, w0, w1, w2)
  BY <1>2, <1>6, <1>9, <1>10, <1>12, <1>13, Zenon DEF FailedStep, v
<1> QED  BY <1>14, Zenon

(* set_state(FAILED), called by a handler, leaves a good world, or a       *)
(* fault.                                                                  *)
LEMMA FailedGood ==
    ASSUME NEW w, NEW q \in Query, Held(w, q), NEW o \in Plan, NEW frees \in BOOLEAN,
           set_state_FAILED(w, q, o, frees).fault = "none"
    PROVE  LET v == set_state_FAILED(w, q, o, frees) IN
           w.fault = "none" /\ Good(v) /\ v.query[q].life # "unused"
<1> DEFINE v == set_state_FAILED(w, q, o, frees)
           i == w.query[q].backend + 1
<1>1. PICK w0, w1, w2 : FailedStep(w, q, o, frees, w0, w1, w2)
  BY FailedSteps, Zenon
<1> HIDE DEF v, i
<1>2. /\ w.fault = "none" /\ Detached(w1, q)
      /\ \/ i \in 1..End /\ v = set_state_SETUP(w1, q, o, i, frees)
         \/ Good(w2) /\ w2.query[q].life = "live" /\ v = callback(w2, q, frees)
  BY <1>1, Zenon DEF FailedStep, v, i
<1>3. v.fault = "none"
  BY Zenon DEF v
<1>4. Good(v) /\ v.query[q].life # "unused"
  BY <1>2, <1>3, SetupGood, CallbackGood, ZenonT(40)
<1> QED  BY <1>2, <1>4, Zenon DEF v

(* netresolve_query_dispatch, after the watch's callback has returned with *)
(* a good world or with a verdict the query has not acted upon yet.        *)
LEMMA AfterGood ==
    ASSUME NEW w \in Worlds, NEW q \in Query, NEW o \in Plan, NEW frees \in BOOLEAN,
           w.query[q].life # "unused",
           Good(w) \/ (Held(w, q) /\ w.query[q].state \in {"RESOLVED", "ERROR"}),
           after_dispatch(w, q, o, frees).fault = "none"
    PROVE  Good(after_dispatch(w, q, o, frees))
<1> DEFINE v == after_dispatch(w, q, o, frees)
           w1 == Touch(w, q)
           d == set_state_DONE(w1, q, o, frees)
           w2 == IF w1.query[q].state = "RESOLVED" THEN Touch(d, q) ELSE w1
<1>1. w1 \in Worlds /\ d \in Worlds /\ w2 \in Worlds
  <2>1. w1 \in Worlds
    BY TouchTyped, Zenon
  <2> HIDE DEF w1
  <2>2. d \in Worlds
    BY <2>1, DoneTyped, Zenon
  <2> HIDE DEF d
  <2> QED  BY <2>1, <2>2, TouchTyped, Zenon
<1>2. v = IF w2.query[q].state = "ERROR" THEN set_state_FAILED(w2, q, o, frees) ELSE w2
  BY Zenon DEF after_dispatch
<1> HIDE DEF v, w2, d, w1
<1>3. w2.fault = "none"
  BY <1>1, <1>2, FailedKeepsFault, Zenon DEF v
<1>4. w1 = w /\ w.query[q].life = "live"
  <2>1. w1.fault = "none"
    <3>1. CASE w1.query[q].state = "RESOLVED"
      <4>1. d.fault = "none"
        BY <3>1, <1>1, <1>3, TouchGood, Zenon DEF w2
      <4> QED  BY <4>1, <1>1, DoneKeepsFault, Zenon DEF d
    <3>2. CASE w1.query[q].state # "RESOLVED"
      BY <3>2, <1>3, Zenon DEF w2
    <3> QED  BY <3>1, <3>2, Zenon
  <2>2. w1 = w /\ w.query[q].life # "freed"
    BY <2>1, TouchGood, Zenon DEF w1
  <2> QED  BY <2>2, WorldFacts, Zenon DEF QueryRecord
<1>5. Held(w, q)
  BY <1>4, GoodIsHeld, Zenon
<1>6. CASE w1.query[q].state = "RESOLVED"
  <2>1. d = w2 /\ d.fault = "none" /\ d.query[q].life # "freed"
    BY <1>1, <1>3, <1>6, TouchGood, Zenon DEF w2
  <2>2. Good(d) /\ d.query[q].life # "unused"
    BY <2>1, <1>4, <1>5, DoneGood, Zenon DEF d
  <2>3. d.query[q].life = "live"
    BY <2>1, <2>2, <1>1, WorldFacts, ZenonT(40) DEF QueryRecord
  <2>4. Held(w2, q)
    BY <2>1, <2>2, <2>3, GoodIsHeld, Zenon
  <2> QED  BY <2>1, <2>2, <2>4, <1>2, FailedGood, Zenon DEF v
<1>7. CASE w1.query[q].state # "RESOLVED"
  <2>1. w2 = w
    BY <1>4, <1>7, Zenon DEF w2
  <2> QED  BY <2>1, <1>2, <1>4, <1>5, <1>7, FailedGood, Zenon DEF v
<1> QED  BY <1>6, <1>7, Zenon

(* The end of netresolve_query_dispatch does not take a fault back.        *)
LEMMA AfterKeepsFault ==
    ASSUME NEW w \in Worlds, NEW q \in Query, NEW o \in Plan, NEW frees \in BOOLEAN,
           after_dispatch(w, q, o, frees).fault = "none"
    PROVE  w.fault = "none"
<1> DEFINE w1 == Touch(w, q)
           d == set_state_DONE(w1, q, o, frees)
           w2 == IF w1.query[q].state = "RESOLVED" THEN Touch(d, q) ELSE w1
<1>1. w1 \in Worlds /\ (w1.fault = "none" => w.fault = "none")
  BY TouchTyped, TouchGood, Zenon
<1> HIDE DEF w1
<1>2. d \in Worlds /\ (d.fault = "none" => w1.fault = "none")
  BY <1>1, DoneTyped, DoneKeepsFault, Zenon
<1> HIDE DEF d
<1>3. w2 \in Worlds /\ (w2.fault = "none" => w1.fault = "none")
  BY <1>1, <1>2, TouchTyped, TouchGood, Zenon
<1>4. after_dispatch(w, q, o, frees)
        = IF w2.query[q].state = "ERROR" THEN set_state_FAILED(w2, q, o, frees) ELSE w2
  BY Zenon DEF after_dispatch, d, w1
<1> HIDE DEF w2
<1> QED  BY <1>1, <1>3, <1>4, FailedKeepsFault

(* netresolve_backend_add_path leaves the query in a condition in which    *)
(* the backend may go on with it, or a fault.                              *)
LEMMA AddPathGood ==
    ASSUME NEW w, NEW q \in Query, NEW o \in Plan, NEW frees \in BOOLEAN,
           Good(w), w.query[q].life = "live", w.query[q].watch,
           add_path(w, q, o, frees).fault = "none"
    PROVE  LET v == add_path(w, q, o, frees) IN
           Good(v) /\ v.query[q].life = "live"
<1> DEFINE v == add_path(w, q, o, frees)
           t == ResultTimeout > 0 /\ netresolve_timeout_add_ms(ResultTimeout)
           r == [w.query[q] EXCEPT !.paths = TRUE]
           more == [r EXCEPT !.state = "WAITING_MORE", !.result = t]
           new == IF r.state # "WAITING" THEN r ELSE more
<1>0. w \in Worlds /\ w.query[q] \in QueryRecord
  BY WorldFacts, Zenon DEF Good
<1>1. /\ r \in QueryRecord /\ r.life = "live" /\ r.backend = w.query[q].backend
      /\ r.watch /\ r.state = w.query[q].state /\ r.delayed = w.query[q].delayed
      /\ r.request = w.query[q].request /\ r.result = w.query[q].result
  BY <1>0, Zenon DEF QueryRecord
<1>2. t \in BOOLEAN
  <2> HIDE DEF r
  <2> QED  BY TimersRun, Zenon
<1> HIDE DEF r, t
<1>3. /\ more \in QueryRecord /\ more.life = "live" /\ more.backend = w.query[q].backend
      /\ more.watch /\ more.state = "WAITING_MORE" /\ more.delayed = r.delayed
      /\ more.request = r.request /\ more.result = t
  BY <1>1, <1>2, Zenon DEF QueryRecord, State
<1> HIDE DEF more
<1>4. Put(w, q, more) \in Worlds
  BY <1>0, <1>3, PutFacts, Zenon
<1>5. set_state_DONE(Put(w, q, more), q, o, frees) \in Worlds
  BY <1>4, DoneTyped, Zenon
<1>6. v = Put(w, q, new)
  <2>1. Stop(set_state_DONE(Put(w, q, more), q, o, frees), "freed_priv").fault # "none"
    BY <1>5, StopFaults, Zenon DEF Fault
  <2> QED  BY <2>1, Zenon DEF add_path, more, r, t
<1>7. /\ new \in QueryRecord /\ new.life = "live" /\ new.backend = w.query[q].backend /\ new.watch
      /\ new.state \notin Finished
      /\ Resting(new)
  <2>1. Resting(w.query[q])
    BY Zenon DEF Good
  <2>2. w.query[q].state \notin Finished
    <3>1. w.query[q].backend # End
      BY BackendRange, ZenonT(40) DEF Good, Owned
    <3> QED  BY <2>1, <3>1, Zenon DEF Resting
  <2>3. CASE r.state = "WAITING"
    BY <2>1, <2>3, <1>1, <1>3, Zenon DEF Resting, Waiting, Finished
  <2>4. CASE r.state # "WAITING"
    BY <2>1, <2>2, <2>4, <1>1, Zenon DEF Resting, Waiting, Finished
  <2> QED  BY <2>3, <2>4, Zenon
<1> HIDE DEF new, v
<1>8. /\ v \in Worlds /\ v.query[q] = new /\ v.data = w.data /\ v.cleanup = w.cleanup
      /\ \A p \in Query : p # q => v.query[p] = w.query[p]
  BY <1>0, <1>6, <1>7, PutFacts, SMTT(60)
<1>9. \A b \in Backend : w.data[b] \in Query \cup {NoQuery}
  BY <1>0, WorldFacts, Zenon
<1>10. Owned(v, NoQuery)
  <2>1. Owned(w, NoQuery)
    BY Zenon DEF Good
  <2>2. w.query[q].watch
    BY Zenon
  <2> QED  BY <1>7, <1>8, <1>9, <2>1, <2>2, OwnedCarries, Zenon
<1>11. Good(v)
  BY <1>7, <1>8, <1>10, Zenon DEF Good
<1> QED  BY <1>7, <1>8, <1>11, Zenon DEF v
-----------------------------------------------------------------------------
(* The actions.                                                            *)

IndInv == Good(World)

(* The components of the world are the variables.                          *)
LEMMA WorldFields ==
    /\ World.query = query /\ World.data = data /\ World.cleanup = cleanup /\ World.fault = fault
    /\ World'.query = query' /\ World'.data = data' /\ World'.cleanup = cleanup'
    /\ World'.fault = fault'
BY Zenon DEF World

(* An action that applies a good world, or stops the process, keeps the    *)
(* invariant.                                                              *)
LEMMA ApplyGood ==
    ASSUME IndInv, NEW v \in Worlds, v.fault = "none" => Good(v), Apply(v)
    PROVE  IndInv'
<1>1. CASE v.fault = "none"
  <2>1. v = [query |-> v.query, data |-> v.data, cleanup |-> v.cleanup, fault |-> v.fault]
    BY Zenon DEF Worlds
  <2>2. World' = v
    BY <1>1, <2>1, Zenon DEF Apply, World
  <2> QED  BY <1>1, <2>2, Zenon DEF IndInv
<1>2. CASE v.fault # "none"
  <2>1. query' = query /\ data' = data /\ cleanup' = cleanup /\ fault' = v.fault
    BY <1>2, Zenon DEF Apply
  <2>2. v.fault \in Fault
    BY WorldFacts, Zenon
  <2>3. World' \in Worlds
    BY <2>1, <2>2, Zenon DEF World, Worlds, IndInv, Good
  <2>4. World'.query = World.query /\ World'.data = World.data /\ World'.cleanup = World.cleanup
    BY <2>1, WorldFields, Zenon
  <2>5. Owned(World', NoQuery)
    <3>1. Owned(World, NoQuery)
      BY Zenon DEF IndInv, Good
    <3> QED  BY <2>4, <3>1, OwnedSame, Zenon
  <2>6. Good(World')
    BY <2>3, <2>4, <2>5, Zenon DEF IndInv, Good
  <2> QED  BY <2>6, Zenon DEF IndInv
<1> QED  BY <1>1, <1>2, Zenon

(* A timer that has been taken down leaves its query Held.                 *)
LEMMA TimerHeld ==
    ASSUME IndInv, NEW q \in Query, Live(q), NEW r \in QueryRecord,
           r.life = query[q].life, r.backend = query[q].backend, r.watch = query[q].watch
    PROVE  Held(Put(World, q, r), q) /\ Put(World, q, r).fault = fault
<1>1. Held(World, q)
  BY GoodIsHeld, WorldFields, Zenon DEF IndInv, Live
<1>2. Put(World, q, r).fault = fault
  BY PutFacts, WorldFields, ZenonT(40) DEF IndInv, Good
<1> QED  BY <1>1, <1>2, PutHeld, WorldFields, ZenonT(40) DEF Live

(* Whether the callback frees the query is a truth value.                  *)
LEMMA FreesBoolean == \A f \in Frees : f \in BOOLEAN
BY Zenon DEF Frees

(* A query that was just created holds nothing.                            *)
LEMMA CreatedDetached ==
    ASSUME IndInv, NEW q \in Query, NEW t \in Requests, query[q].life = "unused"
    PROVE  Created(q, t) \in Worlds /\ Detached(Created(q, t), q)
<1> DEFINE r == [query[q] EXCEPT !.life = "live", !.type = t]
           w == Put(World, q, r)
<1>0. World \in Worlds /\ query[q] \in QueryRecord /\ query[q].life = "unused"
  BY WorldFacts, WorldFields, Zenon DEF IndInv, Good
<1>1. t \in Type
  BY ConstantsAssumption, Zenon
<1>2. /\ r \in QueryRecord /\ r.life = "live" /\ r.watch = query[q].watch
      /\ r.delayed = query[q].delayed /\ r.request = query[q].request /\ r.result = query[q].result
  BY <1>0, <1>1, Zenon DEF QueryRecord
<1> HIDE DEF r
<1>3. /\ w \in Worlds /\ w.query[q] = r /\ w.data = data /\ w.cleanup = cleanup
      /\ \A p \in Query : p # q => w.query[p] = query[p]
  <2>1. /\ w \in Worlds /\ w.query[q] = r
        /\ w.data = World.data /\ w.cleanup = World.cleanup
        /\ \A p \in Query : p # q => w.query[p] = World.query[p]
    BY <1>0, <1>2, PutFacts, ZenonT(40)
  <2> HIDE DEF w
  <2> QED  BY <2>1, WorldFields, Zenon
<1> HIDE DEF w
<1>4. Silent(query[q])
  BY <1>0, WorldFields, Zenon DEF IndInv, Good, Resting, Silent
<1>5. \A b \in Backend : data[b] \in Query \cup {NoQuery} /\ data[b] # q
  <2> TAKE b \in Backend
  <2>1. data[b] \in Query \cup {NoQuery}
    BY <1>0, WorldFacts, WorldFields, Zenon
  <2>2. data[b] # NoQuery => query[data[b]].life = "live"
    BY WorldFields, Zenon DEF IndInv, Good, Owned
  <2> QED  BY <1>0, <2>1, <2>2, ConstantsAssumption, Zenon
<1>6. ~query[q].watch
  BY <1>5, WorldFields, ZenonT(40) DEF IndInv, Good, Owned
<1>7. Owned(w, q)
  <2>1. Owned(World, NoQuery)
    BY Zenon DEF IndInv, Good
  <2>2. /\ w.data = World.data /\ w.cleanup = World.cleanup
        /\ \A x \in Query : x # q => w.query[x] = World.query[x]
        /\ \A b \in Backend : World.data[b] \in Query \cup {NoQuery} /\ World.data[b] # q
        /\ ~w.query[q].watch
    BY <1>2, <1>3, <1>5, <1>6, WorldFields, ZenonT(40)
  <2>3. /\ \A b \in Backend : World.data[b] \in Query \cup {NoQuery}
        /\ w.query[q].watch => World.query[q].watch /\ w.query[q].backend = World.query[q].backend
        /\ \A b \in Backend : World.data[b] = q =>
               /\ w.query[q].backend = World.query[q].backend
               /\ w.query[q].life = "live"
               /\ q # q => w.query[q].state \notin Finished
        /\ NoQuery \in {q, q, NoQuery}
    BY <2>2, Zenon
  <2> HIDE DEF World
  <2> QED  BY <2>1, <2>2, <2>3, OwnedCarries, ZenonT(40)
<1>8. Detached(w, q)
  BY <1>2, <1>3, <1>4, <1>5, <1>6, <1>7, WorldFields, ZenonT(40) DEF IndInv, Good, Detached, Held, Silent
<1>9. w = Created(q, t)
  BY Zenon DEF w, r, Created
<1> QED  BY <1>3, <1>8, <1>9, Zenon

(* netresolve_query keeps the invariant.                                   *)
LEMMA IssueKeeps ==
    ASSUME IndInv, NEW q \in Query, NEW t \in Requests, NEW o \in Plan, NEW frees \in Frees,
           netresolve_query(q, t, o, frees)
    PROVE  IndInv'
<1> DEFINE w == Created(q, t)
           v == set_state_SETUP(w, q, o, 1, frees)
<1>1. query[q].life = "unused" /\ Apply(v)
  BY Zenon DEF netresolve_query
<1>2. w \in Worlds /\ Detached(w, q)
  BY <1>1, CreatedDetached, Zenon
<1>3. 1 \in 1..End /\ frees \in BOOLEAN
  BY BackendRange, FreesBoolean, Zenon
<1> HIDE DEF w
<1>4. v \in Worlds /\ (v.fault = "none" => Good(v))
  BY <1>2, <1>3, SetupTyped, SetupGood, Zenon
<1> HIDE DEF v
<1> QED  BY <1>1, <1>4, ApplyGood, Zenon

(* netresolve_query with options that are not understood keeps the         *)
(* invariant: whatever state object it releases, each object that is left  *)
(* still has its owner.                                                    *)
LEMMA RefusedKeeps ==
    ASSUME IndInv, NEW q \in Query, NEW t \in Requests, netresolve_query_refused(q, t)
    PROVE  IndInv'
<1> DEFINE w == Created(q, t)
           v == netresolve_query_free(w, q)
<1>1. query[q].life = "unused" /\ Apply(v)
  BY Zenon DEF netresolve_query_refused
<1>2. w \in Worlds /\ Held(w, q)
  BY <1>1, CreatedDetached, Zenon DEF Detached
<1> HIDE DEF w
<1>3. v \in Worlds /\ (v.fault = "none" => Good(v))
  BY <1>2, FreeTyped, FreeGood, Zenon
<1> HIDE DEF v
<1> QED  BY <1>1, <1>3, ApplyGood, Zenon

(* netresolve_query_free, called by the application, keeps the invariant.  *)
LEMMA FreeKeeps ==
    ASSUME IndInv, NEW q \in Query, Free(q)
    PROVE  IndInv'
<1> DEFINE v == netresolve_query_free(World, q)
<1>1. World \in Worlds /\ Held(World, q) /\ Apply(v)
  BY GoodIsHeld, WorldFields, Zenon DEF IndInv, Good, Free, Live
<1>2. v \in Worlds /\ (v.fault = "none" => Good(v))
  BY <1>1, FreeTyped, FreeGood, Zenon
<1> HIDE DEF v
<1> QED  BY <1>1, <1>2, ApplyGood, Zenon

(* What the three timer handlers have in common.                           *)
LEMMA DispatchKeeps ==
    ASSUME IndInv, NEW u \in Worlds, NEW q \in Query, NEW o \in Plan, NEW frees \in BOOLEAN,
           u.fault = "none" => Good(u) /\ u.query[q].life # "unused",
           Apply(after_dispatch(u, q, o, frees))
    PROVE  IndInv'
<1> DEFINE v == after_dispatch(u, q, o, frees)
<1>1. v \in Worlds
  BY AfterTyped, Zenon
<1>2. v.fault = "none" => Good(v)
  BY AfterGood, AfterKeepsFault, Zenon
<1> HIDE DEF v
<1> QED  BY <1>1, <1>2, ApplyGood, Zenon DEF v

(* The timer of a query that resolved on the spot keeps the invariant.     *)
LEMMA DelayedKeeps ==
    ASSUME IndInv, NEW q \in Query, NEW o \in Plan, NEW frees \in Frees,
           dispatch_delayed(q, o, frees)
    PROVE  IndInv'
<1> DEFINE r == [query[q] EXCEPT !.delayed = FALSE]
           w == Put(World, q, r)
           u == set_state_DONE(w, q, o, frees)
<1>0. World \in Worlds /\ query[q] \in QueryRecord /\ Live(q) /\ frees \in BOOLEAN
  BY WorldFacts, WorldFields, FreesBoolean, Zenon DEF IndInv, Good, dispatch_delayed
<1>1. /\ r \in QueryRecord /\ r.life = query[q].life /\ r.backend = query[q].backend
      /\ r.watch = query[q].watch
  BY <1>0, Zenon DEF QueryRecord
<1>2. Apply(IF query[q].state # "RESOLVED" THEN Stop(w, "assert")
            ELSE after_dispatch(u, q, o, frees))
  BY Zenon DEF dispatch_delayed
<1> HIDE DEF r
<1>3. Held(w, q) /\ w \in Worlds
  BY <1>0, <1>1, TimerHeld, Zenon DEF Held
<1> HIDE DEF w
<1>4. CASE query[q].state # "RESOLVED"
  <2>1. Stop(w, "assert") \in Worlds /\ Stop(w, "assert").fault # "none"
    BY <1>3, StopTyped, StopFaults, Zenon DEF Fault
  <2> QED  BY <2>1, <1>2, <1>4, ApplyGood, Zenon
<1>5. CASE query[q].state = "RESOLVED"
  <2>1. u \in Worlds /\ (u.fault = "none" => Good(u) /\ u.query[q].life # "unused")
    BY <1>0, <1>3, DoneTyped, DoneGood, Zenon
  <2> HIDE DEF u
  <2> QED  BY <2>1, <1>0, <1>2, <1>5, DispatchKeeps, Zenon
<1> QED  BY <1>4, <1>5, Zenon

(* The request timer keeps the invariant.                                  *)
LEMMA RequestTimeoutKeeps ==
    ASSUME IndInv, NEW q \in Query, NEW o \in Plan, NEW frees \in Frees,
           dispatch_request_timeout(q, o, frees)
    PROVE  IndInv'
<1> DEFINE r == [query[q] EXCEPT !.request = FALSE]
           w == Put(World, q, r)
           u == set_state_FAILED(w, q, o, frees)
<1>0. World \in Worlds /\ query[q] \in QueryRecord /\ Live(q) /\ frees \in BOOLEAN
  BY WorldFacts, WorldFields, FreesBoolean, Zenon DEF IndInv, Good, dispatch_request_timeout
<1>1. /\ r \in QueryRecord /\ r.life = query[q].life /\ r.backend = query[q].backend
      /\ r.watch = query[q].watch
  BY <1>0, Zenon DEF QueryRecord
<1>2. Apply(IF query[q].state \notin {"WAITING", "WAITING_MORE"} THEN Stop(w, "assert")
            ELSE after_dispatch(u, q, o, frees))
  BY Zenon DEF dispatch_request_timeout
<1> HIDE DEF r
<1>3. Held(w, q) /\ w \in Worlds
  BY <1>0, <1>1, TimerHeld, Zenon DEF Held
<1> HIDE DEF w
<1>4. CASE query[q].state \notin {"WAITING", "WAITING_MORE"}
  <2>1. Stop(w, "assert") \in Worlds /\ Stop(w, "assert").fault # "none"
    BY <1>3, StopTyped, StopFaults, Zenon DEF Fault
  <2> QED  BY <2>1, <1>2, <1>4, ApplyGood, Zenon
<1>5. CASE query[q].state \in {"WAITING", "WAITING_MORE"}
  <2>1. u \in Worlds /\ (u.fault = "none" => Good(u) /\ u.query[q].life # "unused")
    BY <1>0, <1>3, FailedTyped, FailedGood, Zenon
  <2> HIDE DEF u
  <2> QED  BY <2>1, <1>0, <1>2, <1>5, DispatchKeeps, Zenon
<1> QED  BY <1>4, <1>5, Zenon

(* The result timer keeps the invariant.                                   *)
LEMMA ResultTimeoutKeeps ==
    ASSUME IndInv, NEW q \in Query, NEW o \in Plan, NEW frees \in Frees,
           dispatch_result_timeout(q, o, frees)
    PROVE  IndInv'
<1> DEFINE r == [query[q] EXCEPT !.result = FALSE]
           w == Put(World, q, r)
           u == set_state_DONE(w, q, o, frees)
<1>0. World \in Worlds /\ query[q] \in QueryRecord /\ Live(q) /\ frees \in BOOLEAN
  BY WorldFacts, WorldFields, FreesBoolean, Zenon DEF IndInv, Good, dispatch_result_timeout
<1>1. /\ r \in QueryRecord /\ r.life = query[q].life /\ r.backend = query[q].backend
      /\ r.watch = query[q].watch
  BY <1>0, Zenon DEF QueryRecord
<1>2. Apply(IF query[q].state # "WAITING_MORE" THEN Stop(w, "assert")
            ELSE after_dispatch(u, q, o, frees))
  BY Zenon DEF dispatch_result_timeout
<1> HIDE DEF r
<1>3. Held(w, q) /\ w \in Worlds
  BY <1>0, <1>1, TimerHeld, Zenon DEF Held
<1> HIDE DEF w
<1>4. CASE query[q].state # "WAITING_MORE"
  <2>1. Stop(w, "assert") \in Worlds /\ Stop(w, "assert").fault # "none"
    BY <1>3, StopTyped, StopFaults, Zenon DEF Fault
  <2> QED  BY <2>1, <1>2, <1>4, ApplyGood, Zenon
<1>5. CASE query[q].state = "WAITING_MORE"
  <2>1. u \in Worlds /\ (u.fault = "none" => Good(u) /\ u.query[q].life # "unused")
    BY <1>0, <1>3, DoneTyped, DoneGood, Zenon
  <2> HIDE DEF u
  <2> QED  BY <2>1, <1>0, <1>2, <1>5, DispatchKeeps, Zenon
<1> QED  BY <1>4, <1>5, Zenon

(* The dispatch of a watch of the backend keeps the invariant.             *)
LEMMA WatchKeeps ==
    ASSUME IndInv, NEW q \in Query, NEW a \in Reply, NEW o \in Plan, NEW frees \in Frees,
           dispatch_watch(q, a, o, frees)
    PROVE  IndInv'
<1> DEFINE w1 == IF a.adds THEN add_path(World, q, o, frees) ELSE World
           w2 == CASE a.verdict = "more" -> w1
                   [] a.verdict = "finish" -> Put(w1, q, [w1.query[q] EXCEPT !.state = "RESOLVED"])
                   [] a.verdict = "fail" -> Put(w1, q, [w1.query[q] EXCEPT !.state = "ERROR"])
           v == after_dispatch(w2, q, o, frees)
<1>0. /\ World \in Worlds /\ Good(World) /\ World.query[q].life = "live" /\ World.query[q].watch
      /\ frees \in BOOLEAN
  BY WorldFields, FreesBoolean, Zenon DEF IndInv, Good, dispatch_watch, Live
<1>1. Apply(v)
  BY Zenon DEF dispatch_watch
<1>2. w1 \in Worlds /\ w1.query[q] \in QueryRecord
  BY <1>0, AddPathTyped, WorldFacts, Zenon
<1>3. w1.fault = "none" => Good(w1) /\ w1.query[q].life = "live"
  BY <1>0, AddPathGood, ZenonT(40)
<1> HIDE DEF w1
<1>4. ASSUME NEW st \in {"RESOLVED", "ERROR"}
      PROVE  LET r == [w1.query[q] EXCEPT !.state = st]
                 x == Put(w1, q, r)
             IN  /\ x \in Worlds /\ x.fault = w1.fault
                 /\ w1.fault = "none" => /\ Held(x, q) /\ x.query[q].life = "live"
                                         /\ x.query[q].state = st
  <2> DEFINE r == [w1.query[q] EXCEPT !.state = st]
             x == Put(w1, q, r)
  <2>1. /\ r \in QueryRecord /\ r.life = w1.query[q].life /\ r.backend = w1.query[q].backend
        /\ r.watch = w1.query[q].watch /\ r.state = st
    BY <1>2, Zenon DEF QueryRecord, State
  <2> HIDE DEF r
  <2>2. x \in Worlds /\ x.fault = w1.fault /\ x.query[q] = r
    BY <2>1, <1>2, PutFacts, ZenonT(40)
  <2>3. w1.fault = "none" => Held(x, q)
    BY <2>1, <1>3, GoodIsHeld, PutHeld, Zenon
  <2> QED  BY <2>1, <2>2, <2>3, <1>3, Zenon DEF r
<1>5. a.verdict \in {"more", "finish", "fail"}
  BY Zenon DEF Reply
<1>6. /\ w2 \in Worlds
      /\ w2.fault = "none" => /\ w2.query[q].life # "unused"
                              /\ \/ Good(w2)
                                 \/ Held(w2, q) /\ w2.query[q].state \in {"RESOLVED", "ERROR"}
  <2>1. CASE a.verdict = "more"
    <3>1. w2 = w1
      BY <2>1, Zenon
    <3> QED  BY <3>1, <1>2, <1>3, Zenon
  <2>2. CASE a.verdict = "finish"
    <3>1. w2 = Put(w1, q, [w1.query[q] EXCEPT !.state = "RESOLVED"])
      BY <2>2, Zenon
    <3> HIDE DEF w2
    <3> QED  BY <3>1, <1>4, Zenon
  <2>3. CASE a.verdict = "fail"
    <3>1. w2 = Put(w1, q, [w1.query[q] EXCEPT !.state = "ERROR"])
      BY <2>3, Zenon
    <3> HIDE DEF w2
    <3> QED  BY <3>1, <1>4, Zenon
  <2> QED  BY <2>1, <2>2, <2>3, <1>5, Zenon
<1> HIDE DEF w2
<1>7. v \in Worlds /\ (v.fault = "none" => Good(v))
  BY <1>0, <1>6, AfterTyped, AfterGood, AfterKeepsFault, Zenon
<1> HIDE DEF v
<1> QED  BY <1>1, <1>7, ApplyGood, Zenon

(* A context without queries satisfies the invariant.                      *)
LEMMA InitGood == Init => IndInv
<1> SUFFICES ASSUME Init PROVE IndInv
  BY Zenon
<1>1. Fresh \in QueryRecord /\ Resting(Fresh) /\ ~Fresh.watch
  BY BackendRange, Zenon DEF Fresh, QueryRecord, Resting, Waiting, Finished, Type, State, Backend
<1>2. /\ World.query = [q \in Query |-> Fresh] /\ World.data = [b \in Backend |-> NoQuery]
      /\ World.cleanup = [b \in Backend |-> FALSE] /\ World.fault = "none"
  BY WorldFields, Zenon DEF Init
<1>3. World \in Worlds
  <2> HIDE DEF Fresh
  <2> QED  BY <1>1, Zenon DEF Init, World, Worlds, Fault
<1> QED  BY <1>1, <1>2, <1>3, Zenon DEF IndInv, Good, Owned

(* Between two queries the backends may be replaced.                       *)
LEMMA ReloadKeeps ==
    ASSUME IndInv, netresolve_set_backend_string
    PROVE  IndInv'
<1>1. /\ World'.query = query /\ World'.fault = fault
      /\ World'.data = [b \in Backend |-> NoQuery]
      /\ World'.cleanup = [b \in Backend |-> FALSE]
  BY WorldFields, Zenon DEF netresolve_set_backend_string
<1>2. World' \in Worlds
  BY <1>1, Zenon DEF World, Worlds, IndInv, Good
<1>3. \A r \in Query : Resting(World'.query[r])
  BY <1>1, WorldFields, Zenon DEF IndInv, Good
<1>4. \A r \in Query : ~World'.query[r].watch
  <2> TAKE r \in Query
  <2>1. query[r].life # "live"
    BY Zenon DEF netresolve_set_backend_string, NoneLive, Live
  <2>2. query[r].watch => data[query[r].backend] = r /\ query[r].backend \in Backend
    BY WorldFields, Zenon DEF IndInv, Good, Owned
  <2>3. \A b \in Backend : data[b] = r => query[r].life = "live"
    BY WorldFields, ConstantsAssumption DEF IndInv, Good, Owned
  <2> QED  BY <1>1, <2>1, <2>2, <2>3, Zenon
<1>5. Owned(World', NoQuery)
  BY <1>1, <1>4, Zenon DEF Owned
<1>6. Good(World')
  BY <1>2, <1>3, <1>5, Zenon DEF Good
<1> QED  BY <1>6, Zenon DEF IndInv

(* Every step keeps the invariant.                                         *)
LEMMA NextKeeps == IndInv /\ [Next]_vars => IndInv'
<1> SUFFICES ASSUME IndInv, [Next]_vars PROVE IndInv'
  BY Zenon
<1>1. CASE UNCHANGED vars
  <2>1. World' = World
    BY <1>1, Zenon DEF vars, World
  <2> QED  BY <2>1, Zenon DEF IndInv
<1>2. CASE Progress
  <2>1. PICK q \in Query, o \in Plan, frees \in Frees :
            \/ \E t \in Requests : netresolve_query(q, t, o, frees)
            \/ dispatch_delayed(q, o, frees)
            \/ dispatch_request_timeout(q, o, frees)
            \/ dispatch_result_timeout(q, o, frees)
            \/ \E r \in Reply : dispatch_watch(q, r, o, frees)
    BY <1>2, Zenon DEF Progress, Ahead
  <2> QED
    BY <2>1, IssueKeeps, DelayedKeeps, RequestTimeoutKeeps, ResultTimeoutKeeps, WatchKeeps, SMTT(40)
<1>3. CASE \E q \in Query, t \in Requests : netresolve_query_refused(q, t)
  BY <1>3, RefusedKeeps, Zenon
<1>4. CASE \E q \in Query : Free(q)
  BY <1>4, FreeKeeps, Zenon
<1>5. CASE netresolve_set_backend_string
  BY <1>5, ReloadKeeps, Zenon
<1>6. CASE netresolve_context_free \/ netresolve_context_free_end
  <2>1. World' = World
    BY <1>6, Zenon DEF netresolve_context_free, netresolve_context_free_end, World
  <2> QED  BY <2>1, Zenon DEF IndInv
<1> QED  BY <1>1, <1>2, <1>3, <1>4, <1>5, <1>6, Zenon DEF Next

(* The context is freed only once no query is live, and nothing happens    *)
(* after that.                                                             *)
Closed ==
    /\ context \in {"open", "closing", "freed"}
    /\ context = "freed" => NoneLive

(* Every step keeps that: none but the last of netresolve_context_free     *)
(* gets there.                                                             *)
LEMMA ClosedKeeps == Closed /\ [Next]_vars => Closed'
<1> SUFFICES ASSUME Closed, [Next]_vars PROVE Closed'
  BY Zenon
<1>1. CASE UNCHANGED vars
  BY <1>1, Zenon DEF vars, Closed, NoneLive, Live
<1>2. CASE context \in {"open", "closing"} /\ UNCHANGED context
  BY <1>2, Zenon DEF Closed
<1>3. CASE netresolve_context_free
  BY <1>3, Zenon DEF Closed, netresolve_context_free
<1>4. CASE netresolve_context_free_end
  BY <1>4, Zenon DEF Closed, netresolve_context_free_end, NoneLive, Live
<1>5. CASE context = "open" /\ Progress
  <2>1. UNCHANGED context
    <3>1. \A w : Apply(w) => UNCHANGED context
      BY Zenon DEF Apply
    <3>2. ASSUME NEW q, NEW o, NEW frees
          PROVE  /\ dispatch_delayed(q, o, frees) => UNCHANGED context
                 /\ dispatch_request_timeout(q, o, frees) => UNCHANGED context
                 /\ dispatch_result_timeout(q, o, frees) => UNCHANGED context
      <4>1. dispatch_delayed(q, o, frees) => UNCHANGED context
        BY <3>1, Zenon DEF dispatch_delayed
      <4>2. dispatch_request_timeout(q, o, frees) => UNCHANGED context
        BY <3>1, Zenon DEF dispatch_request_timeout
      <4>3. dispatch_result_timeout(q, o, frees) => UNCHANGED context
        BY <3>1, Zenon DEF dispatch_result_timeout
      <4> QED  BY <4>1, <4>2, <4>3, Zenon
    <3>3. ASSUME NEW q, NEW o, NEW frees, NEW t, netresolve_query(q, t, o, frees)
          PROVE  UNCHANGED context
      BY <3>1, <3>3, Zenon DEF netresolve_query
    <3>4. ASSUME NEW q, NEW o, NEW frees, NEW r, dispatch_watch(q, r, o, frees)
          PROVE  UNCHANGED context
      BY <3>1, <3>4, Zenon DEF dispatch_watch
    <3> QED  BY <1>5, <3>2, <3>3, <3>4, Zenon DEF Progress
  <2> QED  BY <1>5, <2>1, <1>2, Zenon
<1>6. CASE context = "open" /\ \E q \in Query, t \in Requests : netresolve_query_refused(q, t)
  BY <1>6, <1>2, Zenon DEF netresolve_query_refused, Apply
<1>7. CASE context \in {"open", "closing"} /\ \E q \in Query : Free(q)
  BY <1>7, <1>2, Zenon DEF Free, Apply
<1>8. CASE context = "open" /\ netresolve_set_backend_string
  BY <1>8, <1>2, Zenon DEF netresolve_set_backend_string
<1> QED  BY <1>1, <1>3, <1>4, <1>5, <1>6, <1>7, <1>8, Zenon DEF Next
-----------------------------------------------------------------------------
(* The invariant implies the properties that are checked with TLC.         *)
LEMMA IndInvImplies ==
    IndInv => TimersMatchState /\ NeverStranded /\ StateObjectOwned /\ FinishedIsQuiet
<1> SUFFICES ASSUME IndInv
             PROVE  TimersMatchState /\ NeverStranded /\ StateObjectOwned /\ FinishedIsQuiet
  BY Zenon
<1>1. /\ World \in Worlds
      /\ \A q \in Query : Resting(query[q]) /\ query[q] \in QueryRecord
      /\ \A b \in Backend : data[b] \in Query \cup {NoQuery}
  BY WorldFields, WorldFacts, Zenon DEF IndInv, Good
<1>2. /\ \A b \in Backend : data[b] # NoQuery =>
            /\ cleanup[b] /\ query[data[b]].backend = b
            /\ query[data[b]].life = "live" /\ query[data[b]].state \notin Finished
      /\ \A q \in Query : query[q].watch =>
            query[q].backend \in Backend /\ data[query[q].backend] = q
  BY <1>1, WorldFields, ConstantsAssumption, Zenon DEF IndInv, Good, Owned
<1>4. TimersMatchState
  BY <1>1, Zenon DEF TimersMatchState, Live, Resting, Waiting
<1>5. NeverStranded
  BY <1>1, Zenon DEF NeverStranded, Active, Live, Resting, Waiting
<1>6. StateObjectOwned
  BY <1>2, Zenon DEF StateObjectOwned, Active, Live
<1>7. FinishedIsQuiet
  BY <1>1, <1>2, BackendRange DEF FinishedIsQuiet, Resting, Waiting, Finished
<1> QED  BY <1>4, <1>5, <1>6, <1>7, Zenon

(* Once no query is live, no state object, watch or timer is left.         *)
LEMMA ClosedImplies == IndInv /\ Closed => TypeOK /\ ContextReleased
<1> SUFFICES ASSUME IndInv, Closed PROVE TypeOK /\ ContextReleased
  BY Zenon
<1>1. TypeOK
  BY Zenon DEF TypeOK, IndInv, Good, Closed
<1>2. ASSUME context = "freed" PROVE Idle /\ \A b \in Backend : data[b] = NoQuery
  <2>1. \A q \in Query : query[q].life # "live"
    BY <1>2, Zenon DEF Closed, NoneLive, Live
  <2>2. \A b \in Backend : data[b] = NoQuery
    <3> TAKE b \in Backend
    <3>1. data[b] \in Query \cup {NoQuery}
      BY WorldFacts, WorldFields, Zenon DEF IndInv, Good
    <3>2. data[b] # NoQuery => query[data[b]].life = "live"
      BY WorldFields, Zenon DEF IndInv, Good, Owned
    <3> QED  BY <2>1, <3>1, <3>2, Zenon
  <2>3. \A q \in Query : ~query[q].watch
    BY <2>2, WorldFields, ConstantsAssumption, SMTT(40) DEF IndInv, Good, Owned
  <2>4. \A q \in Query : ~query[q].delayed /\ ~query[q].request /\ ~query[q].result
    BY <2>1, WorldFields, WorldFacts, Zenon DEF IndInv, Good, Resting, QueryRecord
  <2> QED  BY <2>2, <2>3, <2>4, Zenon DEF Idle
<1> QED  BY <1>1, <1>2, Zenon DEF ContextReleased, Closed

(* The inductive invariant holds in every reachable state: between two     *)
(* handlers (set_state and what calls it) every live query has the timers, *)
(* the watches and the state object that its state calls for.              *)
THEOREM Invariance == Spec => []IndInv
BY InitGood, NextKeeps, PTL DEF Spec

(* A context is freed after its queries.                                   *)
LEMMA Closure == Spec => []Closed
<1>1. Init => Closed
  BY Zenon DEF Init, Closed
<1> QED  BY <1>1, ClosedKeeps, PTL DEF Spec

(* Every structure keeps its shape: no handler of lib/query.c moves a      *)
(* query off the backend list or leaves a dangling owner of backend data.  *)
THEOREM Typing == Spec => []TypeOK
BY Invariance, Closure, ClosedImplies, PTL

(* After netresolve_context_free no query, watch, timer or state object is *)
(* left, whatever the queries were doing when it was called.               *)
THEOREM Release == Spec => []ContextReleased
BY Invariance, Closure, ClosedImplies, PTL

(* The assertions of the three timer handlers hold, for any number of      *)
(* queries and backends and whatever the backends and the callback do.     *)
THEOREM TimersFit == Spec => []TimersMatchState
BY Invariance, IndInvImplies, PTL

(* No query is left without a timer that will get it out of its state.     *)
THEOREM Unstranded == Spec => []NeverStranded
BY Invariance, IndInvImplies, PTL

(* A state object belongs to an unfinished query at that backend, and a    *)
(* query has watches only while it holds one (cleanup_query, new_priv).    *)
THEOREM Ownership == Spec => []StateObjectOwned
BY Invariance, IndInvImplies, PTL

(* A finished query has nothing left in the event loop.                    *)
THEOREM Quiescence == Spec => []FinishedIsQuiet
BY Invariance, IndInvImplies, PTL
=============================================================================
