------------------------------- MODULE Query -------------------------------
(***************************************************************************)
(* The life of the queries of one context: lib/query.c, with the backend   *)
(* API of lib/backend.c that drives it.                                    *)
(*                                                                         *)
(* The library is single-threaded.  A call of the application, or one      *)
(* event that the event loop dispatches, runs to completion and is one     *)
(* action.  Inside it netresolve_query_set_state calls itself; a handler   *)
(* is therefore written as an operator from worlds to worlds, a world      *)
(* being a record of the four variables, and an action applies it.         *)
(*                                                                         *)
(* The event loop may dispatch any watch that exists and no other one      *)
(* (EpollLoop shows that the epoll loop does just that).  How long a timer *)
(* runs is left out: an armed timer may expire at any time.                *)
(***************************************************************************)
EXTENDS Integers, FiniteSets

CONSTANTS
    Query,           \* the query objects the application may create
    NoQuery,         \* the value of backend->data when it is NULL
    NBackends,       \* length of the context's list of backends
    Mandatory,       \* the backends written with a plus sign
    Stateful,        \* the backends that call netresolve_backend_new_priv
    Supports,        \* for each request type, the backends that have a setup function
    Requests,        \* the request types the application issues
    RequestTimeout,  \* request.request_timeout, in milliseconds; negative: none
    ResultTimeout,   \* request.result_timeout, likewise
    CallbackFrees    \* the application may free the query in its callback

Backend == 1..NBackends

End == NBackends + 1       \* the NULL that terminates the list

Type == {"FORWARD", "REVERSE", "DNS"}

ASSUME ConstantsAssumption ==
    /\ NoQuery \notin Query
    /\ NBackends \in Nat \ {0}
    /\ Mandatory \subseteq Backend
    /\ Stateful \subseteq Backend
    /\ Supports \in [Type -> SUBSET Backend]
    /\ Requests \subseteq Type
    /\ RequestTimeout \in Int
    /\ ResultTimeout \in Int
    /\ CallbackFrees \in BOOLEAN

State == {"NONE", "SETUP", "WAITING", "WAITING_MORE", "RESOLVED", "DONE", "ERROR", "FAILED"}

Finished == {"DONE", "FAILED"}

(* What stops the process: a failed assertion, a call of cleanup(NULL), a  *)
(* use of a freed query, a use of backend data that was freed under the    *)
(* backend, a walk past the end of the backend list, memory freed twice.   *)
Fault == {"none", "assert", "null_priv", "freed_query", "freed_priv", "overrun", "double_free"}

VARIABLES
    query,    \* the query objects
    data,     \* backend->data: the query whose state object the backend holds
    cleanup,  \* whether backend->cleanup has been set
    fault,    \* what stopped the process, if anything did
    context   \* open, being freed by netresolve_context_free, or freed

vars == <<query, data, cleanup, fault, context>>

World == [query |-> query, data |-> data, cleanup |-> cleanup, fault |-> fault]

QueryRecord == [life : {"unused", "live", "freed"}, type : Type, state : State, backend : 1..End,
                delayed : BOOLEAN, request : BOOLEAN, result : BOOLEAN, watch : BOOLEAN,
                paths : BOOLEAN, called : Nat]

Worlds == [query : [Query -> QueryRecord],
           data : [Backend -> Query \cup {NoQuery}],
           cleanup : [Backend -> BOOLEAN],
           fault : Fault]

(* A query as netresolve_query_new leaves it.  delayed, request and result *)
(* say whether the timer is running, watch whether the backend has watches, *)
(* paths whether the response has any.  called (number of calls of the     *)
(* callback) is history.                                                   *)
Fresh == [life |-> "unused", type |-> "FORWARD", state |-> "NONE", backend |-> 1,
          delayed |-> FALSE, request |-> FALSE, result |-> FALSE, watch |-> FALSE,
          paths |-> FALSE, called |-> 0]

(* How a setup function ends: it fails, it finishes at once with or        *)
(* without paths, it leaves watches behind, or it leaves nothing behind (a *)
(* resolver library that gave up on the spot).  Only a backend with a      *)
(* state object can wait.                                                  *)
Plan == {o \in [Backend -> {"fail", "found", "empty", "wait", "idle"}] :
            \A b \in Backend \ Stateful : o[b] \notin {"wait", "idle"}}

(* What a backend does when one of its watches is dispatched.              *)
Reply == [verdict : {"more", "finish", "fail"}, adds : BOOLEAN]

Frees == IF CallbackFrees THEN BOOLEAN ELSE {FALSE}

First(S) == CHOOSE i \in S : \A j \in S : i <= j

Stop(w, f) == [w EXCEPT !.fault = IF @ = "none" THEN f ELSE @]

Put(w, q, r) == [w EXCEPT !.query[q] = r]

(* Any use of the query object by the library.                             *)
Touch(w, q) == IF w.query[q].life = "freed" THEN Stop(w, "freed_query") ELSE w
-----------------------------------------------------------------------------
(* backend->cleanup(backend->data), which removes the watches of the query *)
(* the state object belongs to, and the release of the object.             *)
unprivate(w, b) ==
    IF w.data[b] = NoQuery THEN Stop(w, "null_priv")
    ELSE [Put(w, w.data[b], [w.query[w.data[b]] EXCEPT !.watch = FALSE]) EXCEPT !.data[b] = NoQuery]

(* Mutant: the result timer survives.                                      *)
cleanup_query_KeepsResult(w, q) ==
    LET b == w.query[q].backend
        w1 == Put(w, q, [w.query[q] EXCEPT !.delayed = FALSE, !.request = FALSE])
    IN  IF b = End \/ ~w.cleanup[b] THEN w1 ELSE unprivate(w1, b)

(* Mutant: backend->data is not reset.                                     *)
cleanup_query_KeepsData(w, q) ==
    LET b == w.query[q].backend
        w1 == Put(w, q, [w.query[q] EXCEPT !.delayed = FALSE, !.request = FALSE, !.result = FALSE])
    IN  IF b = End \/ ~w.cleanup[b] THEN w1 ELSE [unprivate(w1, b) EXCEPT !.data = w.data]

(* Stopping the timers of a query and releasing the state object of the    *)
(* backend it is at.                                                       *)
cleanup_query(w, q) ==
    LET b == w.query[q].backend
        w1 == Put(w, q, [w.query[q] EXCEPT !.delayed = FALSE, !.request = FALSE, !.result = FALSE])
    IN  IF b = End \/ ~w.cleanup[b] THEN w1 ELSE unprivate(w1, b)

(* Mutant: the backend is not asked to clean up.                           *)
netresolve_query_free_NoCleanup(w, q) ==
    Put(w, q, [w.query[q] EXCEPT !.life = "freed", !.state = "NONE", !.paths = FALSE, !.watch = FALSE,
                                 !.delayed = FALSE, !.request = FALSE, !.result = FALSE])

(* set_state(NONE), unless the query is in that state already, and         *)
(* netresolve_query_free both release dns_name.                            *)
netresolve_query_free(w, q) ==
    LET w1 == cleanup_query(w, q)
    IN  IF w1.query[q].watch THEN Stop(w1, "assert")
        ELSE IF w1.query[q].type = "DNS" /\ w1.query[q].state # "NONE" THEN Stop(w1, "double_free")
        ELSE Put(w1, q, [w1.query[q] EXCEPT !.life = "freed", !.state = "NONE", !.paths = FALSE])

callback(w, q, frees) ==
    LET w1 == Put(w, q, [w.query[q] EXCEPT !.called = @ + 1])
    IN  IF frees THEN netresolve_query_free(w1, q) ELSE w1

(* Whether set_state(SETUP) at backend j ends in FAILED, which moves on.   *)
FallsThrough(w, q, o, j) ==
    \/ j \notin Supports[w.query[q].type]
    \/ o[j] = "fail"
    \/ o[j] \in {"wait", "idle"} /\ RequestTimeout = 0

(* Mutant: netresolve_backend_new_priv without its assertion.              *)
SetupFault_Overwrites(w, q, j) ==
    IF j \notin Supports[w.query[q].type] /\ w.cleanup[j] /\ w.data[j] = NoQuery
    THEN "null_priv" ELSE "none"

(* A state object is created for a backend that still holds one, or the    *)
(* cleanup of a backend that was never set up runs without one.            *)
SetupFault(w, q, j) ==
    CASE j \in Supports[w.query[q].type] /\ j \in Stateful /\ w.data[j] # NoQuery -> "assert"
      [] j \notin Supports[w.query[q].type] /\ w.cleanup[j] /\ w.data[j] = NoQuery -> "null_priv"
      [] OTHER -> "none"

(* Mutant: a time of zero is passed on as it is.                           *)
netresolve_timeout_add_Zero(sec, nsec) == sec # 0 \/ nsec # 0

(* Whether the timer that is created expires.  A timer set to zero does    *)
(* not, so that zero is made a nanosecond.  Creating one does not fail.    *)
netresolve_timeout_add(sec, nsec) ==
    LET it_value == [tv_sec |-> sec, tv_nsec |-> IF sec # 0 \/ nsec # 0 THEN nsec ELSE 1]
    IN  it_value.tv_sec # 0 \/ it_value.tv_nsec # 0

netresolve_timeout_add_ms(msec) == netresolve_timeout_add(msec \div 1000, (msec % 1000) * 1000000)

(* The query once set_state(SETUP) has settled at backend s with outcome v.*)
Settled(r, s, v) ==
    [r EXCEPT !.backend = s,
              !.state = CASE v = "fail" -> "FAILED"
                          [] v \in {"found", "empty"} -> "RESOLVED"
                          [] v \in {"wait", "idle"} -> "WAITING",
              !.delayed = (v \in {"found", "empty"} /\ netresolve_timeout_add_ms(0)),
              !.request = (/\ v \in {"wait", "idle"} /\ RequestTimeout > 0
                           /\ netresolve_timeout_add_ms(RequestTimeout)),
              !.watch = (v = "wait"),
              !.paths = @ \/ v = "found"]

(* The first backend from i on at which a setup does not fall through.     *)
Landing(w, q, o, i) == First({j \in i..NBackends : ~FallsThrough(w, q, o, j)} \cup {End})

Visited(w, q, o, i) == {j \in Backend : i <= j /\ j <= Landing(w, q, o, i)}

(* The world once the setups from backend i on have come to rest.  Each    *)
(* backend that failed was cleaned up: one that was set up gave back its   *)
(* state object, one that was passed over lost the object of whichever     *)
(* query is using it.                                                      *)
SetupWorld(w, q, o, i) ==
    LET able == Supports[w.query[q].type]
        s == Landing(w, q, o, i)
        visited == Visited(w, q, o, i)
        bereft == {w.data[j] : j \in visited \ able}
    IN  [query |-> [r \in Query |->
                      IF r = q THEN Settled(w.query[q], s, IF s = End THEN "fail" ELSE o[s])
                      ELSE IF r \in bereft THEN [w.query[r] EXCEPT !.watch = FALSE]
                      ELSE w.query[r]],
         data |-> [j \in Backend |->
                      IF j \notin visited THEN w.data[j]
                      ELSE IF j = s /\ j \in Stateful THEN q
                      ELSE NoQuery],
         cleanup |-> [j \in Backend |-> w.cleanup[j] \/ j \in visited \cap able \cap Stateful],
         fault |-> w.fault]

(* set_state(SETUP) at backend i with everything it leads to: the setup    *)
(* function runs, and while a backend fails the next one is set up.  At    *)
(* the end of the list the query is FAILED; a SETUP that gave up for want  *)
(* of a request timeout then looks at the state again.                     *)
set_state_SETUP(w, q, o, i, frees) ==
    LET visited == Visited(w, q, o, i)
        broken == {j \in visited : SetupFault(w, q, j) # "none"}
        revisited == RequestTimeout = 0 /\ \E j \in visited \cap Supports[w.query[q].type] :
                                              o[j] \in {"wait", "idle"}
        w1 == SetupWorld(w, q, o, i)
    IN  IF broken # {} THEN Stop(w, SetupFault(w, q, First(broken)))
        ELSE IF Landing(w, q, o, i) # End THEN w1
        ELSE IF revisited THEN Touch(callback(w1, q, frees), q)
        ELSE callback(w1, q, frees)

(* Mutant: the search for a mandatory backend starts at the first one.     *)
set_state_DONE_Rewinds(w, q, o, frees) ==
    LET w1 == cleanup_query(Put(w, q, [w.query[q] EXCEPT !.state = "DONE"]), q)
        m == First(Mandatory \cup {End})
    IN  callback(IF m = End THEN Put(w1, q, [w1.query[q] EXCEPT !.backend = End])
                 ELSE set_state_SETUP(w1, q, o, m, frees), q, frees)

(* Mutant: the search steps over the terminator of the list.               *)
set_state_DONE_Overruns(w, q, o, frees) ==
    LET b == w.query[q].backend
        w1 == cleanup_query(Put(w, q, [w.query[q] EXCEPT !.state = "DONE"]), q)
        m == First({j \in Mandatory : j > b} \cup {End})
    IN  callback(IF m = End THEN Put(w1, q, [w1.query[q] EXCEPT !.backend = End + 1])
                 ELSE set_state_SETUP(w1, q, o, m, frees), q, frees)

(* set_state(DONE): the next mandatory backend is set up, if there is one, *)
(* and the callback is called in any case.                                 *)
set_state_DONE(w, q, o, frees) ==
    LET b == w.query[q].backend
        w1 == cleanup_query(Put(w, q, [w.query[q] EXCEPT !.state = "DONE"]), q)
        m == First({j \in Mandatory : j > b} \cup {End})
        w2 == IF m = End THEN Put(w1, q, [w1.query[q] EXCEPT !.backend = End])
              ELSE set_state_SETUP(w1, q, o, m, frees)
    IN  IF b = End THEN Stop(w1, "overrun")
        ELSE callback(Touch(w2, q), q, frees)

(* Mutant: the break after the next set_state(SETUP) is missing.           *)
set_state_FAILED_NoBreak(w, q, o, frees) ==
    LET b == w.query[q].backend
        w1 == cleanup_query(Put(w, q, [w.query[q] EXCEPT !.state = "FAILED"]), q)
    IN  callback(IF b < NBackends THEN set_state_SETUP(w1, q, o, b + 1, frees)
                 ELSE Put(w1, q, [w1.query[q] EXCEPT !.backend = End]), q, frees)

(* set_state(FAILED): the next backend is set up; the callback is called   *)
(* only at the end of the list.                                            *)
set_state_FAILED(w, q, o, frees) ==
    LET b == w.query[q].backend
        w1 == cleanup_query(Put(w, q, [w.query[q] EXCEPT !.state = "FAILED"]), q)
    IN  IF b = End THEN Stop(w1, "overrun")
        ELSE IF b < NBackends THEN set_state_SETUP(w1, q, o, b + 1, frees)
        ELSE callback(Put(w1, q, [w1.query[q] EXCEPT !.backend = End]), q, frees)

(* Mutant: a reported error is not acted upon.                             *)
after_dispatch_IgnoresError(w, q, o, frees) ==
    LET w1 == Touch(w, q)
    IN  IF w1.query[q].state = "RESOLVED" THEN Touch(set_state_DONE(w1, q, o, frees), q) ELSE w1

(* What netresolve_query_dispatch does once the watch's callback returned. *)
after_dispatch(w, q, o, frees) ==
    LET w1 == Touch(w, q)
        w2 == IF w1.query[q].state = "RESOLVED"
              THEN Touch(set_state_DONE(w1, q, o, frees), q)
              ELSE w1
    IN  IF w2.query[q].state = "ERROR" THEN set_state_FAILED(w2, q, o, frees) ELSE w2

(* netresolve_backend_add_path: the first path of a waiting query starts   *)
(* the result timer, or, when there is none, finishes the query while the  *)
(* backend is still running.                                               *)
add_path(w, q, o, frees) ==
    LET r == [w.query[q] EXCEPT !.paths = TRUE]
        timer == ResultTimeout > 0 /\ netresolve_timeout_add_ms(ResultTimeout)
        more == [r EXCEPT !.state = "WAITING_MORE", !.result = timer]
    IN  IF r.state # "WAITING" THEN Put(w, q, r)
        ELSE IF ResultTimeout = 0
        THEN Stop(set_state_DONE(Put(w, q, more), q, o, frees), "freed_priv")
        ELSE Put(w, q, more)
-----------------------------------------------------------------------------
(* The process goes no further than a fault.                               *)
Apply(w) ==
    /\ fault = "none"
    /\ fault' = w.fault
    /\ IF w.fault = "none"
       THEN query' = w.query /\ data' = w.data /\ cleanup' = w.cleanup
       ELSE UNCHANGED <<query, data, cleanup>>
    /\ UNCHANGED context

Live(q) == query[q].life = "live"

Active(q) == Live(q) /\ query[q].state \notin Finished

(* The condition on which netresolve_epoll_wait returns: context->nfds = 0 *)
Idle == \A q \in Query : LET r == query[q] IN ~(r.delayed \/ r.request \/ r.result \/ r.watch)

(* What netresolve_query_new returns.                                      *)
Created(q, t) == Put(World, q, [query[q] EXCEPT !.life = "live", !.type = t])

(* The application issues a query: SETUP at the first backend.  In         *)
(* blocking mode the call returns when the loop is Idle.                   *)
netresolve_query(q, t, o, frees) ==
    /\ query[q].life = "unused"
    /\ Apply(set_state_SETUP(Created(q, t), q, o, 1, frees))

(* Options that are not understood: the query is freed before its SETUP,   *)
(* though not before it has been placed at the first backend.              *)
netresolve_query_refused(q, t) ==
    /\ query[q].life = "unused"
    /\ Apply(netresolve_query_free(Created(q, t), q))

(* The application frees a query, finished or not.                         *)
Free(q) ==
    /\ Live(q)
    /\ Apply(netresolve_query_free(World, q))

(* The timers.  Each handler asserts the state the query must be in.       *)
dispatch_delayed(q, o, frees) ==
    /\ Live(q) /\ query[q].delayed
    /\ LET w == Put(World, q, [query[q] EXCEPT !.delayed = FALSE])
       IN  Apply(IF query[q].state # "RESOLVED" THEN Stop(w, "assert")
                 ELSE after_dispatch(set_state_DONE(w, q, o, frees), q, o, frees))

dispatch_request_timeout(q, o, frees) ==
    /\ Live(q) /\ query[q].request
    /\ LET w == Put(World, q, [query[q] EXCEPT !.request = FALSE])
       IN  Apply(IF query[q].state \notin {"WAITING", "WAITING_MORE"} THEN Stop(w, "assert")
                 ELSE after_dispatch(set_state_FAILED(w, q, o, frees), q, o, frees))

dispatch_result_timeout(q, o, frees) ==
    /\ Live(q) /\ query[q].result
    /\ LET w == Put(World, q, [query[q] EXCEPT !.result = FALSE])
       IN  Apply(IF query[q].state # "WAITING_MORE" THEN Stop(w, "assert")
                 ELSE after_dispatch(set_state_DONE(w, q, o, frees), q, o, frees))

(* A watch of the backend: it may add paths, and it may report the end.    *)
dispatch_watch(q, r, o, frees) ==
    /\ Live(q) /\ query[q].watch
    /\ LET w1 == IF r.adds THEN add_path(World, q, o, frees) ELSE World
           w2 == CASE r.verdict = "more" -> w1
                   [] r.verdict = "finish" -> Put(w1, q, [w1.query[q] EXCEPT !.state = "RESOLVED"])
                   [] r.verdict = "fail" -> Put(w1, q, [w1.query[q] EXCEPT !.state = "ERROR"])
       IN  Apply(after_dispatch(w2, q, o, frees))

NoneLive == \A q \in Query : ~Live(q)

(* The backends are loaded anew.  The application does so while it has no  *)
(* queries: each of them points into the list that is given up.            *)
netresolve_set_backend_string ==
    /\ fault = "none" /\ NoneLive
    /\ data' = [b \in Backend |-> NoQuery]
    /\ cleanup' = [b \in Backend |-> FALSE]
    /\ UNCHANGED <<query, fault, context>>

(* netresolve_context_free is one call: it frees the queries that are left *)
(* one by one and then the rest.                                           *)
netresolve_context_free ==
    /\ fault = "none"
    /\ context' = "closing"
    /\ UNCHANGED <<query, data, cleanup, fault>>

netresolve_context_free_end ==
    /\ fault = "none" /\ NoneLive
    /\ context' = "freed"
    /\ UNCHANGED <<query, data, cleanup, fault>>

Init ==
    /\ query = [q \in Query |-> Fresh]
    /\ data = [b \in Backend |-> NoQuery]
    /\ cleanup = [b \in Backend |-> FALSE]
    /\ fault = "none"
    /\ context = "open"

(* The plans that differ in what is still to come: a query does not return *)
(* to a backend it has left.                                               *)
Ahead(q) ==
    {o \in Plan : \A b \in Backend : Live(q) /\ b <= query[q].backend => o[b] = "found"}

(* The calls and events that set a backend up or run the callback.         *)
Progress ==
    \E q \in Query : \E o \in Ahead(q), frees \in Frees :
        \/ \E t \in Requests : netresolve_query(q, t, o, frees)
        \/ dispatch_delayed(q, o, frees)
        \/ dispatch_request_timeout(q, o, frees)
        \/ dispatch_result_timeout(q, o, frees)
        \/ \E r \in Reply : dispatch_watch(q, r, o, frees)

Next ==
    \/ /\ context = "open"
       /\ \/ Progress
          \/ \E q \in Query, t \in Requests : netresolve_query_refused(q, t)
          \/ netresolve_set_backend_string
          \/ netresolve_context_free
    \/ context \in {"open", "closing"} /\ \E q \in Query : Free(q)
    \/ context = "closing" /\ netresolve_context_free_end

Spec == Init /\ [][Next]_vars

(* A timer of q expires and q moves on in the list of backends, as it does *)
(* unless the process stops.                                               *)
Timer ==
    \E q \in Query :
        /\ query'[q].backend # query[q].backend
        /\ \E o \in Ahead(q), frees \in Frees :
               dispatch_delayed(q, o, frees) \/ dispatch_request_timeout(q, o, frees)

(* What enables a Timer step that changes something.                       *)
Armed ==
    /\ fault = "none" /\ context = "open"
    /\ \E q \in Query : Live(q) /\ (query[q].delayed \/ query[q].request)

(* Weak fairness of Timer, with its enabling condition written out: while  *)
(* delayed or request timers exist, one of them expires in the end and the *)
(* loop dispatches it.  Nothing is assumed of the backends' watches: a     *)
(* server may never answer.  netresolve_context_free runs to its end.      *)
Fairness ==
    /\ []<>(~Armed) \/ []<><<Timer>>_vars
    /\ WF_vars(context = "closing" /\ ((\E q \in Query : Free(q)) \/ netresolve_context_free_end))

FairSpec == Spec /\ Fairness
-----------------------------------------------------------------------------
(* Every variable has the shape the C structures give it.                  *)
TypeOK == World \in Worlds /\ context \in {"open", "closing", "freed"}

(* Between two handlers the timers of a query fit its state, so that the   *)
(* assertions at the head of dispatch_delayed, dispatch_request_timeout    *)
(* and dispatch_result_timeout hold whichever timer fires next.            *)
TimersMatchState ==
    \A q \in Query : Live(q) =>
        /\ query[q].delayed <=> query[q].state = "RESOLVED"
        /\ query[q].request => query[q].state \in {"WAITING", "WAITING_MORE"}
        /\ query[q].result => query[q].state = "WAITING_MORE"

(* A query never rests in a state of passage (NONE, SETUP, ERROR), and,    *)
(* with a request timeout configured, an unfinished query has a timer that *)
(* will get it out of its state whatever its backend does.  So the loop is *)
(* Idle only when no query is unfinished: in blocking mode netresolve_     *)
(* query returns with the result, which lib/compat.c relies on.            *)
NeverStranded ==
    \A q \in Query : Active(q) =>
        /\ query[q].state \in {"WAITING", "WAITING_MORE", "RESOLVED"}
        /\ RequestTimeout > 0 => query[q].delayed \/ query[q].request

(* The state object of a backend, which lives in the context, belongs to a *)
(* live query that is waiting at that very backend, and a query only has   *)
(* backend watches as long as its state object exists: what cleanup_query  *)
(* needs to release exactly what the query holds.                          *)
StateObjectOwned ==
    /\ \A b \in Backend : data[b] # NoQuery =>
            /\ cleanup[b]
            /\ Active(data[b])
            /\ query[data[b]].backend = b
    /\ \A q \in Query : query[q].watch =>
            /\ query[q].backend \in Backend
            /\ data[query[q].backend] = q

(* A finished query has no timer and no watch left, and has walked the     *)
(* whole list of backends: netresolve_epoll_wait can return, and the       *)
(* assertions of netresolve_query_free hold.                               *)
FinishedIsQuiet ==
    \A q \in Query : query[q].state \in Finished =>
        /\ ~query[q].delayed /\ ~query[q].request /\ ~query[q].result /\ ~query[q].watch
        /\ query[q].backend = End

(* The callback is called exactly when the query finishes (set_state,      *)
(* cases DONE and FAILED), and before that only on a success that is       *)
(* followed by a mandatory backend: once for each of those at most, and    *)
(* never more than once without them.                                      *)
CallbackOnce ==
    \A q \in Query : Live(q) =>
        LET early == query[q].called - (IF query[q].state \in Finished THEN 1 ELSE 0)
        IN  early \in 0..Cardinality({b \in Mandatory : 1 < b /\ b <= query[q].backend})

(* The result of a finished query does not change any more while the       *)
(* application holds on to it, and a query never returns to a backend it   *)
(* has left.                                                               *)
ResultStable ==
    [][\A q \in Query : Live(q) /\ Live(q)' =>
          /\ query[q].state \in Finished => query'[q] = query[q]
          /\ query'[q].backend >= query[q].backend]_vars

(* A step of one query leaves the other queries of the context alone,      *)
(* though they share the backends and what these keep in backend->data and *)
(* backend->cleanup.  (It takes that the backends with a state object can  *)
(* handle the requests: cleanup_query of a query that such a backend has   *)
(* turned away would take the state object of another one.)                *)
Isolation ==
    [][\A q, r \in Query : q # r => query'[q] = query[q] \/ query'[r] = query[r]]_vars

(* netresolve_context_free leaves nothing behind: no query is live, no     *)
(* backend holds a state object that nobody would release any more, and    *)
(* the event loop has no watch or timer of this context.                   *)
ContextReleased ==
    context = "freed" => NoneLive /\ Idle /\ \A b \in Backend : data[b] = NoQuery

(* With a request timeout configured, every query that is issued finishes  *)
(* or is freed in the end, even if no backend ever answers (the request    *)
(* timer of set_state, case WAITING, and the delayed timer of RESOLVED),   *)
(* unless the process has stopped; and a context that is being freed gets  *)
(* there.                                                                  *)
EveryQueryFinishes ==
    /\ \A q \in Query : Live(q) ~> (query[q].state \in Finished \/ ~Live(q) \/ fault # "none")
    /\ context = "closing" ~> (context = "freed" \/ fault # "none")
-----------------------------------------------------------------------------
(* What the documentation says and the code does not do.                   *)

(* README: "free the query if you no longer need it", in the callback.     *)
(* The library does not use a query after its callback has freed it.       *)
NoUseAfterFree == fault # "freed_query"

(* epoll.c: the loop "allows for processing queries simultaneously".  No   *)
(* assertion of the library fails however the queries overlap.             *)
NoAssertionFails == fault # "assert"
=============================================================================
