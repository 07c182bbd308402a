------------------------------ MODULE Watches ------------------------------
(***************************************************************************)
(* What lib/event.c expects of the event loop an application plugs in with *)
(* netresolve_set_fd_callbacks, whichever it is (epoll.c, select.c, or one *)
(* of the application's own): a watch is dispatched only while it exists,  *)
(* and only for an event its own file descriptor has had since the watch   *)
(* was added.                                                              *)
(***************************************************************************)
EXTENDS Naturals

CONSTANT Watch        \* the watches ever added

VARIABLES
    live,             \* added and not yet removed
    pending,          \* an event has been picked up and not yet dispatched
    running           \* the watches whose callbacks are on the call stack, with repetition

Init == live = {} /\ pending = {} /\ running = [w \in Watch |-> 0]

Add(w) ==
    /\ live' = live \cup {w}
    /\ UNCHANGED <<pending, running>>

Remove(w) ==
    /\ live' = live \ {w}
    /\ pending' = pending \ {w}
    /\ UNCHANGED running

(* The loop picks up the events of the watches in S and drops what it had. *)
Poll(S) ==
    /\ S \subseteq live
    /\ pending' = S
    /\ UNCHANGED <<live, running>>

Dispatch(w) ==
    /\ w \in live /\ w \in pending
    /\ pending' = pending \ {w}
    /\ running' = [running EXCEPT ![w] = @ + 1]
    /\ UNCHANGED live

Return(w) ==
    /\ running[w] > 0
    /\ running' = [running EXCEPT ![w] = @ - 1]
    /\ UNCHANGED <<live, pending>>

Next ==
    \/ \E w \in Watch : Add(w) \/ Remove(w) \/ Dispatch(w) \/ Return(w)
    \/ \E S \in SUBSET Watch : Poll(S)

Spec == Init /\ [][Next]_<<live, pending, running>>
=============================================================================
