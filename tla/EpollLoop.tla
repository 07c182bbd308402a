----------------------------- MODULE EpollLoop -----------------------------
(***************************************************************************)
(* The epoll loop (lib/epoll.c) and the watches it serves (lib/event.c).   *)
(*                                                                         *)
(* A watch is a block of memory whose address the kernel hands back with   *)
(* each event.  A handler may remove any watch, so the batch of events     *)
(* being worked off may name a block that has been freed, and even one     *)
(* that has since been allocated for another watch.  A handler may also    *)
(* start a nested loop on the same context (a callback that issues a       *)
(* blocking query), which overwrites the batch under the outer loop.       *)
(***************************************************************************)
EXTENDS Integers, FiniteSets, Sequences

CONSTANTS
    Ptr,         \* the addresses watches are allocated at
    Null,
    MaxEvents,   \* EPOLL_MAXEVENTS
    Reused,      \* bound: the addresses at which more than one watch is allocated,
    MaxGen,      \* bound: and how many
    MaxDepth     \* bound: nested loops

ASSUME LoopAssumption ==
    /\ Null \notin Ptr /\ Reused \subseteq Ptr
    /\ MaxEvents \in Nat \ {0} /\ MaxGen \in Nat \ {0} /\ MaxDepth \in Nat \ {0}

VARIABLES
    live,     \* the addresses that hold a watch
    gen,      \* history: how many watches each address has held
    queue,    \* the kernel's list of ready watches
    events,   \* loop->events[0..nevents-1]: an address; as history, which of
              \* the watches it was and whether it has been dispatched
    count,    \* loop->count
    frames    \* the calls of dispatch_events on the stack, innermost last

vars == <<live, gen, queue, events, count, frames>>

(* netresolve_epoll_wait or netresolve_epoll_dispatch, the index i of the  *)
(* event the loop is at, and where in the loop it is: about to call        *)
(* epoll_wait, about to look at events[i], or inside its callback.         *)
Depth == Len(frames)

Top == frames[Depth]

(* Application code runs: no loop, or a callback of the innermost one.     *)
InCode == Depth > 0 => Top.at = "callback"

SetTop(f) == [frames EXCEPT ![Depth] = f]

Pop == SubSeq(frames, 1, Depth - 1)

Listed(p) == \E k \in DOMAIN queue : queue[k] = p

(* The kernel's list without p, which is in it once at most.               *)
Without(p) ==
    LET k == CHOOSE j \in DOMAIN queue : queue[j] = p
    IN  IF Listed(p) THEN SubSeq(queue, 1, k - 1) \o SubSeq(queue, k + 1, Len(queue)) ELSE queue
-----------------------------------------------------------------------------
(* netresolve_watch_add with the add_watch of epoll.c.                     *)
netresolve_watch_add(p) ==
    /\ InCode
    /\ p \notin live /\ gen[p] < IF p \in Reused THEN MaxGen ELSE 1
    /\ live' = live \cup {p}
    /\ gen' = [gen EXCEPT ![p] = @ + 1]
    /\ count' = count + 1
    /\ UNCHANGED <<queue, events, frames>>

(* Mutant: the pending events of a removed watch stay in the batch.        *)
netresolve_watch_remove_KeepsEvents(p) ==
    /\ InCode
    /\ p \in live
    /\ live' = live \ {p}
    /\ queue' = Without(p)
    /\ count' = count - 1
    /\ UNCHANGED <<gen, events, frames>>

(* netresolve_watch_remove with the remove_watch of epoll.c, which also    *)
(* disables the events of the watch in the batch.                          *)
netresolve_watch_remove(p) ==
    /\ InCode
    /\ p \in live
    /\ live' = live \ {p}
    /\ queue' = Without(p)
    /\ events' = [k \in DOMAIN events |-> IF events[k].ptr = p THEN [events[k] EXCEPT !.ptr = Null]
                                          ELSE events[k]]
    /\ count' = count - 1
    /\ UNCHANGED <<gen, frames>>

(* The kernel: a watched file descriptor becomes ready.                    *)
Ready(p) ==
    /\ p \in live /\ ~Listed(p)
    /\ queue' = Append(queue, p)
    /\ UNCHANGED <<live, gen, events, count, frames>>

(* The application, or a callback, starts a loop.                          *)
Enter(mode) ==
    /\ InCode /\ Depth < MaxDepth
    /\ frames' = Append(frames, [mode |-> mode, i |-> 0, at |-> "poll", cur |-> Null, curgen |-> 0])
    /\ UNCHANGED <<live, gen, queue, events, count>>

(* Mutant: off by one in the condition of the while loop.                  *)
WaitReturns_Early ==
    /\ Depth > 0 /\ Top.at = "poll" /\ Top.mode = "wait" /\ count <= 1
    /\ frames' = Pop
    /\ UNCHANGED <<live, gen, queue, events, count>>

(* netresolve_epoll_wait returns when nothing is watched any more.         *)
WaitReturns ==
    /\ Depth > 0 /\ Top.at = "poll" /\ Top.mode = "wait" /\ count <= 0
    /\ frames' = Pop
    /\ UNCHANGED <<live, gen, queue, events, count>>

(* epoll_wait hands out the first ready watches and, readiness being       *)
(* level-triggered, moves them to the end of its list.                     *)
epoll_wait ==
    /\ Depth > 0 /\ Top.at = "poll"
    /\ Top.mode = "wait" => count > 0 /\ queue # <<>>
    /\ LET n == IF Len(queue) < MaxEvents THEN Len(queue) ELSE MaxEvents
           batch == SubSeq(queue, 1, n)
       IN  /\ events' = [k \in 1..n |-> [ptr |-> batch[k], gen |-> gen[batch[k]], done |-> FALSE]]
           /\ queue' = SubSeq(queue, n + 1, Len(queue)) \o batch
    /\ frames' = SetTop([Top EXCEPT !.i = 1, !.at = "scan"])
    /\ UNCHANGED <<live, gen, count>>

(* The body of the for loop of dispatch_events: an event that has been     *)
(* disabled is skipped, another one is dispatched.                         *)
Skip ==
    /\ Depth > 0 /\ Top.at = "scan" /\ Top.i <= Len(events)
    /\ events[Top.i].ptr = Null
    /\ frames' = SetTop([Top EXCEPT !.i = @ + 1])
    /\ UNCHANGED <<live, gen, queue, events, count>>

netresolve_dispatch ==
    /\ Depth > 0 /\ Top.at = "scan" /\ Top.i <= Len(events)
    /\ events[Top.i].ptr # Null
    /\ frames' = SetTop([Top EXCEPT !.at = "callback", !.cur = events[Top.i].ptr,
                                    !.curgen = events[Top.i].gen])
    /\ events' = [events EXCEPT ![Top.i].done = TRUE]
    /\ UNCHANGED <<live, gen, queue, count>>

(* The callback returns; it may have consumed what made its file           *)
(* descriptor ready (a timer is never read, and stays ready).              *)
Return(consumed) ==
    /\ Depth > 0 /\ Top.at = "callback"
    /\ queue' = IF consumed /\ gen[Top.cur] = Top.curgen THEN Without(Top.cur) ELSE queue
    /\ frames' = SetTop([Top EXCEPT !.at = "scan", !.i = @ + 1, !.cur = Null, !.curgen = 0])
    /\ UNCHANGED <<live, gen, events, count>>

(* Mutant: a nested loop returns after one batch.                          *)
EndOfBatch_Stops ==
    /\ Depth > 0 /\ Top.at = "scan" /\ Top.i > Len(events)
    /\ frames' = IF events = <<>> \/ Depth > 1 THEN Pop ELSE SetTop([Top EXCEPT !.at = "poll"])
    /\ UNCHANGED <<live, gen, queue, events, count>>

(* The end of the batch: netresolve_epoll_wait goes on, and so does        *)
(* netresolve_epoll_dispatch unless there were no events.                  *)
EndOfBatch ==
    /\ Depth > 0 /\ Top.at = "scan" /\ Top.i > Len(events)
    /\ frames' = IF Top.mode = "dispatch" /\ events = <<>> THEN Pop
                 ELSE SetTop([Top EXCEPT !.at = "poll"])
    /\ UNCHANGED <<live, gen, queue, events, count>>

Init ==
    /\ live = {}
    /\ gen = [p \in Ptr |-> 0]
    /\ queue = <<>>
    /\ events = <<>>
    /\ count = 0
    /\ frames = <<>>

Loop == WaitReturns \/ epoll_wait \/ Skip \/ netresolve_dispatch \/ EndOfBatch

Next ==
    \/ \E p \in Ptr : netresolve_watch_add(p) \/ netresolve_watch_remove(p) \/ Ready(p)
    \/ \E mode \in {"wait", "dispatch"} : Enter(mode)
    \/ Loop
    \/ \E consumed \in BOOLEAN : Return(consumed)

Spec == Init /\ [][Next]_vars

(* The loop runs, and callbacks return.                                    *)
FairSpec == Spec /\ WF_vars(Loop) /\ WF_vars(\E consumed \in BOOLEAN : Return(consumed))
-----------------------------------------------------------------------------
(* An event in the batch names the watch it was reported for: not a freed  *)
(* block, and not another watch allocated at the same address since        *)
(* (remove_watch: "Disable any pending events").  The kernel's list names  *)
(* live watches only, and loop->count, on which netresolve_epoll_wait and  *)
(* cleanup_members rely, is their number.                                  *)
NoStaleEvent ==
    /\ \A k \in DOMAIN events : events[k].ptr # Null =>
           events[k].ptr \in live /\ gen[events[k].ptr] = events[k].gen
    /\ \A k \in DOMAIN queue : queue[k] \in live
    /\ count = Cardinality(live)

(* The loop keeps the promise of Watches, nested loops included: only live *)
(* watches are dispatched, each at most once for an event the kernel has   *)
(* reported for it.                                                        *)
W == INSTANCE Watches WITH
        Watch <- Ptr \X (1..MaxGen),
        live <- {<<p, gen[p]>> : p \in live},
        pending <- {<<events[k].ptr, events[k].gen>> :
                       k \in {j \in DOMAIN events : events[j].ptr # Null /\ ~events[j].done}},
        running <- [w \in Ptr \X (1..MaxGen) |->
                       Cardinality({d \in DOMAIN frames :
                            frames[d].at = "callback" /\ <<frames[d].cur, frames[d].curgen>> = w})]

ImplementsWatches == W!Spec

(* While a netresolve_epoll_wait is running, a ready watch is dispatched,  *)
(* is removed, or stops being ready, even with more ready watches than     *)
(* EPOLL_MAXEVENTS.                                                        *)
Served ==
    \A p \in Ptr, g \in 1..MaxGen :
        (Depth > 0 /\ frames[1].mode = "wait" /\ gen[p] = g /\ Listed(p))
        ~> (\/ gen[p] # g \/ ~Listed(p)
            \/ \E d \in DOMAIN frames : frames[d].cur = p /\ frames[d].curgen = g)
=============================================================================
