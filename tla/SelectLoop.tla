---------------------------- MODULE SelectLoop ----------------------------
(***************************************************************************)
(* The select loop (lib/select.c).  It finds the watch of an event by file *)
(* descriptor number.  netresolve_select_wait works off its own copies of  *)
(* the descriptor sets, which a callback that removes or adds watches does *)
(* not change; and a number that was closed is given to the next file that *)
(* is opened, such as the timer of the next backend.  A callback removes   *)
(* watches of its own and of others: that of the last answer removes the   *)
(* timer of the request.  Every watch waits for reading or for writing,    *)
(* never for both.                                                         *)
(***************************************************************************)
EXTENDS Integers, FiniteSets, FiniteSetsExt, Sequences

CONSTANTS
    NFds,    \* the descriptor numbers are 0..NFds-1
    MaxGen   \* bound: watches added for one descriptor number

Fd == 0..(NFds - 1)

ASSUME SelectAssumption == NFds \in Nat \ {0} /\ MaxGen \in Nat \ {0}

Event == {"read", "write"}

VARIABLES
    fds,       \* loop->rfds and loop->wfds: the event each watched descriptor waits for
    nfds,      \* loop->nfds
    gen,       \* history: how many watches each number has had
    ready,     \* the watched descriptors that have their event
    batch,     \* the local rfds and wfds of netresolve_select_wait, not yet worked off:
               \* descriptor -> which watch it was (history)
    events,    \* and the event it was reported for
    running,   \* the watch whose callback runs: <<>> or <<fd, gen>>
    stale,     \* history: the descriptors of batch whose watch was removed in the meantime
    assertion  \* the assertion that failed: "none", "add_watch" or "dispatch"

vars == <<fds, nfds, gen, ready, batch, events, running, stale, assertion>>

Watched == DOMAIN fds

Alive == assertion = "none"

(* The library or the application has control, not the loop.               *)
InCode == batch = <<>> \/ running # <<>>

Top(S) == IF S = {} THEN 0 ELSE Max(S) + 1

Restricted(f, S) == [x \in S |-> f[x]]
-----------------------------------------------------------------------------
(* A descriptor has one watch: it is an error to add another, as happens   *)
(* with one that c-ares wants to read and to write (backends/dns.c).       *)
add_watch(fd, e) ==
    /\ InCode /\ Alive /\ gen[fd] < MaxGen
    /\ IF fd \in Watched
       THEN assertion' = "add_watch" /\ UNCHANGED <<fds, nfds, gen>>
       ELSE /\ fds' = [x \in Watched \cup {fd} |-> IF x = fd THEN e ELSE fds[x]]
            /\ nfds' = IF fd >= nfds THEN fd + 1 ELSE nfds
            /\ gen' = [gen EXCEPT ![fd] = @ + 1]
            /\ UNCHANGED assertion
    /\ UNCHANGED <<ready, batch, events, running, stale>>

(* Mutant: the number of descriptors is not lowered.                       *)
remove_watch_KeepsNfds(fd) ==
    /\ InCode /\ Alive
    /\ fd \in Watched
    /\ fds' = Restricted(fds, Watched \ {fd})
    /\ ready' = ready \ {fd}
    /\ stale' = stale \cup {x \in DOMAIN batch : x = fd /\ batch[x] = gen[x]}
    /\ UNCHANGED <<nfds, gen, batch, events, running, assertion>>

(* Mutant: it is lowered to the descriptor that was removed.               *)
remove_watch_CutsNfds(fd) ==
    /\ InCode /\ Alive
    /\ fd \in Watched
    /\ fds' = Restricted(fds, Watched \ {fd})
    /\ nfds' = fd
    /\ ready' = ready \ {fd}
    /\ stale' = stale \cup {x \in DOMAIN batch : x = fd /\ batch[x] = gen[x]}
    /\ UNCHANGED <<gen, batch, events, running, assertion>>

remove_watch(fd) ==
    /\ InCode /\ Alive
    /\ fd \in Watched
    /\ fds' = Restricted(fds, Watched \ {fd})
    /\ nfds' = Top({x \in Watched \ {fd} : x < nfds})
    /\ ready' = ready \ {fd}
    /\ stale' = stale \cup {x \in DOMAIN batch : x = fd /\ batch[x] = gen[x]}
    /\ UNCHANGED <<gen, batch, events, running, assertion>>

Ready(fd) ==
    /\ Alive /\ fd \in Watched
    /\ ready' = ready \cup {fd}
    /\ UNCHANGED <<fds, nfds, gen, batch, events, running, stale, assertion>>

(* netresolve_select_wait up to the return of select().  A select() that   *)
(* fails (EINTR) leaves the sets as they were filled, and as its status is *)
(* not looked at every watch counts as ready.                              *)
select_wait(failed) ==
    /\ InCode /\ running = <<>> /\ Alive
    /\ LET S == {x \in Watched : x < nfds /\ (failed \/ x \in ready)}
       IN  /\ S # {}
           /\ batch' = [x \in S |-> gen[x]]
           /\ events' = Restricted(fds, S)
    /\ stale' = {}
    /\ UNCHANGED <<fds, nfds, gen, ready, running, assertion>>

(* One turn of the for loop: netresolve_select_dispatch_read or _write,    *)
(* which assert that the descriptor is watched for that event.             *)
select_dispatch ==
    /\ batch # <<>> /\ running = <<>> /\ Alive
    /\ LET fd == Min(DOMAIN batch)
       IN  /\ batch' = Restricted(batch, DOMAIN batch \ {fd})
           /\ events' = Restricted(events, DOMAIN batch \ {fd})
           /\ stale' = stale \ {fd}
           /\ IF fd < nfds /\ fd \in Watched /\ fds[fd] = events[fd]
              THEN running' = <<fd, gen[fd]>> /\ UNCHANGED assertion
              ELSE assertion' = "dispatch" /\ UNCHANGED running
    /\ UNCHANGED <<fds, nfds, gen, ready>>

Return(consumed) ==
    /\ running # <<>> /\ Alive
    /\ running' = <<>>
    /\ ready' = IF consumed /\ running = <<running[1], gen[running[1]]>>
                THEN ready \ {running[1]} ELSE ready
    /\ UNCHANGED <<fds, nfds, gen, batch, events, stale, assertion>>

Init ==
    /\ fds = <<>>
    /\ nfds = 0
    /\ gen = [x \in Fd |-> 0]
    /\ ready = {}
    /\ batch = <<>>
    /\ events = <<>>
    /\ running = <<>>
    /\ stale = {}
    /\ assertion = "none"

Next ==
    \/ \E fd \in Fd : remove_watch(fd) \/ Ready(fd) \/ \E e \in Event : add_watch(fd, e)
    \/ \E b \in BOOLEAN : select_wait(b) \/ Return(b)
    \/ select_dispatch

Spec == Init /\ [][Next]_vars
-----------------------------------------------------------------------------
(* loop->nfds is one more than the highest descriptor watched: select()    *)
(* sees every watch, and loop->sources, reallocated to that length, holds  *)
(* every one.                                                              *)
NfdsIsTight == nfds = Top(Watched)

(* What becomes of an event depends on its own watch only, whatever the    *)
(* callbacks before it did to the others, to their numbers and to nfds: if *)
(* the watch that select() reported is still there, the assertions         *)
(* select.c:129 and :130 hold (145 and 146 for a write event) and its own  *)
(* callback runs; if it has been removed, an assertion fails or the        *)
(* callback of another watch of the number runs, which had no event.       *)
EventsGoHome ==
    [][batch' # batch /\ batch # <<>> =>
          LET fd == Min(DOMAIN batch)
          IN  IF fd \in stale
              THEN assertion' = "dispatch" \/ (running'[1] = fd /\ running'[2] # batch[fd])
              ELSE Alive' /\ running' = <<fd, batch[fd]>>]_vars
=============================================================================
