------------------------------ MODULE Connect ------------------------------
(***************************************************************************)
(* netresolve_connect (lib/socket.c): the paths a query found are turned   *)
(* into one connected socket, trying one IPv4 and one IPv6 path at a time  *)
(* and preferring the earlier one.                                         *)
(*                                                                         *)
(* enable_sockets, connect_start, connect_check, pickup_connected_socket,  *)
(* the application's callback and netresolve_connect_next call each other. *)
(* What has to survive such a call is the loop of enable_sockets, which is *)
(* a frame of the stack here; everything else is a tail call.  Events and  *)
(* calls of the application from outside come when the stack is empty.     *)
(*                                                                         *)
(* Timers are assumed to be created when asked for (socket.c:223, 286).  A *)
(* mandatory backend calls connect_prepare again; the paths it may add to  *)
(* the response are not modelled.                                          *)
(***************************************************************************)
EXTENDS Integers, Sequences

CONSTANTS
    Paths,        \* number of paths the resolution yields
    Family,       \* for each path, its address family
    Modes,        \* the modes of operation considered
    Asks          \* how often the application calls netresolve_connect_next

Path == 1..Paths

End == Paths + 1

Families == {"INET", "INET6"}

(* priv->sequential_connect; whether some of the sockets are datagram      *)
(* sockets, which connect on the spot; whether the request is for local    *)
(* sockets, so that all paths are AF_UNIX ones; and whether the backends   *)
(* behind the first one that succeeds include a mandatory one.             *)
Mode == [sequential : BOOLEAN, datagram : BOOLEAN, local : BOOLEAN, mandatory : BOOLEAN]

(* Datagram sockets only in sequential mode: in parallel mode an immediate *)
(* connection is delivered out of turn.                                    *)
Orderly == {m \in Mode : m.datagram => m.sequential}

ASSUME ConnectAssumption ==
    /\ Paths \in Nat
    /\ Family \in [Path -> Families]
    /\ Modes \subseteq Mode
    /\ Asks \in Nat

VARIABLES
    mode,       \* the mode of operation, fixed by netresolve_connect
    phase,      \* the name is being resolved, paths are tried, the query is freed
    state,      \* path->socket.state of each path; its fd is open when SCHEDULED or READY
    watch,      \* the paths with a path->socket.watch
    timeout,    \* priv->timeout is armed
    priority,   \* priv->priority_timeout is armed
    skip,       \* priv->skip_scheduled
    stack,      \* the loops of enable_sockets: where each is and the families it has met
    owed,       \* history: sockets asked for minus sockets delivered
    asked,      \* history: calls of netresolve_connect_next
    fault       \* an assertion failed, a null query or null paths dereferenced,
                \* descriptors in use forgotten

vars == <<mode, phase, state, watch, timeout, priority, skip, stack, owed, asked, fault>>

SocketState == {"NONE", "SCHEDULED", "READY", "DONE"}

Loop == [at |-> 1, seen |-> {}]       \* a frame: enable_sockets at its beginning

Outcome == {"EINPROGRESS", "failed"} \cup (IF mode.datagram THEN {"connected"} ELSE {})

First(S) == CHOOSE i \in S : \A j \in S : i <= j

Running == phase = "connecting" /\ fault = "none"
-----------------------------------------------------------------------------
(* What the application does in its callback: nothing, or ask for more.    *)
callback(more, frames) ==
    /\ more => asked < Asks
    /\ owed' = IF more THEN owed ELSE owed - 1
    /\ asked' = IF more THEN asked + 1 ELSE asked
    /\ stack' = IF more THEN Append(frames, Loop) ELSE frames

(* Mutant: skip_scheduled is not reset.                                    *)
deliver_KeepsSkip(s, w, k, found, frames, more) ==
    /\ state' = [s EXCEPT ![found] = "DONE"]
    /\ watch' = {}
    /\ skip' = k
    /\ timeout' = FALSE /\ priority' = FALSE
    /\ callback(more, frames)
    /\ UNCHANGED fault

(* A ready socket goes to the application.  All that are scheduled are     *)
(* paused, which asserts that each of them has a watch.                    *)
deliver(s, w, k, found, frames, more) ==
    \/ /\ \A p \in Path : s[p] = "SCHEDULED" => p \in w
       /\ state' = [s EXCEPT ![found] = "DONE"]
       /\ watch' = {}
       /\ skip' = IF priority THEN FALSE ELSE k
       /\ timeout' = FALSE /\ priority' = FALSE
       /\ callback(more, frames)
       /\ UNCHANGED fault
    \/ /\ \E p \in Path : s[p] = "SCHEDULED" /\ p \notin w
       /\ fault' = "assert"
       /\ UNCHANGED <<state, watch, timeout, priority, skip, stack, owed, asked>>

(* Mutant: a waiting connection is not preferred to a ready one.           *)
Found_NoPreference(s, k) == First({p \in Path : s[p] = "READY"} \cup {End})

(* The first scheduled or ready path.                                      *)
Found(s, k) == First({p \in Path : s[p] = "READY" \/ (s[p] = "SCHEDULED" /\ ~k)} \cup {End})

(* Delivers what may be delivered.  Otherwise a ready socket that has to   *)
(* wait for a preferred one starts the priority timer, and enable_sockets  *)
(* begins anew.                                                            *)
pickup_connected_socket(s, w, t, k, frames, more) ==
    LET found == Found(s, k)
        ready == \E p \in Path : s[p] = "READY"
    IN  IF ready /\ s[found] = "READY" THEN deliver(s, w, k, found, frames, more)
        ELSE /\ ~more
             /\ state' = s /\ watch' = w /\ timeout' = t /\ skip' = k
             /\ priority' = (priority \/ ready)
             /\ stack' = Append(frames, Loop)
             /\ UNCHANGED <<owed, asked, fault>>

(* The result of a connection attempt, from connect() or from SO_ERROR.    *)
connect_check(p, e, t, frames, more) ==
    \/ /\ e = "EINPROGRESS" /\ ~more
       /\ state' = [state EXCEPT ![p] = "SCHEDULED"]
       /\ watch' = watch \cup {p}
       /\ timeout' = t
       /\ stack' = frames
       /\ UNCHANGED <<priority, skip, owed, asked, fault>>
    \/ /\ e # "EINPROGRESS"
       /\ pickup_connected_socket(
              [state EXCEPT ![p] = IF e = "connected" THEN "READY" ELSE "DONE"],
              watch \ {p}, t, skip, frames, more)
-----------------------------------------------------------------------------
(* Mutant: every address is attempted, not just the first of each family. *)
Candidates_AllAddresses(f) == {p \in Path : p >= f.at /\ state[p] # "DONE"}

(* The paths the innermost loop has yet to attempt: all but the first of   *)
(* IPv4 and of IPv6 are skipped.                                           *)
Candidates(f) ==
    {p \in Path : p >= f.at /\ state[p] # "DONE" /\ (mode.local \/ Family[p] \notin f.seen)}

(* Neither ip4 nor ip6 counts a local path.                                *)
Met(f, p) == IF mode.local THEN f.seen ELSE f.seen \cup {Family[p]}

(* Mutant: the loop goes on after an attempt in sequential mode.           *)
After_NoBreak(p) == p + 1

(* Where the loop goes on; in sequential mode it breaks.                   *)
After(p) == IF mode.sequential THEN End ELSE p + 1

resume(p) == IF state[p] = "SCHEDULED" THEN watch \cup {p} ELSE watch

(* One turn of the loop in enable_sockets, those it passes over included.  *)
(* connect_start gets no socket address for a local path and returns.      *)
enable_sockets(e, more) ==
    /\ Running /\ stack # <<>>
    /\ LET top == Len(stack)
           p == First(Candidates(stack[top]))
           f == [at |-> After(p), seen |-> Met(stack[top], p)]
           frames == [stack EXCEPT ![top] = f]
       IN  /\ Candidates(stack[top]) # {}
           /\ \/ /\ state[p] = "NONE" /\ ~mode.local
                 /\ connect_check(p, e, TRUE, frames, more)
              \/ /\ state[p] # "NONE" \/ mode.local
                 /\ e = "EINPROGRESS" /\ ~more
                 /\ watch' = resume(p)
                 /\ timeout' = TRUE
                 /\ stack' = frames
                 /\ UNCHANGED <<state, priority, skip, owed, asked, fault>>
    /\ UNCHANGED <<mode, phase>>

(* Mutant: every loop gives up at its end.                                 *)
enable_sockets_end_GivesUp ==
    /\ Running /\ stack # <<>>
    /\ Candidates(stack[Len(stack)]) = {}
    /\ stack' = SubSeq(stack, 1, Len(stack) - 1)
    /\ timeout' = FALSE /\ priority' = FALSE
    /\ UNCHANGED <<mode, phase, state, watch, skip, owed, asked, fault>>

(* The loop ends; one that met no IPv4 and no IPv6 path gives up.          *)
enable_sockets_end ==
    /\ Running /\ stack # <<>>
    /\ Candidates(stack[Len(stack)]) = {}
    /\ stack' = SubSeq(stack, 1, Len(stack) - 1)
    /\ LET none == stack[Len(stack)].seen = {}
       IN  /\ timeout' = (timeout /\ ~none)
           /\ priority' = (priority /\ ~none)
    /\ UNCHANGED <<mode, phase, state, watch, skip, owed, asked, fault>>
-----------------------------------------------------------------------------
(* The callback of the query, which a mandatory backend repeats.  A        *)
(* response without paths has no array.  The descriptors of all paths are  *)
(* reset, those of attempts under way with them.                           *)
connect_prepare ==
    /\ fault = "none" /\ stack = <<>>
    /\ phase = "resolving" \/ (phase = "connecting" /\ mode.mandatory)
    /\ IF Paths = 0
       THEN fault' = "no_paths" /\ UNCHANGED <<phase, stack>>
       ELSE IF \E p \in Path : state[p] \in {"SCHEDULED", "READY"}
       THEN fault' = "lost_descriptors" /\ UNCHANGED <<phase, stack>>
       ELSE phase' = "connecting" /\ stack' = <<Loop>> /\ UNCHANGED fault
    /\ UNCHANGED <<mode, state, watch, timeout, priority, skip, owed, asked>>

(* The watch of a path is dispatched.                                      *)
connect_ready(p, e, more) ==
    /\ Running /\ stack = <<>>
    /\ p \in watch
    /\ e \in {"connected", "failed"}
    /\ connect_check(p, e, timeout, <<>>, more)
    /\ UNCHANGED <<mode, phase>>

(* Mutant: the connections waited for are left alone.                      *)
connect_timeout_KillsNone ==
    /\ Running /\ stack = <<>>
    /\ timeout
    /\ timeout' = FALSE /\ priority' = FALSE
    /\ stack' = <<Loop>>
    /\ UNCHANGED <<mode, phase, state, watch, skip, owed, asked, fault>>

(* The connections waited for are killed and the next ones are tried.      *)
connect_timeout ==
    /\ Running /\ stack = <<>>
    /\ timeout
    /\ timeout' = FALSE /\ priority' = FALSE
    /\ state' = [p \in Path |-> IF state[p] = "SCHEDULED" THEN "DONE" ELSE state[p]]
    /\ watch' = {}
    /\ stack' = <<Loop>>
    /\ UNCHANGED <<mode, phase, skip, owed, asked, fault>>

connect_priority_timeout(more) ==
    /\ Running /\ stack = <<>>
    /\ priority
    /\ pickup_connected_socket(state, watch, timeout, TRUE, <<>>, more)
    /\ UNCHANGED <<mode, phase>>

(* The application, which has got what it asked for, asks for another one. *)
netresolve_connect_next ==
    /\ Running /\ stack = <<>>
    /\ owed <= 0 /\ asked < Asks
    /\ owed' = 1 /\ asked' = asked + 1
    /\ stack' = <<Loop>>
    /\ UNCHANGED <<mode, phase, state, watch, timeout, priority, skip, fault>>

(* priv->query is set when the name has been resolved.                     *)
netresolve_connect_free ==
    /\ phase # "freed" /\ fault = "none" /\ stack = <<>>
    /\ IF phase = "resolving"
       THEN fault' = "no_query" /\ UNCHANGED <<phase, state, watch, timeout, priority, skip>>
       ELSE /\ phase' = "freed"
            /\ state' = [p \in Path |-> "DONE"]
            /\ watch' = {}
            /\ timeout' = FALSE /\ priority' = FALSE /\ skip' = FALSE
            /\ UNCHANGED fault
    /\ UNCHANGED <<mode, stack, owed, asked>>

Init ==
    /\ mode \in Modes
    /\ phase = "resolving"
    /\ state = [p \in Path |-> "NONE"]
    /\ watch = {}
    /\ timeout = FALSE /\ priority = FALSE /\ skip = FALSE
    /\ stack = <<>>
    /\ owed = 1 /\ asked = 0
    /\ fault = "none"

Step == (\E e \in Outcome, more \in BOOLEAN : enable_sockets(e, more)) \/ enable_sockets_end

PriorityTimer == \E more \in BOOLEAN : connect_priority_timeout(more)

Next ==
    \/ Step
    \/ connect_prepare
    \/ \E p \in Path, e \in {"connected", "failed"}, more \in BOOLEAN : connect_ready(p, e, more)
    \/ connect_timeout
    \/ PriorityTimer
    \/ netresolve_connect_next
    \/ netresolve_connect_free
-----------------------------------------------------------------------------
Quiet == Running /\ stack = <<>>       \* between two handlers

Exhausted == \A p \in Path : state[p] = "DONE"

(* Within a family the paths are attempted strictly in the order of the    *)
(* response, however the loops of enable_sockets nest: an attempt is under *)
(* way only when all earlier ones of its family are over, and in           *)
(* sequential mode all earlier ones ("When in sequential mode, keep only   *)
(* one socket scheduled").                                                 *)
InOrder ==
    \A p, q \in Path :
        state[p] \in {"SCHEDULED", "READY"} /\ q < p /\ (mode.sequential \/ Family[q] = Family[p])
            => state[q] = "DONE"

(* Between two handlers, the priority timer runs only for the sake of a    *)
(* ready socket, skip_scheduled is off, a connection is watched if and     *)
(* only if it is scheduled and the connection timer runs; so the           *)
(* assertions of connect_ready, socket_pause and socket_resume hold        *)
(* whatever comes next, and none of socket.c fails on the way there.       *)
TimersFit ==
    /\ fault # "assert"
    /\ Quiet =>
          /\ priority => timeout /\ \E p \in Path : state[p] = "READY"
          /\ ~skip
          /\ watch = IF timeout THEN {p \in Path : state[p] = "SCHEDULED"} ELSE {}

(* As long as a socket is owed and a path is left, the connection timer    *)
(* runs: a connection is never waited for without a limit.  A request for  *)
(* a local socket is the exception: its paths are never attempted, the     *)
(* timer that was set up for them is cleared again, and nothing is left    *)
(* that could answer it.                                                   *)
WaitingIsTimed == Quiet /\ owed > 0 /\ ~Exhausted => (timeout <=> ~mode.local)

(* README: the connection is made "maintaining address preference", with   *)
(* "a short timeout to bypass the preference".  A socket is not delivered  *)
(* while an earlier path is still being connected, unless the priority     *)
(* timer was running.                                                      *)
PreferenceKept ==
    [][owed' < owed =>
          \A p, q \in Path : q < p /\ state[p] # "DONE" /\ state'[p] = "DONE"
                               /\ state'[q] = "SCHEDULED" => priority]_vars

(* netresolve_connect: "The callback is called once, with the first        *)
(* successfully connected socket.  If you want to retry with another       *)
(* address, use netresolve_connect_next()."  In sequential mode it is.  In *)
(* parallel mode a loop of enable_sockets that has delivered a socket on   *)
(* its way goes on to the next path, and may get the application another;  *)
(* with a mandatory backend the second connect_prepare does.               *)
CallbackOnce == mode.sequential /\ ~mode.mandatory => owed >= 0

Ask == phase = "connecting" /\ owed > 0

Answer == owed <= 0 \/ Exhausted \/ fault # "none"

(* In sequential mode whoever asks for an internet socket gets one in the  *)
(* end, or all paths have been tried, or the application has given up.     *)
(* (Whoever asks for a local one waits forever, and a mandatory backend    *)
(* may make the query forget the connection it waits for.)                 *)
ServedInSequence == (mode.sequential /\ ~mode.local /\ ~mode.mandatory /\ Ask) ~> Answer

(* README: netresolve_connect gets "a single connected socket", with "a    *)
(* short timeout to bypass the preference when it would take too much      *)
(* time"; in either mode.                                                  *)
Served == Ask ~> Answer
=============================================================================
