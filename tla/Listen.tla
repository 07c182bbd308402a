------------------------------- MODULE Listen -------------------------------
(***************************************************************************)
(* netresolve_listen and netresolve_accept (lib/socket.c): a query whose   *)
(* paths become listening sockets, with the numbers of the descriptors, as *)
(* the kernel hands out the lowest free one and what was closed twice may  *)
(* be somebody else's by then.  A query is either made by netresolve_      *)
(* connect, and goes through Connect, or by netresolve_listen.             *)
(*                                                                         *)
(* The application leaves a listening query alone until the name has been  *)
(* resolved, as in blocking mode, where netresolve_listen returns then; no *)
(* mandatory backend repeats the callback.                                 *)
(***************************************************************************)
EXTENDS Connect

CONSTANTS
    Addresses,  \* number of paths the resolution yields for netresolve_listen
    Roles,      \* the functions considered: "connect", "listen"
    Limit       \* RLIMIT_NOFILE: the descriptors are 0..Limit - 1, with 0 taken

ASSUME ListenAssumption == Addresses \in Nat /\ Limit \in Nat \ {0}

Socket == 1..Addresses

Descriptor == 0..(Limit - 1)

Nobody == 0     \* the owner of a free descriptor; paths own theirs by number

App == -1       \* the application: its files, and the connections it accepted

Lost == -2      \* nobody knows the number any more

VARIABLES
    role,       \* the function that made the query
    listening,  \* the name is being resolved, the sockets listen, the query is freed
    bound,      \* path->socket.state: SCHEDULED when bound
    fd,         \* path->socket.fd
    watched,    \* the descriptor of path->socket.watch, or -1
    owner,      \* who has opened each descriptor
    accepting,  \* priv->callback is set
    mislaid,    \* history: a path has kept the number of a descriptor that is not its own
    stolen,     \* history: descriptors of others that the library has closed
    crash       \* what stopped the process

listenVars == <<listening, bound, fd, watched, owner, accepting, mislaid, stolen, crash>>

Listening == role = "listen" /\ listening = "listening" /\ crash = "none"

Free(o) == {n \in Descriptor : o[n] = Nobody}

(* What may become of a path: it is no internet address, there is no       *)
(* socket, an option cannot be set, the address cannot be bound, or all is *)
(* well.                                                                   *)
Fate == {"no_sockaddr", "no_socket", "no_option", "not_bound", "bound"}

(* Mutant: a socket without its option is closed like one without address. *)
Opened_CloseUnset(s, p, fate) ==
    IF fate = "no_sockaddr" THEN s
    ELSE IF fate = "no_socket" \/ Free(s.owner) = {} THEN [s EXCEPT !.fd[p] = -1]
    ELSE LET n == First(Free(s.owner))
         IN  [s EXCEPT !.fd[p] = n, !.owner[n] = IF fate = "bound" THEN p ELSE Nobody,
                       !.bound[p] = IF fate = "bound" THEN "SCHEDULED" ELSE @]

(* One turn of the loop in listen_callback.                                *)
Opened(s, p, fate) ==
    IF fate = "no_sockaddr" THEN s
    ELSE IF fate = "no_socket" \/ Free(s.owner) = {} THEN [s EXCEPT !.fd[p] = -1]
    ELSE LET n == First(Free(s.owner))
         IN  [s EXCEPT !.fd[p] = n, !.owner[n] = IF fate = "not_bound" THEN Nobody ELSE p,
                       !.bound[p] = IF fate = "bound" THEN "SCHEDULED" ELSE @]

(* The loop: what it has done after each of its turns.                     *)
OpenedUpTo(fates) ==
    LET loop[p \in 0..Addresses] ==
            IF p = 0 THEN [fd |-> fd, owner |-> owner, bound |-> bound]
            ELSE Opened(loop[p - 1], p, fates[p])
    IN  loop

(* The callback of the query.  A response without paths has no array.      *)
listen_callback(fates) ==
    /\ role = "listen" /\ listening = "resolving" /\ crash = "none"
    /\ LET after == OpenedUpTo(fates)[Addresses]
       IN  /\ fd' = after.fd /\ owner' = after.owner /\ bound' = after.bound
    /\ mislaid' = \E p \in Socket : fates[p] \in {"no_sockaddr", "not_bound"}
    /\ IF Addresses = 0 THEN crash' = "no_paths" /\ UNCHANGED listening
       ELSE listening' = "listening" /\ UNCHANGED crash
    /\ UNCHANGED <<role, watched, accepting, stolen>>

(* Mutant: only the first socket is watched.                               *)
netresolve_accept_FirstOnly ==
    /\ Listening
    /\ accepting' = TRUE
    /\ LET up == {p \in Socket : bound[p] = "SCHEDULED"}
       IN  watched' = [p \in Socket |-> IF p \in up /\ p = First(up) THEN fd[p] ELSE watched[p]]
    /\ UNCHANGED <<role, listening, bound, fd, owner, mislaid, stolen, crash>>

netresolve_accept ==
    /\ Listening
    /\ accepting' = TRUE
    /\ watched' = [p \in Socket |-> IF bound[p] = "SCHEDULED" /\ watched[p] = -1 THEN fd[p] ELSE watched[p]]
    /\ UNCHANGED <<role, listening, bound, fd, owner, mislaid, stolen, crash>>

(* Mutant: the watch stays.                                                *)
socket_cleanup_KeepsWatch(s, p) ==
    IF s.crash # "none" THEN s
    ELSE [s EXCEPT !.bound[p] = "DONE", !.fd[p] = -1,
                   !.owner = IF s.fd[p] = -1 THEN @ ELSE [@ EXCEPT ![s.fd[p]] = Nobody]]

(* The watch is removed, for which its descriptor has to be open still,    *)
(* and whatever has the number that is kept in the path is closed.         *)
socket_cleanup(s, p) ==
    IF s.crash # "none" THEN s
    ELSE IF s.watched[p] # -1 /\ s.owner[s.watched[p]] # p THEN [s EXCEPT !.crash = "epoll_ctl"]
    ELSE [s EXCEPT !.bound[p] = "DONE", !.watched[p] = -1, !.fd[p] = -1,
                   !.owner = IF s.fd[p] = -1 THEN @ ELSE [@ EXCEPT ![s.fd[p]] = Nobody],
                   !.stolen = IF s.fd[p] = -1 \/ s.owner[s.fd[p]] \in {p, Nobody} THEN @
                              ELSE @ \cup {s.owner[s.fd[p]]}]

(* The sockets are closed one after the other, with the descriptors as in  *)
(* own at first.                                                           *)
ClosedUpTo(own) ==
    LET loop[p \in 0..Addresses] ==
            IF p = 0 THEN [bound |-> bound, fd |-> fd, watched |-> watched,
                           owner |-> own, stolen |-> stolen, crash |-> crash]
            ELSE socket_cleanup(loop[p - 1], p)
    IN  loop

(* The sockets of all paths are closed and the query is freed, from        *)
(* outside or from within the callback.  After the callback the dispatcher *)
(* reads the state of the query, and goes astray when what is left in the  *)
(* freed memory happens to be one it acts on.                              *)
Release(own, astray) ==
    LET s == ClosedUpTo(own)[Addresses]
    IN  /\ bound' = s.bound /\ fd' = s.fd /\ watched' = s.watched
        /\ owner' = s.owner /\ stolen' = s.stolen
        /\ crash' = IF s.crash = "none" /\ astray THEN "freed_query" ELSE s.crash
        /\ listening' = IF s.crash = "none" THEN "freed" ELSE listening

netresolve_listen_free ==
    /\ Listening
    /\ Release(owner, FALSE)
    /\ UNCHANGED <<role, accepting, mislaid>>

(* A connection comes in.  The descriptor goes to the application, which   *)
(* may free the query in its callback; it is lost when its flags cannot be *)
(* set, and without a free number there is none.                           *)
accept_callback(p, fcntl, frees, astray) ==
    /\ Listening
    /\ watched[p] # -1 /\ owner[watched[p]] = p
    /\ astray => frees
    /\ IF watched[p] # fd[p] \/ bound[p] # "SCHEDULED"
       THEN crash' = "assert" /\ ~frees /\ UNCHANGED <<listening, bound, fd, watched, owner, stolen>>
       ELSE IF Free(owner) = {} \/ ~fcntl
       THEN /\ ~frees
            /\ owner' = IF Free(owner) = {} THEN owner ELSE [owner EXCEPT ![First(Free(owner))] = Lost]
            /\ UNCHANGED <<listening, bound, fd, watched, stolen, crash>>
       ELSE LET own == [owner EXCEPT ![First(Free(owner))] = App]
            IN  IF frees THEN Release(own, astray)
                ELSE owner' = own /\ UNCHANGED <<listening, bound, fd, watched, stolen, crash>>
    /\ UNCHANGED <<role, accepting, mislaid>>

(* The application opens and closes descriptors of its own.                *)
Elsewhere ==
    /\ role = "listen" /\ listening # "freed" /\ crash = "none"
    /\ \/ Free(owner) # {} /\ owner' = [owner EXCEPT ![First(Free(owner))] = App]
       \/ \E n \in Descriptor : owner[n] = App /\ n # 0 /\ owner' = [owner EXCEPT ![n] = Nobody]
    /\ UNCHANGED <<role, listening, bound, fd, watched, accepting, mislaid, stolen, crash>>

(* path->socket is zero, its descriptor too.  0 is the standard input.     *)
ListenInit ==
    /\ role \in Roles
    /\ listening = IF role = "listen" THEN "resolving" ELSE "freed"
    /\ bound = [p \in Socket |-> "NONE"]
    /\ fd = [p \in Socket |-> 0]
    /\ watched = [p \in Socket |-> -1]
    /\ owner = [n \in Descriptor |-> IF n = 0 THEN App ELSE Nobody]
    /\ accepting = FALSE /\ mislaid = FALSE /\ stolen = {} /\ crash = "none"

ListenNext ==
    \/ \E fates \in [Socket -> Fate] : listen_callback(fates)
    \/ netresolve_accept
    \/ \E p \in Socket, fcntl, frees, astray \in BOOLEAN : accept_callback(p, fcntl, frees, astray)
    \/ netresolve_listen_free
    \/ Elsewhere

socketVars == <<vars, role, listenVars>>

(* The query of netresolve_connect, or that of netresolve_listen.          *)
SocketNext ==
    \/ role = "connect" /\ Next /\ UNCHANGED <<role, listenVars>>
    \/ ListenNext /\ UNCHANGED vars

(* The variables of the other function are at rest.                        *)
SocketInit ==
    /\ Init /\ ListenInit
    /\ role = "listen" => mode = CHOOSE m \in Modes : TRUE

(* A handler of Connect runs to its end, and an armed timer expires; no    *)
(* answer of the network, and no call of the application, is assumed.      *)
SocketSpec ==
    /\ SocketInit
    /\ [][SocketNext]_socketVars
    /\ WF_socketVars(role = "connect" /\ Step /\ UNCHANGED <<role, listenVars>>)
    /\ WF_socketVars(role = "connect" /\ connect_timeout /\ UNCHANGED <<role, listenVars>>)
    /\ WF_socketVars(role = "connect" /\ PriorityTimer /\ UNCHANGED <<role, listenVars>>)
-----------------------------------------------------------------------------
(* netresolve_listen is to "bind to all discovered addresses", and         *)
(* netresolve_accept to "start accepting connections" on them: a socket    *)
(* that is bound stays open under the number its path has, whatever else   *)
(* is opened, closed or accepted, and from the call of netresolve_accept   *)
(* on it is watched, which is what the assertions of accept_callback ask.  *)
AcceptsEverywhere ==
    Listening => \A p \in Socket :
        /\ bound[p] = "SCHEDULED" => owner[fd[p]] = p
        /\ watched[p] = IF accepting /\ bound[p] = "SCHEDULED" THEN fd[p] ELSE -1

(* netresolve_listen_free "releases any related resources", when called    *)
(* from the application's callback too: no socket that the library opened  *)
(* for a path stays open, with or without an address, and no watch.        *)
ListenReleased ==
    listening = "freed" =>
        /\ \A n \in Descriptor : owner[n] \notin Socket
        /\ \A p \in Socket : watched[p] = -1

(* Of the descriptors that are open the library closes only its own: an    *)
(* accepted connection and any other file of the application stay open,    *)
(* and the loop is never asked to forget a descriptor that is closed.      *)
(* Excepted are queries with a path that could not be bound, or is no      *)
(* internet address, as such a path keeps a number that is not its own.    *)
OthersKept == ~mislaid => stolen = {} /\ crash # "epoll_ctl"
=============================================================================
