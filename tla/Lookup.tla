------------------------------- MODULE Lookup -------------------------------
(***************************************************************************)
(* The calls of the C library as netresolve provides them (lib/compat.c,   *)
(* compat/libc.c, compat/nsswitch.c), on top of a chain of backends that   *)
(* fill a Response.  A call makes a query in blocking mode; the query runs *)
(* through the backends; the call turns the response into what its caller  *)
(* expects and frees the query.                                            *)
(*                                                                         *)
(* Of the states of a query (module Query) those that matter here are      *)
(* left: being set up, running the calls of a backend, done and failed.    *)
(* After the return (idle) the response stays on record as history.        *)
(***************************************************************************)
EXTENDS Backends

CONSTANTS
    Configs,     \* backend strings: [chain, mandatory, sort], the backends in order, the positions of
                 \* those that are written with a plus sign, and NETRESOLVE_SORT_RESULTS
    Remote,      \* for each type of request, what a backend that asks servers may do
    Node,        \* the node names that are looked up
    Hints,       \* the hints passed to getaddrinfo: [family, socktype, passive, canonname]
    Peer,        \* the addresses that are looked up: [family, host, length]
    MaxQueries   \* bound: calls in a row

Backend == {"unix", "any", "loopback", "numerichost", "hosts", "hostname", "libc", "nss", "remote"}

(* A backend string names backends, and without mandatory ones those that  *)
(* ask servers come last, behind loopback, numerichost and hosts, as in    *)
(* the default string.                                                     *)
ASSUME ConfigsAssumption ==
    \A c \in Configs :
        /\ c.chain \in Seq(Backend) /\ c.chain # <<>>
        /\ c.mandatory = {} =>
              \A i \in DOMAIN c.chain : c.chain[i] = "remote" =>
                  /\ \A j \in DOMAIN c.chain : i < j => c.chain[j] = "remote"
                  /\ \A b \in {"loopback", "numerichost", "hosts"} :
                        \E j \in DOMAIN c.chain : j < i /\ c.chain[j] = b

Null == [name |-> NoName, family |-> "none", addresses |-> <<>>]

VARIABLES
    config,    \* the backend string of the context
    api,       \* the call in progress, or the last one
    state,     \* of its query
    position,  \* of the query in the chain
    todo,      \* the calls that the backend has yet to make
    secure,    \* query->response.security
    static,    \* the results that gethostbyname2 and gethostbyaddr keep
    returned,  \* what the last call returned
    fault,     \* what stopped the process
    asked,     \* history: the positions that were set up
    count      \* history: number of calls

response == <<request, paths, nodename, servname, queue, calls, arrived, order>>

query == <<state, position, todo, secure>>

lookupVars == <<response, query, asked, config, api, static, returned, fault, count>>
-----------------------------------------------------------------------------
(* The queries that the calls make.                                        *)
Forward(name, service, family, socktype, loopback) ==
    [type |-> "FORWARD", nodename |-> name, servname |-> service, family |-> family,
     socktype |-> socktype, protocol |-> Unset, port |-> 0, default_loopback |-> loopback, host |-> "none",
     sort |-> config.sort]

netresolve_query_getaddrinfo(name, hints) == Forward(name, "", hints.family, hints.socktype, ~hints.passive)

netresolve_query_gethostbyname(name, family) == Forward(name, NoName, family, Unset, FALSE)

netresolve_query_reverse(peer, protocol, port) ==
    [type |-> "REVERSE", nodename |-> NoName, servname |-> NoName, family |-> peer.family,
     socktype |-> Unset, protocol |-> protocol, port |-> port, default_loopback |-> FALSE, host |-> peer.host,
     sort |-> config.sort]

(* netresolve_query: the query starts at the head of the chain.            *)
Start(name) ==
    /\ state = "idle" /\ fault = "none" /\ count < MaxQueries
    /\ api' = name /\ count' = count + 1
    /\ state' = "setup" /\ position' = 1 /\ todo' = <<>> /\ secure' = FALSE
    /\ paths' = <<>> /\ nodename' = NoName /\ servname' = NoName
    /\ queue' = <<>> /\ calls' = <<>> /\ arrived' = <<>> /\ order' = <<>>
    /\ asked' = {}
    /\ returned' = Null
    /\ UNCHANGED <<config, static, fault>>

(* A call whose query could not be made returns what it has.               *)
Refused(name, result) ==
    /\ state = "idle" /\ fault = "none" /\ count < MaxQueries
    /\ api' = "refused" /\ count' = count + 1 /\ returned' = result
    /\ UNCHANGED <<response, query, asked, config, static, fault>>

getaddrinfo(name, hints) ==
    /\ Start(IF hints.canonname THEN "getaddrinfo_canonname" ELSE "getaddrinfo")
    /\ request' = netresolve_query_getaddrinfo(name, hints)

gethostbyname2(name, family) ==
    /\ Start("gethostbyname2")
    /\ request' = netresolve_query_gethostbyname(name, family)

gethostbyname2_r(name, family) ==
    /\ Start("gethostbyname2_r")
    /\ request' = netresolve_query_gethostbyname(name, family)

(* The module for nsswitch asks for raw sockets, so that an address comes  *)
(* once, and for the canonical name.                                       *)
nss_netresolve(name, family) ==
    /\ Start("nss_netresolve")
    /\ request' = netresolve_query_getaddrinfo(name,
          [family |-> family, socktype |-> "RAW", passive |-> FALSE, canonname |-> TRUE])

(* The case of an IPv6 address runs on into that of an unknown family.     *)
gethostbyaddr(peer) ==
    IF peer.family = "INET" /\ peer.length = 4
    THEN Start("gethostbyaddr") /\ request' = netresolve_query_reverse(peer, Unset, 0)
    ELSE Refused("gethostbyaddr", static.gethostbyaddr)

getnameinfo(peer, dgram) ==
    IF peer.length = (IF peer.family = "INET" THEN 4 ELSE 16)
    THEN /\ Start("getnameinfo")
         /\ request' = netresolve_query_reverse(peer, IF dgram THEN "UDP" ELSE "TCP", 53)
    ELSE Refused("getnameinfo", Null)
-----------------------------------------------------------------------------
(* The backend at the query's position is set up.                          *)
set_state_SETUP ==
    /\ state = "setup"
    /\ state' = "running" /\ asked' = asked \cup {position}
    /\ \E script \in IF config.chain[position] = "remote" THEN Remote[request.type] ELSE setup(config.chain[position], request) :
          todo' = script
    /\ UNCHANGED <<response, position, secure, config, api, static, returned, fault, count>>

Running(op) == state = "running" /\ todo # <<>> /\ queue = <<>> /\ Head(todo).op = op

(* The calls of a backend that change the response, and the paths that     *)
(* these add.                                                              *)
Fill ==
    /\ \/ Running("add_path") /\ netresolve_backend_add_path(Head(todo).address, Head(todo).service)
       \/ Running("set_canonical_name") /\ netresolve_backend_set_canonical_name(Head(todo).name)
       \/ Running("add_name_info") /\ netresolve_backend_add_name_info(Head(todo).name)
       \/ /\ Running("add_name_info") /\ nodename # NoName
          /\ UNCHANGED response
    /\ todo' = Tail(todo)
    /\ UNCHANGED <<state, position, secure, asked, config, api, static, returned, fault, count>>

FillNext ==
    /\ state = "running" /\ add_path
    /\ UNCHANGED <<query, asked, config, api, static, returned, fault, count>>

netresolve_backend_set_secure ==
    /\ Running("set_secure")
    /\ secure' = TRUE /\ todo' = Tail(todo)
    /\ UNCHANGED <<response, state, position, asked, config, api, static, returned, fault, count>>

(* A success ends the query unless a mandatory backend follows.            *)
netresolve_backend_finished ==
    /\ Running("finished")
    /\ LET later == {i \in config.mandatory : i > position}
       IN  IF later = {} THEN state' = "done" /\ UNCHANGED position
           ELSE state' = "setup" /\ position' = CHOOSE i \in later : \A j \in later : i <= j
    /\ todo' = <<>>
    /\ UNCHANGED <<response, secure, asked, config, api, static, returned, fault, count>>

(* A failure leads on to the next backend.                                 *)
netresolve_backend_failed ==
    /\ Running("failed")
    /\ IF position < Len(config.chain) THEN state' = "setup" /\ position' = position + 1
       ELSE state' = "failed" /\ UNCHANGED position
    /\ todo' = <<>>
    /\ UNCHANGED <<response, secure, asked, config, api, static, returned, fault, count>>
-----------------------------------------------------------------------------
netresolve_query_get_node_name ==
    CASE nodename # NoName -> nodename
      [] nodename = NoName /\ (state # "done" \/ request.type # "FORWARD") -> NoName
      [] OTHER -> IF request.nodename # NoName THEN request.nodename ELSE "localhost"

(* Mutant: the addresses of both families are put into one struct hostent. *)
get_hostent_AnyFamily(list) ==
    LET inet == SelectSeq(list, LAMBDA p : p.family \in {"INET", "INET6"})
    IN  [name |-> netresolve_query_get_node_name,
         family |-> IF inet = <<>> THEN "none" ELSE inet[1].family,
         addresses |-> [i \in DOMAIN inet |-> inet[i].host]]

(* A struct hostent has addresses of one family, that of the first path.   *)
get_hostent(list) ==
    LET inet == SelectSeq(list, LAMBDA p : p.family \in {"INET", "INET6"})
        family == IF inet = <<>> THEN "none" ELSE inet[1].family
        chosen == SelectSeq(inet, LAMBDA p : p.family = family)
    IN  [name |-> netresolve_query_get_node_name, family |-> family,
         addresses |-> [i \in DOMAIN chosen |-> chosen[i].host]]

netresolve_query_gethostbyname_done == IF paths = <<>> THEN Null ELSE get_hostent(paths)

(* The address that was asked for is added to the response of the reverse  *)
(* query first.                                                            *)
netresolve_query_gethostbyaddr_done ==
    LET added == Services([family |-> request.family, reachable |-> TRUE, host |-> request.host], Unset, Unset, 0)
    IN  get_hostent(Insert(paths, Place(added[1]), added[1]))

(* The canonical name is that of the first address.                        *)
netresolve_query_getaddrinfo_done ==
    LET name == IF api = "getaddrinfo" THEN "" ELSE netresolve_query_get_node_name
    IN  [name |-> IF paths = <<>> \/ name = "" THEN NoName ELSE name,
         family |-> "any",
         addresses |-> [i \in DOMAIN paths |-> [family |-> paths[i].family, host |-> paths[i].host]]]

(* The call returns: the static result is replaced, or the caller's memory *)
(* is filled in.  gethostbyname2_r does not expect that there is no        *)
(* result, getaddrinfo_done not that a path is that of a local socket.     *)
Return ==
    /\ state \in {"done", "failed"}
    /\ CASE api = "gethostbyname2" ->
              /\ returned' = netresolve_query_gethostbyname_done
              /\ static' = [static EXCEPT !.gethostbyname2 = returned']
              /\ UNCHANGED fault
         [] api = "gethostbyaddr" ->
              /\ returned' = netresolve_query_gethostbyaddr_done
              /\ static' = [static EXCEPT !.gethostbyaddr = returned']
              /\ UNCHANGED fault
         [] api = "gethostbyname2_r" ->
              /\ returned' = netresolve_query_gethostbyname_done
              /\ fault' = IF paths = <<>> THEN "null_hostent" ELSE fault
              /\ UNCHANGED static
         [] api = "getnameinfo" ->
              /\ returned' = [Null EXCEPT !.name = netresolve_query_get_node_name]
              /\ UNCHANGED <<static, fault>>
         [] OTHER ->
              /\ returned' = netresolve_query_getaddrinfo_done
              /\ fault' = IF \E i \in DOMAIN paths : paths[i].family = "UNIX" THEN "null_sockaddr" ELSE fault
              /\ UNCHANGED static
    /\ state' = "idle"
    /\ UNCHANGED <<response, position, todo, secure, asked, config, api, count>>
-----------------------------------------------------------------------------
LookupInit ==
    /\ config \in Configs
    /\ request = netresolve_query_gethostbyname(NoName, "UNSPEC")
    /\ paths = <<>> /\ nodename = NoName /\ servname = NoName
    /\ queue = <<>> /\ calls = <<>> /\ arrived = <<>> /\ order = <<>>
    /\ api = "none" /\ state = "idle" /\ position = 1 /\ todo = <<>> /\ secure = FALSE
    /\ static = [gethostbyname2 |-> Null, gethostbyaddr |-> Null]
    /\ returned = Null /\ fault = "none" /\ count = 0
    /\ asked = {}

LookupNext ==
    \/ \E name \in Node, hints \in Hints : getaddrinfo(name, hints)
    \/ \E name \in Node \ {NoName}, family \in {"UNSPEC", "INET", "INET6"} :
          \/ gethostbyname2(name, family)
          \/ gethostbyname2_r(name, family)
          \/ nss_netresolve(name, family)
    \/ \E peer \in Peer : gethostbyaddr(peer)
    \/ \E peer \in Peer, dgram \in BOOLEAN : getnameinfo(peer, dgram)
    \/ set_state_SETUP
    \/ Fill
    \/ FillNext
    \/ netresolve_backend_set_secure
    \/ netresolve_backend_finished
    \/ netresolve_backend_failed
    \/ Return

LookupSpec == LookupInit /\ [][LookupNext]_lookupVars
-----------------------------------------------------------------------------
(* The names that need no server: none at all, those of the loopback,      *)
(* numeric addresses, and the ones in the hosts file, as far as it is read *)
(* as a whole.                                                             *)
Local ==
    {NoName, "", "localhost", "localhost4", "localhost6"}
    \cup {n \in DOMAIN Literal : Literal[n].ifindex >= 0}
    \cup {HostsFile[i].names[1] : i \in {i \in DOMAIN HostsFile : /\ HostsFile[i].literal \in DOMAIN Literal
                                                                /\ HostsFile[i].seam # 0 /\ HostsFile[i].names # <<>>
                                                                /\ \A j \in 1..i : HostsFile[j].fits}}

(* A name that this host can tell by itself is not asked of any server,    *)
(* for whichever call, family and flags, unless a backend is mandatory:    *)
(* the backends in front claim it even when they have no address of the    *)
(* family that was asked for.                                              *)
LocalStaysLocal ==
    config.mandatory = {} /\ request.type = "FORWARD" /\ request.nodename \in Local
        => \A i \in asked : config.chain[i] # "remote"
=============================================================================
