------------------------------ MODULE Response ------------------------------
(***************************************************************************)
(* The response of one query, as the backends fill it: lib/backend.c, with *)
(* the service database of lib/service.c.  A backend adds an address; the  *)
(* library works out with which socket types, protocols and ports it can   *)
(* be reached, and puts each of the resulting paths in its place.          *)
(*                                                                         *)
(* A call of netresolve_backend_add_path computes the list of services and *)
(* then adds its paths one by one: queue holds those still to be added.    *)
(* Zero, for a socket type or a protocol, is "unset".                      *)
(***************************************************************************)
EXTENDS Integers, Sequences

CONSTANTS
    Request,    \* the requests: [family, socktype, protocol, servname, port, sort]; sort is
                \* the environment variable NETRESOLVE_SORT_RESULTS, on by default
    Address,    \* the addresses a backend may add: [family, reachable, host]
    Service,    \* and the services it may add them with: [socktype, protocol, port]
    Addrinfos,  \* the results of getaddrinfo: sequences of [address, service]
    Addrtuples, \* the results of an NSS module: sequences of addresses
    Leading,    \* for each service name, the number it starts with (strtol)
    Numeric,    \* the service names that are numbers
    File,       \* the lines of the services file: [name, port, protocol, aliases, fits]
    NoName,     \* a name that is NULL
    MaxCalls    \* bound: calls that add addresses

Unset == "unset"

(* What a loop adds to a list, turn by turn.                               *)
Concat(ss) ==
    LET upto[i \in 0..Len(ss)] == IF i = 0 THEN <<>> ELSE upto[i - 1] \o ss[i]
    IN  upto[Len(ss)]

(* A list with e put in at place i.                                        *)
Insert(s, i, e) == SubSeq(s, 1, i - 1) \o <<e>> \o SubSeq(s, i, Len(s))

(* The table of socket types and protocols.                                *)
protocols == <<
    [socktype |-> "STREAM", protocol |-> "TCP", defaultpair |-> TRUE],
    [socktype |-> "DGRAM", protocol |-> "UDP", defaultpair |-> TRUE],
    [socktype |-> "DCCP", protocol |-> "DCCP", defaultpair |-> FALSE],
    [socktype |-> "DGRAM", protocol |-> "UDPLITE", defaultpair |-> FALSE],
    [socktype |-> "STREAM", protocol |-> "SCTP", defaultpair |-> FALSE],
    [socktype |-> "SEQPACKET", protocol |-> "SCTP", defaultpair |-> FALSE],
    [socktype |-> "RAW", protocol |-> Unset, defaultpair |-> TRUE] >>

Protocols == {protocols[i].protocol : i \in DOMAIN protocols} \ {Unset}

SocketTypes == {protocols[i].socktype : i \in DOMAIN protocols}

Addresses == [family : {"INET", "INET6", "UNIX"}, reachable : BOOLEAN, host : {a.host : a \in Address}]

ServiceRecord == [socktype : SocketTypes \cup {Unset}, protocol : Protocols \cup {Unset}, port : Int]

Items == [address : Address, service : ServiceRecord]

(* A request names no service, or one that strtol may be tried on.         *)
ASSUME ResponseAssumption ==
    /\ \A r \in Request : /\ r.socktype \in SocketTypes \cup {Unset}
                          /\ r.protocol \in Protocols \cup {Unset}
                          /\ r.servname \in DOMAIN Leading \cup {NoName}
    /\ Address \subseteq Addresses /\ Service \subseteq ServiceRecord
    /\ Addrinfos \subseteq Seq(Items) /\ Addrtuples \subseteq Seq(Address)
    /\ Leading \in [DOMAIN Leading -> Int]
    /\ File \in Seq([name : STRING, port : Int, protocol : STRING, aliases : Seq(STRING), fits : BOOLEAN])
    /\ MaxCalls \in Nat

VARIABLES
    request,   \* query->request
    paths,     \* query->response.paths
    nodename,  \* query->response.nodename
    servname,  \* query->response.servname
    queue,     \* the paths that the call in progress has yet to add
    calls,     \* history: the calls so far, each the items it adds: [address, service]
    arrived,   \* history: the paths in the order in which they were added
    order      \* history: for each of paths, when it arrived

vars == <<request, paths, nodename, servname, queue, calls, arrived, order>>
-----------------------------------------------------------------------------
(* An entry for the name and one for each alias, provided the line has a   *)
(* port and a protocol that is known.                                      *)
read_service(line) ==
    IF line.port = 0 \/ line.protocol \notin Protocols THEN <<>>
    ELSE [i \in 1..(1 + Len(line.aliases)) |->
            [name |-> IF i = 1 THEN line.name ELSE line.aliases[i - 1],
             protocol |-> line.protocol, port |-> line.port]]

(* The file is read up to the first line that does not fit the buffer.     *)
read_services ==
    LET ends == {i \in DOMAIN File : ~File[i].fits} \cup {Len(File) + 1}
        end == CHOOSE i \in ends : \A j \in ends : i <= j
    IN  Concat([i \in 1..(end - 1) |-> read_service(File[i])])

(* The rows of the table that agree with a socket type and a protocol;     *)
(* only default pairs unless both are given.                               *)
Agrees(row, socktype, proto) ==
    /\ socktype \in {Unset, row.socktype}
    /\ proto \in {Unset, row.protocol}
    /\ (socktype = Unset \/ proto = Unset) => row.defaultpair

found_port(name, socktype, proto, port) ==
    Concat([i \in DOMAIN protocols |->
        IF Agrees(protocols[i], socktype, proto)
        THEN <<[name |-> name, socktype |-> protocols[i].socktype,
                protocol |-> protocols[i].protocol, port |-> port]>>
        ELSE <<>>])

(* Mutant: the search goes on after a number has been found.               *)
netresolve_service_list_query_GoesOn(name, socktype, protocol, port0) ==
    LET port == IF name # NoName /\ port0 = 0 THEN Leading[name] ELSE port0
        number == found_port(name, socktype, protocol, port)
    IN  (IF name \in Numeric THEN number ELSE <<>>) \o number

(* Mutant: an entry is taken whatever its protocol.                        *)
Matches_AnyProtocol(s, name, protocol, port) ==
    name \in {NoName, s.name} /\ ((port # 0 \/ name = NoName) => port = s.port)

(* Whether an entry of the database is one that is searched for.           *)
Matches(s, name, protocol, port) ==
    /\ name \in {NoName, s.name}
    /\ protocol \in {Unset, s.protocol}
    /\ (port # 0 \/ name = NoName) => port = s.port

(* A number stands for itself.  Otherwise the database is searched, by     *)
(* name, by protocol and by port, and what it does not know goes through   *)
(* as a number again.                                                      *)
netresolve_service_list_query(name, socktype, protocol, port0) ==
    LET port == IF name # NoName /\ port0 = 0 THEN Leading[name] ELSE port0
        hits == {i \in DOMAIN read_services : Matches(read_services[i], name, protocol, port)}
        found(i) == LET s == read_services[i] IN found_port(s.name, socktype, s.protocol, s.port)
    IN  IF name # NoName /\ port0 = 0 /\ name \in Numeric
        THEN found_port(name, socktype, protocol, port)
        ELSE IF hits # {}
        THEN Concat([i \in DOMAIN read_services |-> IF i \in hits THEN found(i) ELSE <<>>])
        ELSE found_port(IF port = 0 THEN NoName ELSE "number", socktype, protocol, port)

(* Negative when p1 is to stand before p2: a reachable address before one  *)
(* that is not, then IPv6 before IPv4.  Sorting may be turned off.         *)
path_cmp(p1, p2) ==
    IF ~request.sort THEN 0
    ELSE IF p1.reachable /\ ~p2.reachable THEN -1
    ELSE IF ~p1.reachable /\ p2.reachable THEN 1
    ELSE IF p1.family = "INET6" /\ p2.family = "INET" THEN -1
    ELSE IF p1.family = "INET" /\ p2.family = "INET6" THEN 1
    ELSE 0

(* Mutant: a path is put before those it is equal to.                      *)
Place_BeforeEquals(p) ==
    CHOOSE i \in 1..(Len(paths) + 1) :
        /\ i <= Len(paths) => path_cmp(p, paths[i]) <= 0
        /\ \A j \in 1..(i - 1) : path_cmp(p, paths[j]) > 0

(* The place of a new path: before the first one it is preferred to.       *)
Place(p) ==
    CHOOSE i \in 1..(Len(paths) + 1) :
        /\ i <= Len(paths) => path_cmp(p, paths[i]) < 0
        /\ \A j \in 1..(i - 1) : path_cmp(p, paths[j]) >= 0

Path(address, socktype, protocol, port) ==
    [family |-> address.family, reachable |-> address.reachable, host |-> address.host,
     socktype |-> socktype, protocol |-> protocol, port |-> port]

(* The paths of one address with one service, as netresolve_backend_add_   *)
(* path finds them.  What the backend leaves open the request may say; with *)
(* a service name, and anything left open, the service list has the last   *)
(* word, on the port too.                                                  *)
Services(address, socktype0, protocol0, port) ==
    LET socktype == IF socktype0 = Unset THEN request.socktype ELSE socktype0
        protocol == IF protocol0 = Unset THEN request.protocol ELSE protocol0
        found == netresolve_service_list_query(request.servname, socktype, protocol, 0)
    IN  IF request.servname # NoName /\ (socktype0 = Unset \/ protocol0 = Unset \/ port = 0)
        THEN [i \in DOMAIN found |-> Path(address, found[i].socktype, found[i].protocol, found[i].port)]
        ELSE <<Path(address, socktype, protocol, port)>>

(* Mutant: a local socket is added like any other address.                 *)
Expansion_NoUnix(address, s) == Services(address, s.socktype, s.protocol, s.port)

(* A local socket of no particular type is added once as a stream and once *)
(* as a datagram socket.                                                   *)
Expansion(address, s) ==
    IF address.family = "UNIX" /\ s.socktype = Unset
    THEN Services(address, "STREAM", Unset, 0) \o Services(address, "DGRAM", Unset, 0)
    ELSE Services(address, s.socktype, s.protocol, s.port)
-----------------------------------------------------------------------------
Item(address, s) == [address |-> address, service |-> s]

(* Addresses of another family than the one asked for are passed over.     *)
Wanted(t) == request.family \in {"UNSPEC", t.address.family}

(* The addresses of a call are expanded one after the other.               *)
Add(items) ==
    /\ queue = <<>> /\ Len(calls) < MaxCalls
    /\ queue' = Concat([i \in DOMAIN items |->
                    IF Wanted(items[i]) THEN Expansion(items[i].address, items[i].service) ELSE <<>>])
    /\ calls' = Append(calls, items)
    /\ UNCHANGED <<request, paths, nodename, servname, arrived, order>>

(* A backend adds an address.                                              *)
netresolve_backend_add_path(address, s) == Add(<<Item(address, s)>>)

(* A backend passes on what getaddrinfo, or an NSS module, has found.  The *)
(* latter knows of no services.  Without a result there is nothing to add, *)
(* and the report that follows is an event of the query.                   *)
netresolve_backend_apply_addrinfo(result) == Add(result)

netresolve_backend_apply_addrtuple(result) ==
    Add([i \in DOMAIN result |-> Item(result[i], [socktype |-> Unset, protocol |-> Unset, port |-> 0])])

(* The next path of the call in progress goes to its place.                *)
add_path ==
    /\ queue # <<>>
    /\ paths' = Insert(paths, Place(Head(queue)), Head(queue))
    /\ arrived' = Append(arrived, Head(queue))
    /\ order' = Insert(order, Place(Head(queue)), Len(arrived) + 1)
    /\ queue' = Tail(queue)
    /\ UNCHANGED <<request, nodename, servname, calls>>

netresolve_backend_set_canonical_name(name) ==
    /\ queue = <<>>
    /\ nodename' = name
    /\ UNCHANGED <<request, paths, servname, queue, calls, arrived, order>>

(* The first name counts, and with it the first name of the service.       *)
netresolve_backend_add_name_info(name) ==
    /\ queue = <<>>
    /\ nodename = NoName
    /\ nodename' = name
    /\ LET found == netresolve_service_list_query(NoName, Unset, request.protocol, request.port)
       IN  servname' = IF servname # NoName \/ found = <<>> THEN servname ELSE Head(found).name
    /\ UNCHANGED <<request, paths, queue, calls, arrived, order>>

Init ==
    /\ request \in Request
    /\ paths = <<>> /\ queue = <<>> /\ calls = <<>> /\ arrived = <<>> /\ order = <<>>
    /\ nodename = NoName /\ servname = NoName

Next ==
    \/ \E a \in Address, s \in Service : netresolve_backend_add_path(a, s)
    \/ \E result \in Addrinfos : netresolve_backend_apply_addrinfo(result)
    \/ \E result \in Addrtuples : netresolve_backend_apply_addrtuple(result)
    \/ add_path
    \/ \E n \in {"node", "alias"} :
          netresolve_backend_set_canonical_name(n) \/ netresolve_backend_add_name_info(n)

Spec == Init /\ [][Next]_vars
-----------------------------------------------------------------------------
PathRecord ==
    [family : {"INET", "INET6", "UNIX"}, reachable : BOOLEAN, host : {a.host : a \in Address},
     socktype : SocketTypes \cup {Unset}, protocol : Protocols \cup {Unset}, port : Int]

Paths == {p \in PathRecord : p.family = "UNIX" => p.socktype # Unset}

(* Every variable has its shape, and a local path has a socket type.       *)
TypeOK ==
    /\ request \in Request
    /\ paths \in Seq(Paths) /\ queue \in Seq(Paths) /\ arrived \in Seq(Paths)
    /\ calls \in Seq(Seq(Items)) /\ order \in Seq(Nat)

(* No path stands behind one that path_cmp prefers it to.                  *)
Ordered == \A i, j \in DOMAIN paths : i < j => path_cmp(paths[j], paths[i]) >= 0

(* The list is a stable sort of the paths that arrived, each of them once, *)
(* though path_cmp is no total order (a local path is neither before nor   *)
(* behind the others of its kind) and add_path stops at the first path it  *)
(* may go before: no path stands behind one it is preferred to, and paths  *)
(* of one family and reachability stand in the order of their arrival, as  *)
(* all do when sorting is off.  As the paths of one address arrive in the  *)
(* order of protocols, the first path of the list is the first choice of   *)
(* the backend.                                                            *)
StablySorted ==
    /\ Len(paths) = Len(arrived) /\ Len(order) = Len(arrived)
    /\ \A i \in DOMAIN paths : order[i] \in DOMAIN arrived /\ paths[i] = arrived[order[i]]
    /\ \A i, j \in DOMAIN paths : order[i] = order[j] => i = j
    /\ Ordered
    /\ \A i, j \in DOMAIN paths :
          i < j => \/ order[i] < order[j]
                   \/ /\ request.sort
                      /\ paths[i].family # paths[j].family \/ paths[i].reachable # paths[j].reachable

(* A call adds no path twice, neither through a number, nor through the    *)
(* service list, nor through what is done when that has no entry, as long  *)
(* as the services file lists no entry and a backend no address twice.     *)
NoPathTwice == \A i, j \in DOMAIN queue : i # j => queue[i] # queue[j]

(* The entries of the services file for a name: if it starts with a number *)
(* that has to be the port as well.                                        *)
Known(name, protocol) ==
    {i \in DOMAIN read_services : /\ read_services[i].name = name
                                  /\ protocol \in {Unset, read_services[i].protocol}
                                  /\ Leading[name] \in {0, read_services[i].port}}

(* Whether path p may come from an item of a call for request r, as        *)
(* PathsAgree says.                                                        *)
StandsFor(r, p, t) ==
    LET s == t.service
        socktype == IF s.socktype = Unset THEN r.socktype ELSE s.socktype
        protocol == IF s.protocol = Unset THEN r.protocol ELSE s.protocol
    IN  /\ r.family \in {"UNSPEC", p.family}
        /\ t.address = [family |-> p.family, reachable |-> p.reachable, host |-> p.host]
        /\ p.family = "UNIX" \/
              /\ socktype \in {Unset, p.socktype} /\ protocol \in {Unset, p.protocol}
              /\ p.port = s.port \/ r.servname \in Numeric \/ Known(r.servname, protocol) = {}
                 \/ \E i \in Known(r.servname, protocol) :
                       read_services[i].protocol = p.protocol /\ read_services[i].port = p.port

(* Every path of a call is of the family that was asked for, and stands    *)
(* for one of the addresses of the call.  What either the backend or else  *)
(* the request says about socket type and protocol holds for every         *)
(* internet path, and, for a service that the services file knows, the     *)
(* port is registered for that very protocol.                              *)
PathsAgree ==
    \A i \in DOMAIN queue : LET items == calls[Len(calls)]
                            IN  \E j \in DOMAIN items : StandsFor(request, queue[i], items[j])
=============================================================================
