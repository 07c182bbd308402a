------------------------------ MODULE Backends ------------------------------
(***************************************************************************)
(* The backends that answer on the spot: unix, any, loopback, numerichost, *)
(* hosts, hostname, libc and nss.  A backend is the sequence of calls that *)
(* its query_forward or query_reverse makes on the library; where that     *)
(* depends on the system, a set of such sequences.  Response says what the *)
(* calls do, Lookup runs the backends one after the other.                 *)
(***************************************************************************)
EXTENDS Response

CONSTANTS
    Unreachable,  \* the addresses without a route: pairs of family and host
    Literal,      \* the numeric addresses: name -> [family, host, ifindex], ifindex -1: no such interface
    SocketNames,  \* the node names that start with a slash
    HostsFile,    \* the lines of the hosts file: [literal, names, seam, torn, fits], see read_item
    Uname,        \* the name of this host
    Interfaces,   \* what getifaddrs may return: sequences of [family, host]
    ZeroPrefix,   \* the IPv6 hosts whose address starts with four zero bytes, like the loopback
    NssModules,   \* the NSS modules the nss backend may be given, see nss_query_forward
    Resolved      \* what getaddrinfo may find, for the libc backend: sequences of [family, host]

HostAddress == [family : STRING, host : STRING]

Hostent == [status : STRING, addresses : Seq(HostAddress), name : STRING \cup {NoName},
            canonical : STRING \cup {NoName}]

(* What is read at a seam are names with an address.                       *)
Leftover == Seq([name : STRING, literal : DOMAIN Literal])

(* No more names of a line stand in front of a seam than it has.           *)
ASSUME BackendsAssumption ==
    /\ \A n \in DOMAIN Literal : Literal[n].ifindex \in Int
    /\ HostsFile \in Seq([literal : STRING, names : Seq(STRING), seam : Int, torn : SUBSET Leftover, fits : BOOLEAN])
    /\ \A i \in DOMAIN HostsFile : HostsFile[i].seam <= Len(HostsFile[i].names)
    /\ Interfaces \subseteq Seq(HostAddress) /\ Resolved \subseteq Seq(HostAddress)
    /\ NssModules \subseteq [api : SUBSET STRING, INET : Hostent, INET6 : Hostent]

Address4(host) == [family |-> "INET", reachable |-> <<"INET", host>> \notin Unreachable, host |-> host]

Address6(host) == [family |-> "INET6", reachable |-> <<"INET6", host>> \notin Unreachable, host |-> host]

Inet(a) == IF a.family = "INET" THEN Address4(a.host) ELSE Address6(a.host)

(* The service an address is added with: at most a socket type.            *)
With(socktype) == [socktype |-> socktype, protocol |-> Unset, port |-> 0]

(* The calls of the backend API.                                           *)
AddPathWith(address, service) == [op |-> "add_path", address |-> address, service |-> service]

AddPath(address) == AddPathWith(address, With(Unset))

AddName(name) == [op |-> "add_name_info", name |-> name]

CanonicalName(name) == [op |-> "set_canonical_name", name |-> name]

SetSecure == [op |-> "set_secure"]

Finish == [op |-> "finished"]

Fail == <<[op |-> "failed"]>>

AddPaths(addresses) == [i \in DOMAIN addresses |-> AddPath(addresses[i])]
-----------------------------------------------------------------------------
unix_query_forward(r) ==
    IF r.family # "UNIX" \/ r.nodename \notin SocketNames THEN Fail
    ELSE <<AddPathWith([family |-> "UNIX", reachable |-> FALSE, host |-> r.nodename], With(r.socktype)),
           SetSecure, Finish>>

any_query_forward(r) ==
    IF r.default_loopback \/ r.nodename \notin {NoName, ""} THEN Fail
    ELSE <<AddPath(Address4("any")), AddPath(Address6("any")), SetSecure, Finish>>

any_query_reverse(r) ==
    IF r.default_loopback \/ r.host # "any" THEN Fail
    ELSE <<AddName(""), SetSecure, Finish>>

(* Mutant: only the name localhost itself is known.                        *)
loopback_query_forward_OneName(r) ==
    IF r.nodename \notin {NoName, "", "localhost"} THEN Fail
    ELSE <<CanonicalName("localhost"), AddPath(Address4("loopback")), AddPath(Address6("loopback")),
           SetSecure, Finish>>

loopback_query_forward(r) ==
    LET ipv4 == r.nodename \in {NoName, "", "localhost", "localhost4"}
        ipv6 == r.nodename \in {NoName, "", "localhost", "localhost6"}
    IN  IF ~ipv4 /\ ~ipv6 THEN Fail
        ELSE <<CanonicalName("localhost")>>
             \o (IF ipv4 THEN <<AddPath(Address4("loopback"))>> ELSE <<>>)
             \o (IF ipv6 THEN <<AddPath(Address6("loopback"))>> ELSE <<>>)
             \o <<SetSecure, Finish>>

loopback_query_reverse(r) ==
    IF r.host \notin {"any", "loopback"} THEN Fail
    ELSE <<AddName("localhost"), SetSecure, Finish>>

(* Whether netresolve_backend_parse_address accepts the name.              *)
parse_address(name) == name \in DOMAIN Literal

numerichost_query_forward(r) ==
    IF ~parse_address(r.nodename) THEN Fail
    ELSE IF Literal[r.nodename].ifindex < 0 THEN Fail
    ELSE <<AddPath(Inet(Literal[r.nodename])), CanonicalName(r.nodename), SetSecure, Finish>>
-----------------------------------------------------------------------------
(* The entries of one line.  A line in which a piece of the file ends is   *)
(* taken apart twice, first up to this seam.  The buffer is not terminated *)
(* there: the name that is cut runs on, and others follow, in whatever     *)
(* bytes are left behind (torn).  Of the names, those in front of the seam *)
(* are kept (seam is their number) and the others lost, unless the seam is *)
(* in the address (-1): the line is then read again as a whole.  A line    *)
(* without a seam has all of its names in front of it, and nothing torn.   *)
read_item(line, torn) ==
    LET names(n) == IF ~parse_address(line.literal) THEN <<>>
                    ELSE [i \in 1..n |-> [name |-> line.names[i], address |-> Inet(Literal[line.literal])]]
        left == [i \in DOMAIN torn |-> [name |-> torn[i].name, address |-> Inet(Literal[torn[i].literal])]]
    IN  IF line.seam < 0 THEN left \o names(Len(line.names)) ELSE names(line.seam) \o left

(* What may be left behind in the buffer, line by line.                    *)
Torn ==
    {torn \in [DOMAIN HostsFile -> UNION {HostsFile[i].torn : i \in DOMAIN HostsFile}] :
        \A i \in DOMAIN HostsFile : torn[i] \in HostsFile[i].torn}

(* The file, up to the first line that is longer than the buffer, of which *)
(* what fits is read.                                                      *)
read_list(torn) ==
    LET ends == {i \in DOMAIN HostsFile : ~HostsFile[i].fits} \cup {Len(HostsFile)}
        last == CHOOSE i \in ends : \A j \in ends : i <= j
    IN  Concat([i \in 1..last |-> read_item(HostsFile[i], torn[i])])

HostsLists == {read_list(torn) : torn \in Torn}

(* What is added for those entries of the file that are hits.              *)
Found(list, hits, call(_)) ==
    Concat([i \in DOMAIN list |-> IF i \in hits THEN <<call(list[i])>> ELSE <<>>])

hosts_query_forward(r, list) ==
    LET hits == {i \in DOMAIN list : list[i].name = r.nodename}
    IN  IF r.nodename = NoName \/ hits = {} THEN Fail
        ELSE Found(list, hits, LAMBDA item : AddPath(item.address)) \o <<SetSecure, Finish>>

hosts_query_reverse(r, list) ==
    LET hits == {i \in DOMAIN list : list[i].address.family = r.family /\ list[i].address.host = r.host}
    IN  IF hits = {} THEN Fail
        ELSE Found(list, hits, LAMBDA item : AddName(item.name)) \o <<SetSecure, Finish>>

(* The loopback address, or what the comparison takes for it: of an IPv6   *)
(* address it looks at no more bytes than an IPv4 one has.                 *)
IsLoopback(a) == IF a.family = "INET" THEN a.host = "loopback" ELSE a.host \in ZeroPrefix

(* The addresses of the interfaces, those of the loopback left out.        *)
add_addresses(list, filter) ==
    Concat([i \in DOMAIN list |->
        IF list[i].family \in {"INET", "INET6"} /\ ~(filter /\ IsLoopback(list[i]))
        THEN <<AddPath(Inet(list[i]))>> ELSE <<>>])

hostname_query_forward(r) ==
    IF r.nodename # Uname THEN {Fail}
    ELSE {Fail} \cup {(IF add_addresses(list, TRUE) # <<>> THEN add_addresses(list, TRUE)
                       ELSE add_addresses(list, FALSE))
                      \o <<CanonicalName(r.nodename), Finish>> : list \in Interfaces}
-----------------------------------------------------------------------------
(* What getaddrinfo makes of addresses: one item for each socket type that *)
(* fits the hints, with the protocol that goes with it.  The requests name *)
(* no service that has a port.                                             *)
addrinfo(addresses, r) ==
    LET rows == found_port(NoName, r.socktype, r.protocol, 0)
    IN  Concat([i \in DOMAIN addresses |->
            [j \in DOMAIN rows |->
                Item(addresses[i], [socktype |-> rows[j].socktype, protocol |-> rows[j].protocol, port |-> 0])]])

(* Every item is added with its socket type, protocol and port.  A name    *)
(* that does not exist is an answer too.                                   *)
apply_addrinfo(status, items) ==
    CASE status = "OK" -> [i \in DOMAIN items |-> AddPathWith(items[i].address, items[i].service)] \o <<Finish>>
      [] status = "NOTFOUND" -> <<Finish>>
      [] OTHER -> Fail

(* The status of a libc call is checked before.                            *)
libc_query_forward(r) ==
    {Fail} \cup {apply_addrinfo("OK", addrinfo([i \in DOMAIN list |-> Inet(list[i])], r)) : list \in Resolved}

(* The length that is passed to getnameinfo is that of an IPv4 address,    *)
(* which getnameinfo does not take for an IPv6 one.                        *)
libc_query_reverse(r) ==
    IF r.family # "INET" THEN {Fail} ELSE {Fail, <<AddName("name"), Finish>>}

combine_statuses(s4, s6) ==
    IF "TRYAGAIN" \in {s4, s6} THEN "TRYAGAIN"
    ELSE IF "SUCCESS" \in {s4, s6} THEN "SUCCESS"
    ELSE IF {s4, s6} = {"NOTFOUND"} THEN "NOTFOUND"
    ELSE "UNAVAIL"

(* A struct hostent: its addresses, and then its name.                     *)
apply_hostent(he) ==
    AddPaths([i \in DOMAIN he.addresses |-> Inet(he.addresses[i])])
    \o (IF he.name = NoName THEN <<>> ELSE <<CanonicalName(he.name)>>)

(* The functions of an NSS module in the order of preference.              *)
Functions == <<"getaddrinfo", "gethostbyname4", "gethostbyname3", "gethostbyname2", "gethostbyname">>

(* Those that may be called: all but the first need a node name, and the   *)
(* second is of no use for a single family.                                *)
usable(r, m) ==
    {i \in DOMAIN Functions : /\ Functions[i] \in m.api
                              /\ i = 1 \/ r.nodename # NoName
                              /\ i = 2 => r.family = "UNSPEC"}

(* A module m has functions (m.api; none if it does not load) and knows    *)
(* addresses of each family (m.INET and m.INET6: [status, addresses, name, *)
(* canonical]), which it reports through whichever function is called.     *)
nss_query_forward(r, m) ==
    LET status(f) == IF r.family \in {"UNSPEC", f} THEN m[f].status ELSE "NOTFOUND"
        ok(f) == status(f) = "SUCCESS"
        both == combine_statuses(status("INET"), status("INET6"))
        list == (IF ok("INET6") THEN m.INET6.addresses ELSE <<>>) \o (IF ok("INET") THEN m.INET.addresses ELSE <<>>)
        tuple == [i \in DOMAIN list |-> Inet(list[i])]
        named(f) == ok(f) /\ m[f].canonical # NoName
        names == IF named("INET6") THEN <<CanonicalName(m.INET6.canonical)>>
                 ELSE IF named("INET") THEN <<CanonicalName(m.INET.canonical)>>
                 ELSE <<>>
        hostents == (IF ok("INET6") THEN apply_hostent(m.INET6) ELSE <<>>)
                    \o (IF ok("INET") THEN apply_hostent(m.INET) ELSE <<>>)
        first == CHOOSE i \in usable(r, m) : \A j \in usable(r, m) : i <= j
    IN  IF usable(r, m) = {} THEN Fail
        ELSE CASE Functions[first] = "getaddrinfo" ->
                     apply_addrinfo(IF list # <<>> THEN "OK" ELSE both, addrinfo(tuple, r))
               [] Functions[first] = "gethostbyname4" -> IF list # <<>> THEN AddPaths(tuple) \o <<Finish>> ELSE Fail
               [] Functions[first] = "gethostbyname3" ->
                     IF both = "SUCCESS" THEN names \o hostents \o <<Finish>> ELSE Fail
               [] Functions[first] = "gethostbyname2" ->
                     IF both = "SUCCESS" THEN hostents \o <<Finish>> ELSE Fail
               [] Functions[first] = "gethostbyname" ->
                     IF m.INET.status = "SUCCESS" THEN apply_hostent(m.INET) \o <<Finish>> ELSE Fail
-----------------------------------------------------------------------------
(* What backend b may do with request r.  One that has no function for it  *)
(* counts as failed.                                                       *)
setup(b, r) ==
    LET forward == r.type = "FORWARD"
    IN  CASE b = "unix" -> {IF forward THEN unix_query_forward(r) ELSE Fail}
          [] b = "any" -> {IF forward THEN any_query_forward(r) ELSE any_query_reverse(r)}
          [] b = "loopback" -> {IF forward THEN loopback_query_forward(r) ELSE loopback_query_reverse(r)}
          [] b = "numerichost" -> {IF forward THEN numerichost_query_forward(r) ELSE Fail}
          [] b = "hosts" -> {IF forward THEN hosts_query_forward(r, list) ELSE hosts_query_reverse(r, list) :
                                list \in HostsLists}
          [] b = "hostname" -> IF forward THEN hostname_query_forward(r) ELSE {Fail}
          [] b = "libc" -> IF forward THEN libc_query_forward(r) ELSE libc_query_reverse(r)
          [] b = "nss" -> IF forward THEN {nss_query_forward(r, m) : m \in NssModules} ELSE {Fail}
=============================================================================
