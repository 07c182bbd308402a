----------------------------- MODULE MCResponse -----------------------------
(* Values for the constants of Response: a services file with a service of *)
(* two protocols on two ports, one for SCTP only, one whose name starts    *)
(* with a number, a comment, an unknown protocol, and a line that is too   *)
(* long in front of the last one.                                          *)
EXTENDS Response

Line(name, port, protocol, aliases) ==
    [name |-> name, port |-> port, protocol |-> protocol, aliases |-> aliases, fits |-> TRUE]

SmallFile == <<
    Line("domain", 53, "TCP", <<"dns">>),
    Line("domain", 54, "UDP", <<>>),
    Line("m3ua", 55, "SCTP", <<>>),
    Line("9pfs", 57, "TCP", <<>>),
    Line("comment", 0, "TCP", <<>>),
    Line("odd", 56, "OTHER", <<>>),
    [Line("long", 53, "UDP", <<>>) EXCEPT !.fits = FALSE],
    Line("late", 53, "UDP", <<>>) >>

SmallLeading == [n \in {"domain", "m3ua", "9pfs", "late", "53"} |->
                    CASE n = "53" -> 53 [] n = "9pfs" -> 9 [] OTHER -> 0]

(* Forward requests, two of them without sorting, and reverse requests for *)
(* a port.                                                                 *)
SmallRequest ==
    [family : {"UNSPEC", "INET6"}, socktype : {Unset, "STREAM"}, protocol : {Unset, "SCTP"},
     servname : {NoName, "domain", "m3ua", "9pfs", "late", "53"}, port : {0}, sort : {TRUE}]
    \cup [family : {"UNSPEC"}, socktype : {Unset}, protocol : {Unset},
          servname : {NoName, "domain"}, port : {0}, sort : {FALSE}]
    \cup [family : {"INET"}, socktype : {Unset}, protocol : {Unset, "TCP", "UDP"},
          servname : {NoName}, port : {53, 54}, sort : {TRUE}]

SmallAddress ==
    [family : {"INET", "INET6"}, reachable : BOOLEAN, host : {"host"}]
    \cup {[family |-> "UNIX", reachable |-> FALSE, host |-> "host"]}

(* As most backends call it, as the DNS backends do for an SRV record, and *)
(* as the backends on getaddrinfo do.                                      *)
SmallService ==
    {[socktype |-> Unset, protocol |-> Unset, port |-> 0],
     [socktype |-> Unset, protocol |-> "TCP", port |-> 99],
     [socktype |-> "DGRAM", protocol |-> "UDP", port |-> 54]}

(* getaddrinfo lists each address as a stream, a datagram and a raw socket. *)
SmallAddrinfo ==
    LET items(family, reachable) ==
            [i \in 1..3 |-> Item([family |-> family, reachable |-> reachable, host |-> "host"],
                <<[socktype |-> "STREAM", protocol |-> "TCP", port |-> 53],
                  [socktype |-> "DGRAM", protocol |-> "UDP", port |-> 53],
                  [socktype |-> "RAW", protocol |-> Unset, port |-> 53]>>[i])]
    IN  {items("INET", TRUE) \o items("INET6", FALSE)}

SmallAddrtuple ==
    {<<[family |-> "INET", reachable |-> FALSE, host |-> "host"],
       [family |-> "INET6", reachable |-> TRUE, host |-> "host"]>>}
=============================================================================
