------------------------------ MODULE MCLookup ------------------------------
(* Values for the constants of Lookup and Results.                         *)
EXTENDS Results

V4(host) == [family |-> "INET", host |-> host]

V6(host) == [family |-> "INET6", host |-> host]

SmallUnreachable == {<<"INET6", "h2">>, <<"INET", "h4">>}

(* The default backend string, with avahi and a DNS backend behind the     *)
(* local ones, one of compatibility backends, the last one mandatory, and  *)
(* one without sorting.                                                    *)
SmallConfigs ==
    {[chain |-> <<"unix", "any", "loopback", "numerichost", "hosts", "hostname", "remote", "remote">>,
      mandatory |-> {}, sort |-> TRUE],
     [chain |-> <<"hosts", "libc", "nss">>, mandatory |-> {3}, sort |-> TRUE],
     [chain |-> <<"hosts", "libc">>, mandatory |-> {}, sort |-> FALSE]}

SmallLiteral ==
    [n \in {"1.2.3.4", "1::2", "fe80::1%nowhere"} |->
        CASE n = "1.2.3.4" -> [family |-> "INET", host |-> "h1", ifindex |-> 0]
          [] n = "1::2" -> [family |-> "INET6", host |-> "h2", ifindex |-> 0]
          [] OTHER -> [family |-> "INET6", host |-> "h3", ifindex |-> -1]]

(* A comment, a host with addresses of both families, of which the second  *)
(* line has its second name cut, one with a seam in front of its name, one *)
(* with a seam in its address, a line that does not fit with its second    *)
(* name, and one behind it.  What is left behind at a seam are names of    *)
(* lines that were read before.                                            *)
HostLine(literal, names) == [literal |-> literal, names |-> names, seam |-> Len(names), torn |-> {<<>>}, fits |-> TRUE]

Cut(line, seam, torn) == [line EXCEPT !.seam = seam, !.torn = {<<>>, torn}]

SmallHosts == <<
    HostLine("comment", <<"x">>),
    HostLine("1.2.3.4", <<"both", "b">>),
    Cut(HostLine("1::2", <<"both", "cut">>), 1, <<[name |-> "gone", literal |-> "1::2"]>>),
    Cut(HostLine("1.2.3.4", <<"gone">>), 0, <<[name |-> "both", literal |-> "1.2.3.4"]>>),
    Cut(HostLine("1.2.3.4", <<"again">>), -1, <<[name |-> "again", literal |-> "1::2"]>>),
    [Cut(HostLine("1.2.3.4", <<"long", "l">>), 1, <<>>) EXCEPT !.fits = FALSE],
    HostLine("1.2.3.4", <<"late">>)>>

(* Up, one with an IPv6 address that starts with zeros, with the loopback  *)
(* only, and without any address.                                          *)
SmallInterfaces ==
    {<<V4("loopback"), [family |-> "PACKET", host |-> "mac"], V4("h1"), V6("h2")>>,
     <<V6("loopback"), V6("mapped"), V4("h1")>>, <<V4("loopback"), V6("mapped")>>, <<>>}

SmallResolved == {<<V4("h4"), V6("h2")>>}

Knows(addresses, name) ==
    [status |-> "SUCCESS", addresses |-> addresses, name |-> name, canonical |-> "canonical"]

Unknown(status) == [status |-> status, addresses |-> <<>>, name |-> NoName, canonical |-> NoName]

(* Modules of every interface, one that has to be asked again for IPv6,    *)
(* one that knows no IPv6 address and one that is not there.               *)
SmallNss ==
    [api : {{"gethostbyname"}, {"gethostbyname2"}, ToSet(Functions) \ {"getaddrinfo"}},
     INET : {Knows(<<V4("h1"), V4("h4")>>, "name")}, INET6 : {Knows(<<V6("h2")>>, NoName)}]
    \cup [api : {{"gethostbyname3"}, {"getaddrinfo"}},
          INET : {Knows(<<V4("h1")>>, "name")}, INET6 : {Unknown("TRYAGAIN"), Unknown("NOTFOUND")}]
    \cup [api : {{}}, INET : {Unknown("NOTFOUND")}, INET6 : {Unknown("NOTFOUND")}]

(* A server answers, to a backend that validates or trusts it as well,     *)
(* answers such a backend in part and fails, denies the name or fails.     *)
SmallRemote == [
    FORWARD |->
    {<<AddPath(Address4("h4")), AddPath(Address6("h2")), AddPath(Address4("h5")), CanonicalName("canonical"), Finish>>,
     <<SetSecure, AddPath(Address4("h4")), Finish>>,
     <<SetSecure, AddPath(Address4("h4")), [op |-> "failed"]>>,
     <<Finish>>, Fail},
    REVERSE |-> {<<AddName("name"), AddName("canonical"), Finish>>, <<Finish>>, Fail}]

SmallNode == {NoName, "", "localhost", "localhost6", "1.2.3.4", "fe80::1%nowhere", "/socket",
              "both", "gone", "again", "self"}

SmallHints ==
    [family : {"UNSPEC"}, socktype : {Unset}, passive : BOOLEAN, canonname : {FALSE}]
    \cup [family : {"UNIX"}, socktype : {Unset}, passive : {FALSE}, canonname : {FALSE}]
    \cup [family : {"INET6"}, socktype : {"STREAM"}, passive : {FALSE}, canonname : {TRUE}]

SmallPeer ==
    {[family |-> "INET", host |-> h, length |-> 4] : h \in {"any", "loopback", "h1", "h5"}}
    \cup {[family |-> "INET6", host |-> "h2", length |-> 16], [family |-> "INET", host |-> "h1", length |-> 16]}

SmallSize ==
    [n \in SmallNode \cup {"name", "canonical", "localhost"} |->
        IF n = "" THEN 1 ELSE IF n \in {"both", "name"} THEN 5 ELSE 10]

SmallFile ==
    <<[name |-> "domain", port |-> 53, protocol |-> "TCP", aliases |-> <<>>, fits |-> TRUE],
      [name |-> "domain", port |-> 53, protocol |-> "UDP", aliases |-> <<>>, fits |-> TRUE]>>

SmallLeading == [n \in {""} |-> 0]
=============================================================================
