------------------------------- MODULE Results -------------------------------
(***************************************************************************)
(* What the calls of Lookup return, and how the reentrant ones lay it out  *)
(* in a buffer of the caller (compat/libc.c, compat/nsswitch.c).           *)
(***************************************************************************)
EXTENDS Lookup, SequencesExt

CONSTANT Size  \* the size of each name, terminator included
-----------------------------------------------------------------------------
(* How the results are laid out in a buffer of the caller: the parts one   *)
(* after the other, [at, size], or not at all.                             *)
Pointer == 8

Tuple == 40

Length(family) == IF family = "INET" THEN 4 ELSE 16

NameSize(name) == IF name = NoName THEN <<>> ELSE <<Size[name]>>

(* The buffer is handed out from its start until it is used up.            *)
buffer_append(buffer, size) ==
    IF ~buffer.ok \/ buffer.length < size THEN [buffer EXCEPT !.ok = FALSE]
    ELSE [ok |-> TRUE, at |-> buffer.at + size, length |-> buffer.length - size,
          parts |-> Append(buffer.parts, [at |-> buffer.at, size |-> size])]

Filled(sizes, buflen) ==
    FoldLeft(buffer_append, [ok |-> TRUE, at |-> 0, length |-> buflen, parts |-> <<>>], sizes)

(* Mutant: no room is left for the NULL at the end of the addresses.       *)
gethostbyname2_r_layout_NoEnd(he, buflen) ==
    LET name == IF he.name = NoName THEN 0 ELSE Size[he.name]
        list == Len(he.addresses) * Pointer
        length == Length(he.family)
        parts == <<[at |-> 0, size |-> name], [at |-> name, size |-> Pointer],
                   [at |-> name + Pointer, size |-> list]>>
                 \o [i \in DOMAIN he.addresses |->
                       [at |-> name + Pointer + list + (i - 1) * length, size |-> length]]
    IN  [ok |-> name + Pointer + list + Len(he.addresses) * length <= buflen, parts |-> parts]

(* gethostbyname2_r adds up the sizes first: the name, the end of the list *)
(* of aliases, the pointers to the addresses with their end, and these.    *)
gethostbyname2_r_layout(he, buflen) ==
    LET name == IF he.name = NoName THEN 0 ELSE Size[he.name]
        list == (Len(he.addresses) + 1) * Pointer
        length == Length(he.family)
        parts == <<[at |-> 0, size |-> name], [at |-> name, size |-> Pointer],
                   [at |-> name + Pointer, size |-> list]>>
                 \o [i \in DOMAIN he.addresses |->
                       [at |-> name + Pointer + list + (i - 1) * length, size |-> length]]
    IN  [ok |-> name + Pointer + list + Len(he.addresses) * length <= buflen, parts |-> parts]

(* The name is copied even if there is none, as no bytes.                  *)
nss_gethostbyaddr2_r_layout(he, buflen) ==
    Filled(<<IF he.name = NoName THEN 0 ELSE Size[he.name], Pointer, (Len(he.addresses) + 1) * Pointer>>
           \o [i \in DOMAIN he.addresses |-> Length(he.family)], buflen)

(* The list holds only addresses of the family, as the query asked for it. *)
nss_gethostbyname3_r_layout(list, name, family, buflen) ==
    LET chosen == SelectSeq(list, LAMBDA a : a.family = family)
    IN  Filled(<<(Len(list) + 1) * Pointer>> \o [i \in DOMAIN chosen |-> Length(family)] \o NameSize(name), buflen)

(* The name follows the first address.                                     *)
nss_gethostbyname4_r_layout(list, name, buflen) ==
    Filled(<<Tuple>> \o NameSize(name) \o [i \in 1..(Len(list) - 1) |-> Tuple], buflen)
-----------------------------------------------------------------------------
(* What the backends added, each item of the family asked for, in the      *)
(* order of preference, or as it came if sorting is off.  A call for the   *)
(* empty service that leaves the socket type open, and gets no socket type *)
(* from the backend either, has one of three for each item.                *)
Preferred ==
    LET found == SelectSeq(FlattenSeq(calls), LAMBDA t : request.family \in {"UNSPEC", t.address.family})
        class(r, f) == SelectSeq(found, LAMBDA t : t.address.reachable = r /\ t.address.family = f)
        all == IF ~request.sort THEN found
               ELSE class(TRUE, "INET6") \o class(TRUE, "INET") \o class(FALSE, "INET6") \o class(FALSE, "INET")
        open(t) == request.servname # NoName /\ Unset = request.socktype /\ Unset = t.service.socktype
    IN  FlattenSeq([i \in DOMAIN all |->
            [j \in 1..(IF open(all[i]) THEN 3 ELSE 1) |->
                [family |-> all[i].address.family, host |-> all[i].address.host]]])

PreferredFamily == LET all == Preferred IN SelectSeq(all, LAMBDA a : a.family = all[1].family)

Hosts(list) == [i \in DOMAIN list |-> list[i].host]

Returned(name) == state = "idle" /\ fault = "none" /\ api = name

(* A call that made a query returns what the backends of this query found, *)
(* all of it, in the order of preference, and nothing from an earlier one: *)
(* a struct hostent the addresses of the preferred family, each as often   *)
(* as a backend added it (once for most, three times for libc, whose items *)
(* differ in socket type); the module for nsswitch each item once though   *)
(* its query asks for the empty service; and getaddrinfo each item once    *)
(* per socket type that fits the hints.  A call that is refused makes no   *)
(* query: gethostbyaddr then returns the result of an earlier one.         *)
AnswerIsFound ==
    /\ Returned("gethostbyname2") \/ Returned("gethostbyname2_r")
          => returned.addresses = Hosts(PreferredFamily)
    /\ Returned("nss_netresolve") \/ Returned("getaddrinfo") \/ Returned("getaddrinfo_canonname")
          => returned.addresses = Preferred
    /\ Returned("gethostbyaddr") => returned.family = request.family /\ returned.addresses = <<request.host>>

(* The parts of a result fit a buffer exactly when their sizes do, and     *)
(* then each has room of its own in it.                                    *)
Exact(layout(_), sizes) ==
    LET needed == FoldLeft(+, 0, sizes)
    IN  \A buflen \in {0, needed - 1, needed, needed + 1} :
            LET l == layout(buflen)
            IN  /\ l.ok <=> needed <= buflen
                /\ l.ok => /\ Len(l.parts) = Len(sizes)
                           /\ \A i \in DOMAIN sizes : /\ l.parts[i].size >= sizes[i]
                                                      /\ l.parts[i].at + sizes[i] <= buflen
                           /\ \A i, j \in DOMAIN sizes :
                                 i < j => l.parts[i].at + sizes[i] <= l.parts[j].at

(* The reentrant calls accept a buffer that is just large enough, refuse   *)
(* one that is a byte too small, and let no two parts overlap: the name,   *)
(* the pointers up to and including the NULL, and every address found.     *)
BufferExact ==
    LET name == IF returned.name = NoName THEN 0 ELSE Size[returned.name]
        lengths(list) == [i \in DOMAIN list |-> Length(list[i].family)]
        hostent(list) == <<name, Pointer, (Len(list) + 1) * Pointer>> \o lengths(list)
        named(sizes) == IF returned.name = NoName THEN sizes ELSE Append(sizes, name)
    IN  /\ Returned("gethostbyname2_r")
              => Exact(LAMBDA n : gethostbyname2_r_layout(returned, n), hostent(PreferredFamily))
        /\ Returned("gethostbyaddr")
              => Exact(LAMBDA n : nss_gethostbyaddr2_r_layout(returned, n), hostent(<<request>>))
        /\ Returned("nss_netresolve") /\ Preferred # <<>> =>
              IF request.family = "UNSPEC"
              THEN Exact(LAMBDA n : nss_gethostbyname4_r_layout(returned.addresses, returned.name, n),
                         named(<<Tuple>>) \o [i \in 1..(Len(Preferred) - 1) |-> Tuple])
              ELSE Exact(LAMBDA n : nss_gethostbyname3_r_layout(returned.addresses, returned.name, request.family, n),
                         named(<<(Len(Preferred) + 1) * Pointer>> \o lengths(Preferred)))
=============================================================================
