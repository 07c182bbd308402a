-------------------------------- MODULE Dns --------------------------------
(***************************************************************************)
(* One query at a DNS backend, backends/dns.c, in its three builds: on     *)
(* libunbound, on c-ares and on avahi.  The backend counts the lookups it  *)
(* has under way, follows SRV records to further lookups, and reports to   *)
(* the query when the count is down to zero.                               *)
(*                                                                         *)
(* The libraries call back only while the backend gives them control: in   *)
(* dispatch, any number of times, and, when a name is refused, in the      *)
(* lookup itself.  Memory allocation does not fail.                        *)
(***************************************************************************)
EXTENDS Integers, FiniteSets

CONSTANTS
    Libraries,   \* the builds: a subset of {"UNBOUND", "ARES", "AVAHI"}
    MaxSrv       \* bound: the number of records in the answer to an SRV lookup

ASSUME ConstantsAssumption ==
    /\ Libraries \subseteq {"UNBOUND", "ARES", "AVAHI"}
    /\ MaxSrv \in Nat

(* The list of struct priv_srv: 0 is the head, embedded in the private     *)
(* data and standing for the node name itself; the SRV targets follow.     *)
Srv == 0..MaxSrv

Lookup == Srv \X {"SRV", "A", "AAAA", "PTR", "DNS"}

(* What is asked, with which settings, and the names the library refuses   *)
(* to look up.  libunbound refuses none: ub_resolve_async is not checked,  *)
(* and a lookup it did not start is one it never answers.                  *)
Request == {r \in [library : Libraries, type : {"FORWARD", "REVERSE", "DNS"},
                   family : {"INET", "INET6", "UNSPEC"}, srv_lookup : BOOLEAN,
                   trust : BOOLEAN, validate : BOOLEAN, refused : SUBSET Srv] :
               /\ r.srv_lookup => r.type = "FORWARD"
               /\ r.type = "REVERSE" => r.family # "UNSPEC"
               /\ r.validate => r.library = "UNBOUND"
               /\ r.library = "UNBOUND" => r.refused = {}}

VARIABLES
    request,  \* the request and the settings, which do not change
    phase,    \* "idle", "waiting", "dispatch" (the library is in control), "over"
    priv,     \* struct priv_dns
    lookups,  \* the lookups that the library is to answer
    watching, \* the watches of the backend: pairs of a descriptor and an event
    response, \* what the query has been given
    verdict,  \* "none", "finished" or "failed": the last report to the query
    history,  \* lookups made, and whether an answer nobody vouched for was used
    fault     \* a use of freed memory, or a descriptor watched twice

vars == <<request, phase, priv, lookups, watching, response, verdict, history, fault>>

World == [priv |-> priv, lookups |-> lookups, watching |-> watching, response |-> response,
          verdict |-> verdict, history |-> history, fault |-> fault]

Private == [pending : Nat, answered : BOOLEAN, failed : BOOLEAN, secure : BOOLEAN, srvs : Srv]

library == request.library

(* An answer of libunbound or c-ares.  secure is libunbound's own verdict, *)
(* ad the flag in the packet; an empty answer counts as NXDOMAIN.  Of the  *)
(* records only the number of those that match the question matters: the   *)
(* others are aliases.  Without a trust anchor libunbound validates        *)
(* nothing, and what it finds bogus is not secure.                         *)
Answer(l) ==
    {a \in [kind : {"error", "bogus", "garbled", "rcode", "nxdomain", "records"},
            secure : BOOLEAN, ad : BOOLEAN, found : 0..(IF l[2] = "SRV" THEN MaxSrv ELSE 1)] :
        /\ a.secure => request.validate /\ a.kind # "bogus"
        /\ a.kind = "bogus" => library = "UNBOUND"
        /\ a.kind # "records" => a.found = 0}

(* What avahi reports: to a record browser, and to the address resolver of *)
(* a reverse query.                                                        *)
Event(l) ==
    IF l[2] = "PTR" THEN {"found", "failure", "other"}
    ELSE {"new", "unexpected", "all_for_now", "cache_exhausted", "failure", "other"}
-----------------------------------------------------------------------------
(* A lookup is counted, then handed to the library.  c-ares calls back     *)
(* with an error for a name it refuses; avahi returns no browser.          *)
lookup_dns(w, l) ==
    LET w1 == [w EXCEPT !.priv.pending = @ + 1, !.history.asked = @ \cup {l}]
    IN  IF l[1] \notin request.refused THEN [w1 EXCEPT !.lookups = @ \cup {l}]
        ELSE IF library = "ARES" THEN [w EXCEPT !.priv.failed = TRUE, !.history.asked = @ \cup {l}]
        ELSE [w1 EXCEPT !.verdict = "failed"]

Hosts(srv) == {l \in {<<srv, "A">>, <<srv, "AAAA">>} :
                  \/ l[2] = "A" /\ request.family \in {"INET", "UNSPEC"}
                  \/ l[2] = "AAAA" /\ request.family \in {"INET6", "UNSPEC"}}

lookup_host(w, srv) ==
    LET w1 == IF <<srv, "A">> \in Hosts(srv) THEN lookup_dns(w, <<srv, "A">>) ELSE w
    IN  IF <<srv, "AAAA">> \in Hosts(srv) THEN lookup_dns(w1, <<srv, "AAAA">>) ELSE w1

apply_srv(w) == lookup_host([w EXCEPT !.priv.srvs = @ + 1], w.priv.srvs + 1)

(* The SRV records of an answer are applied one after the other.           *)
AppliedUpTo(w, found) ==
    LET loop[i \in 0..found] == IF i = 0 THEN w ELSE apply_srv(loop[i - 1])
    IN  loop

(* The records of an answer: SRV records start lookups of their targets,   *)
(* the others answer the query.                                            *)
apply_record(w, l, found) ==
    IF l[2] = "SRV" THEN AppliedUpTo(w, found)[found]
    ELSE IF found = 0 THEN w
    ELSE [w EXCEPT !.priv.answered = TRUE, !.response.paths = @ \/ l[2] # "PTR"]

(* Mutant: the AD flag is not looked at.                                   *)
apply_answer_AnyFlag(w, l, a) ==
    CASE request.type = "DNS" -> [w EXCEPT !.priv.answered = TRUE]
      [] request.type # "DNS" /\ a.kind = "records" -> apply_record(w, l, a.found)
      [] OTHER -> [w EXCEPT !.priv.failed = TRUE]

(* A raw answer is passed on as it is.  Otherwise an answer counts against *)
(* security if its AD flag is clear, unless libunbound validates; a failed *)
(* SRV lookup falls back on the node name itself.                          *)
apply_answer(w, l, a) ==
    LET judged == [w EXCEPT !.priv.secure = @ /\ (a.ad \/ request.validate)]
        failed(x) == [x EXCEPT !.priv.failed = TRUE]
    IN  CASE request.type = "DNS" -> [w EXCEPT !.priv.answered = TRUE]
          [] request.type # "DNS" /\ a.kind = "garbled" -> failed(w)
          [] request.type # "DNS" /\ a.kind = "nxdomain" ->
                IF l[2] = "SRV" THEN lookup_host(judged, 0) ELSE failed(judged)
          [] request.type # "DNS" /\ a.kind = "rcode" -> failed(judged)
          [] request.type # "DNS" /\ a.kind = "records" -> apply_record(judged, l, a.found)

(* Mutant: the report does not wait for the other lookups.                 *)
check_EveryTime(w) ==
    [w EXCEPT !.verdict = IF w.priv.failed THEN "failed" ELSE "finished"]

netresolve_backend_set_secure(w) == [w EXCEPT !.response.secure = TRUE]

(* When no lookup is under way any more the backend reports: avahi's       *)
(* judges by whether anything was found, the others by whether anything    *)
(* failed.                                                                 *)
check(w) ==
    LET vouched == IF w.priv.answered /\ w.priv.secure THEN netresolve_backend_set_secure(w) ELSE w
        success == IF library = "AVAHI" THEN w.priv.answered ELSE ~w.priv.failed
    IN  IF w.priv.pending # 0 THEN w
        ELSE [vouched EXCEPT !.verdict = IF success THEN "finished" ELSE "failed"]
-----------------------------------------------------------------------------
(* A lookup is over as soon as its callback is entered.                    *)
Answered(w, l, a) ==
    [w EXCEPT !.priv.pending = @ - 1,
              !.lookups = @ \ {l},
              !.history.tainted = @ \/ (a.kind = "records" /\ ~a.secure /\ ~a.ad)]

ubdns_callback(w, l, a) ==
    LET w1 == Answered(w, l, a)
        w2 == [w1 EXCEPT !.priv.secure = @ /\ a.secure]
    IN  CASE a.kind = "error" -> [w1 EXCEPT !.priv.failed = TRUE]
          [] a.kind = "bogus" -> check([w2 EXCEPT !.priv.failed = TRUE])
          [] OTHER            -> check(apply_answer(w2, l, a))

(* Mutant: the lookup is only counted off when there is an answer.         *)
aresdns_callback_LateCount(w, l, a) ==
    IF a.kind = "error" THEN [w EXCEPT !.lookups = @ \ {l}, !.priv.failed = TRUE]
    ELSE check(apply_answer(Answered(w, l, a), l, a))

aresdns_callback(w, l, a) ==
    IF a.kind = "error" THEN [Answered(w, l, a) EXCEPT !.priv.failed = TRUE]
    ELSE check(apply_answer(Answered(w, l, a), l, a))

(* An event of an avahi record browser.  A browser stays in place until    *)
(* the client is freed, but after a failure it has nothing more to say,    *)
(* and it reports the end of its first records once.                       *)
record_callback(w, l, e) ==
    LET failed == [w EXCEPT !.verdict = "failed"]
    IN  CASE e = "unexpected"      -> w
          [] e = "new"             -> check(apply_record(w, l, 1))
          [] e = "all_for_now"     -> check([w EXCEPT !.priv.pending = @ - 1, !.lookups = @ \ {l}])
          [] e = "cache_exhausted" -> check(w)
          [] e = "failure"         -> check([failed EXCEPT !.history.dead = @ \cup {l}])
          [] e = "other"           -> failed

(* The answer of the avahi address resolver.  The name that was found does *)
(* not count as an answer.                                                 *)
address_callback(w, l, e) ==
    LET w1 == [w EXCEPT !.priv.pending = @ - 1, !.lookups = @ \ {l}]
    IN  CASE e = "found"   -> check(w1)
          [] e = "failure" -> check([w1 EXCEPT !.verdict = "failed"])
          [] e = "other"   -> [w1 EXCEPT !.verdict = "failed"]

(* The SRV targets are released first; ares_destroy then calls back for    *)
(* every lookup under way, and the callback goes through the target.       *)
cleanup(w) ==
    [w EXCEPT !.watching = {},
              !.lookups = {},
              !.fault = IF @ = "none" /\ library = "ARES" /\ \E l \in w.lookups : l[1] # 0 THEN "freed_srv" ELSE @]

Apply(w) ==
    /\ fault = "none"
    /\ priv' = w.priv /\ lookups' = w.lookups /\ watching' = w.watching
    /\ response' = w.response /\ verdict' = w.verdict /\ history' = w.history
    /\ fault' = w.fault
    /\ UNCHANGED request

(* Back in the query: a report leads to the cleanup of the backend.        *)
Returned(w) ==
    /\ phase' = IF w.verdict = "none" THEN "waiting" ELSE "over"
    /\ Apply(IF w.verdict = "none" THEN w ELSE cleanup(w))

(* The descriptors of c-ares: those it reads from, all it has while there  *)
(* are lookups, and those it wants to write to, which are TCP ones.        *)
ares_fds(w) ==
    {fds \in [reads : SUBSET {"udp", "tcp"}, writes : SUBSET {"tcp"}] :
        /\ fds.writes \subseteq fds.reads
        /\ fds.reads = {} <=> library # "ARES" \/ w.lookups = {}}

(* One watch for reading and one for writing.  The loop accepts only one   *)
(* for each descriptor: epoll.c aborts and an assertion of select.c fails. *)
watch_file_descriptors(w, fds) ==
    [w EXCEPT !.watching = @ \cup (fds.reads \X {"POLLIN"}) \cup (fds.writes \X {"POLLOUT"}),
              !.fault = IF fds.reads \cap fds.writes # {} THEN "watched_twice" ELSE @]

unwatch_file_descriptors(w) ==
    [w EXCEPT !.watching = {x \in @ : <<x[1], "POLLIN">> \notin w.watching}]

(* setup, which may fail.  The descriptor of libunbound is watched all the *)
(* time, avahi looks after its own watches.                                *)
setup(ok) ==
    [World EXCEPT !.priv.secure = request.trust \/ request.validate,
                  !.watching = IF ok /\ library # "ARES" THEN {<<"library", "POLLIN">>} ELSE {},
                  !.verdict = IF ok THEN "none" ELSE "failed"]

(* The first lookups have been made.  A query for no name, or no address,  *)
(* fails like setup.                                                       *)
Started(ok, w) ==
    IF ok THEN \E fds \in ares_fds(w) : Returned(watch_file_descriptors(w, fds))
    ELSE Returned(setup(ok))

query_forward(ok) ==
    /\ phase = "idle" /\ request.type = "FORWARD"
    /\ Started(ok, IF request.srv_lookup THEN lookup_dns(setup(ok), <<0, "SRV">>)
                   ELSE lookup_host(setup(ok), 0))

query_reverse(ok) ==
    /\ phase = "idle" /\ request.type = "REVERSE"
    /\ Started(ok, lookup_dns(setup(ok), <<0, "PTR">>))

query_dns(ok) ==
    /\ phase = "idle" /\ request.type = "DNS"
    /\ Started(ok, lookup_dns(setup(ok), <<0, "DNS">>))

(* A watch is dispatched and the library takes control ...                 *)
dispatch ==
    /\ phase = "waiting" /\ watching # {}
    /\ phase' = "dispatch"
    /\ Apply(IF library = "ARES" THEN unwatch_file_descriptors(World) ELSE World)

(* ... calls back ...                                                      *)
Callback(l) ==
    /\ phase = "dispatch" /\ library # "AVAHI" /\ l \in lookups
    /\ \E a \in Answer(l) :
          Apply(IF library = "ARES" THEN aresdns_callback(World, l, a) ELSE ubdns_callback(World, l, a))
    /\ UNCHANGED phase

AvahiEvent(l) ==
    /\ phase = "dispatch" /\ library = "AVAHI"
    /\ l \in history.asked \ history.dead /\ l[1] \notin request.refused
    /\ \E e \in Event(l) :
          /\ e = "all_for_now" \/ l[2] = "PTR" => l \in lookups
          /\ e = "new" => l[2] # "SRV"
          /\ e = "unexpected" => l[2] \in {"SRV", "DNS"}
          /\ Apply(IF l[2] = "PTR" THEN address_callback(World, l, e) ELSE record_callback(World, l, e))
    /\ UNCHANGED phase

(* The connection to the avahi daemon fails.                               *)
client_callback ==
    /\ phase = "dispatch" /\ library = "AVAHI"
    /\ Apply([World EXCEPT !.verdict = "failed"])
    /\ UNCHANGED phase

(* Mutant: the last line of dispatch is missing.                           *)
dispatch_end_NoCheck ==
    /\ phase = "dispatch"
    /\ \E fds \in ares_fds(World) : Returned(watch_file_descriptors(World, fds))

(* ... and returns.  In the c-ares build dispatch then checks once more.   *)
dispatch_end ==
    /\ phase = "dispatch"
    /\ \E fds \in ares_fds(World) :
          Returned(IF library = "ARES" THEN check(watch_file_descriptors(World, fds)) ELSE World)

(* A timer of the query, or the application, puts an end to it.            *)
Cancelled ==
    /\ phase = "waiting"
    /\ phase' = "over"
    /\ Apply(cleanup(World))

Init ==
    /\ request \in Request
    /\ phase = "idle"
    /\ priv = [pending |-> 0, answered |-> FALSE, failed |-> FALSE, secure |-> FALSE, srvs |-> 0]
    /\ lookups = {} /\ watching = {}
    /\ response = [paths |-> FALSE, secure |-> FALSE]
    /\ verdict = "none"
    /\ history = [asked |-> {}, dead |-> {}, tainted |-> FALSE]
    /\ fault = "none"

Next ==
    \/ \E ok \in BOOLEAN : query_forward(ok) \/ query_reverse(ok) \/ query_dns(ok)
    \/ dispatch
    \/ \E l \in Lookup : Callback(l) \/ AvahiEvent(l)
    \/ client_callback
    \/ dispatch_end
    \/ Cancelled

Spec == Init /\ [][Next]_vars
-----------------------------------------------------------------------------
(* As long as the backend has not reported, pending counts the lookups     *)
(* that the library still has to answer, through fallbacks, SRV targets,   *)
(* errors and names that are refused on the spot, and is never negative.   *)
PendingIsOutstanding ==
    /\ priv \in Private
    /\ phase \in {"waiting", "dispatch"} /\ verdict = "none" => priv.pending = Cardinality(lookups)

(* A backend that reports success has had an answer to every lookup it     *)
(* made, and has looked up every target of the SRV records it was given:   *)
(* no callback is under way that would find the query gone (check).        *)
CompleteWhenFinished ==
    verdict = "finished" =>
        /\ lookups = {}
        /\ \A srv \in 1..priv.srvs : Hosts(srv) \subseteq history.asked

(* The backend on c-ares waits for nothing only if the library refused the *)
(* name of the request itself: the query then waits for its own timer, as  *)
(* nothing checks after the first lookups.  In all other cases lookups are *)
(* under way whenever the backend waits; an error status makes the         *)
(* callback return early, and the check at the end of dispatch is what     *)
(* reports it.                                                             *)
AresNeverIdle ==
    library = "ARES" /\ phase = "waiting" => (lookups = {} <=> 0 \in request.refused)

(* The result of a forward or a reverse query is marked secure only if     *)
(* every answer it was made of was validated or carried the AD flag.       *)
SecureMeansAll ==
    response.secure /\ request.type # "DNS" /\ library # "AVAHI" => ~history.tainted
-----------------------------------------------------------------------------
(* query.c reports "Failed reply has data." as an error: a backend that    *)
(* reports failure has added no paths.                                     *)
FailedHasNoData == verdict = "failed" => ~response.paths
=============================================================================
