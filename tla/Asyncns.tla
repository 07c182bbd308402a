------------------------------- MODULE Asyncns -------------------------------
(***************************************************************************)
(* The libasyncns interface on top of netresolve, compat/asyncns.c.  The   *)
(* outstanding queries are the nodes of a circular list with a head.  Each *)
(* holds a netresolve query, whose callback marks the node as done; the    *)
(* application collects what is done, in any order, or cancels.            *)
(*                                                                         *)
(* Of a netresolve query only its end matters here (module Query has the   *)
(* rest): it is active until it is finished, and its callback is called    *)
(* then, but with mandatory backends also before.                          *)
(***************************************************************************)
EXTENDS Integers, Sequences

CONSTANTS
    Node,     \* the addresses at which an asyncns_query_t may be allocated
    queries,  \* the head of the list, asyncns->queries
    NoNode,   \* NULL
    MaxNodes  \* bound: outstanding queries

ASSUME NodeAssumption == {queries, NoNode} \cap Node = {} /\ queries # NoNode /\ MaxNodes \in Nat

VARIABLES
    list,    \* [next, previous]: the links of the head and of the nodes
    node,    \* node[q]: [query, done], the netresolve query and the mark
    open,    \* whether the asyncns_t exists
    issued   \* history: the outstanding queries in the order of their issue

asyncnsVars == <<list, node, open, issued>>

Link == Node \cup {queries, NoNode}

Links == [Node \cup {queries} -> Link]

(* A node that is not allocated has no query.                              *)
NodeRecord == [query : {"none", "active", "finished"}, done : BOOLEAN]

Unused == [query |-> "none", done |-> FALSE]

Empty == [l \in Node \cup {queries} |-> IF l = queries THEN queries ELSE NoNode]
-----------------------------------------------------------------------------
enqueue(l, q) ==
    LET last == l.previous[queries]
    IN  [next |-> [l.next EXCEPT ![q] = queries, ![last] = q],
         previous |-> [l.previous EXCEPT ![q] = last, ![queries] = q]]

(* Mutant: only the forward link is mended.                                *)
dequeue_OneWay(l, q) ==
    [next |-> [l.next EXCEPT ![l.previous[q]] = l.next[q], ![q] = NoNode],
     previous |-> [l.previous EXCEPT ![q] = NoNode]]

(* The links of the node go with its memory, which is freed at once.       *)
dequeue(l, q) ==
    [next |-> [l.next EXCEPT ![l.previous[q]] = l.next[q], ![q] = NoNode],
     previous |-> [l.previous EXCEPT ![l.next[q]] = l.previous[q], ![q] = NoNode]]

(* Where the loop over the list is at its n-th turn: at a node, or, to     *)
(* stay there, at the head again or at a loose end.                        *)
visited[n \in 1..(MaxNodes + 1)] ==
    IF n = 1 THEN list.next[queries]
    ELSE IF visited[n - 1] \in Node THEN list.next[visited[n - 1]]
    ELSE visited[n - 1]

(* The nodes that the loop comes by.                                       *)
Walk == [n \in {k \in DOMAIN visited : visited[k] \in Node} |-> visited[n]]

(* Mutant: the list is searched from its end.                              *)
asyncns_getnext_Latest ==
    LET found == {n \in DOMAIN Walk : node[Walk[n]].done}
    IN  IF found = {} THEN NoNode ELSE Walk[CHOOSE n \in found : \A k \in found : n >= k]

asyncns_getnext ==
    LET found == {n \in DOMAIN Walk : node[Walk[n]].done}
    IN  IF found = {} THEN NoNode ELSE Walk[CHOOSE n \in found : \A k \in found : n <= k]

asyncns_getnqueries == Len(Walk)
-----------------------------------------------------------------------------
(* asyncns_getaddrinfo, asyncns_getnameinfo, asyncns_res_query: the query  *)
(* may finish at once, and its callback then marks a node that is not yet  *)
(* in the list.  (If there is no query, for an address that is none, the   *)
(* node is freed again and nothing has changed.)                           *)
add_query(q, state) ==
    /\ open /\ node[q] = Unused /\ Len(issued) < MaxNodes
    /\ node' = [node EXCEPT ![q] = [query |-> state, done |-> state = "finished"]]
    /\ list' = enqueue(list, q)
    /\ issued' = Append(issued, q)
    /\ UNCHANGED open

(* The callback of some netresolve queries.                                *)
callback(n, called) == [q \in Node |-> [n[q] EXCEPT !.done = @ \/ q \in called]]

(* During a call of asyncns_wait netresolve queries finish, or have an     *)
(* early success.  With block set it returns when all are finished.        *)
asyncns_wait(block, finishing, early) ==
    /\ open
    /\ \A q \in finishing \cup early : node[q].query = "active"
    /\ block => \A q \in Node : node[q].query = "active" => q \in finishing
    /\ node' = callback([q \in Node |-> IF q \in finishing THEN [node[q] EXCEPT !.query = "finished"]
                                       ELSE node[q]], finishing \cup early)
    /\ UNCHANGED <<list, open, issued>>

(* The outstanding queries without q.                                      *)
Position(q) == CHOOSE i \in DOMAIN issued : issued[i] = q

Without(q) == SubSeq(issued, 1, Position(q) - 1) \o SubSeq(issued, Position(q) + 1, Len(issued))

(* Mutant: the netresolve query is left alone.                             *)
Release_KeepsQuery(q) ==
    /\ node' = [node EXCEPT ![q].done = FALSE]
    /\ list' = dequeue(list, q)
    /\ issued' = Without(q)
    /\ UNCHANGED open

(* What asyncns_cancel and the functions that collect a result have in     *)
(* common: the netresolve query is freed, the node leaves the list and is  *)
(* freed.                                                                  *)
Release(q) ==
    /\ node' = [node EXCEPT ![q] = Unused]
    /\ list' = dequeue(list, q)
    /\ issued' = Without(q)
    /\ UNCHANGED open

asyncns_done(q) == open /\ node[q].done /\ Release(q)

asyncns_cancel(q) == open /\ node[q] # Unused /\ Release(q)

asyncns_new ==
    /\ ~open
    /\ open' = TRUE
    /\ list' = [next |-> Empty, previous |-> Empty]
    /\ UNCHANGED <<node, issued>>

(* Everything in the list is cancelled; netresolve_context_free would free *)
(* the netresolve queries of nodes that are not, but not the nodes.        *)
asyncns_free ==
    /\ open
    /\ open' = FALSE
    /\ node' = [q \in Node |-> IF \E n \in DOMAIN Walk : Walk[n] = q THEN Unused ELSE [node[q] EXCEPT !.query = "none"]]
    /\ list' = [next |-> Empty, previous |-> Empty]
    /\ issued' = <<>>

AsyncnsInit ==
    /\ list = [next |-> Empty, previous |-> Empty]
    /\ node = [q \in Node |-> Unused]
    /\ open = FALSE
    /\ issued = <<>>

AsyncnsNext ==
    \/ asyncns_new
    \/ asyncns_free
    \/ \E q \in Node :
          \/ \E state \in {"active", "finished"} : add_query(q, state)
          \/ asyncns_done(q)
          \/ asyncns_cancel(q)
    \/ \E block \in BOOLEAN, finishing, early \in SUBSET Node : asyncns_wait(block, finishing, early)

AsyncnsSpec == AsyncnsInit /\ [][AsyncnsNext]_asyncnsVars
-----------------------------------------------------------------------------
Outstanding == {issued[i] : i \in DOMAIN issued}

(* The links, forwards as well as backwards, are those of a circular list  *)
(* of the outstanding queries in the order of their issue, whatever the    *)
(* order in which they leave (enqueue and dequeue); so the number that     *)
(* asyncns_getnqueries reports is theirs.                                  *)
ListIsQueue ==
    /\ list \in [next : Links, previous : Links]
    /\ Walk = issued
    /\ asyncns_getnqueries = Len(issued)
    /\ open => \A l \in Outstanding \cup {queries} : list.previous[list.next[l]] = l

(* asyncns_getnext hands out the query that was issued first among those   *)
(* that are done, and NULL only if no outstanding query has finished, even *)
(* if it did so before asyncns_getaddrinfo returned.                       *)
OldestFirst ==
    LET finished == {i \in DOMAIN issued : node[issued[i]].query = "finished"}
        ready == {i \in DOMAIN issued : node[issued[i]].done}
    IN  /\ finished \subseteq ready
        /\ IF ready = {} THEN asyncns_getnext = NoNode
           ELSE \E i \in ready : asyncns_getnext = issued[i] /\ \A j \in ready : i <= j

(* A netresolve query exists exactly as long as its node is in the list:   *)
(* the callback never writes to a node that was freed, and nothing is left *)
(* over after asyncns_free.                                                *)
NoOrphans ==
    /\ node \in [Node -> NodeRecord]
    /\ \A q \in Node : /\ node[q].query # "none" <=> q \in Outstanding
                       /\ ~open => node[q] = Unused
=============================================================================
