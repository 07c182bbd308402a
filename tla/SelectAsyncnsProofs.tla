---------------------------- MODULE SelectAsyncnsProofs ----------------------------
(***************************************************************************)
(* The two small pieces of code that a program waits in.  The select loop, *)
(* for any number of descriptors and watches: nfds is tight, and only the  *)
(* events whose watch was removed before their turn go astray, whatever    *)
(* else callbacks do.  And the queries of the libasyncns interface,        *)
(* for any number of them: the links are those of a queue, the oldest      *)
(* query that is done is handed out, and no query outlives its node.       *)
(***************************************************************************)
EXTENDS SelectLoop, Asyncns, WellFoundedInduction, TLAPS

(* A non-empty set of natural numbers has a least element.                 *)
LEMMA LeastNat ==
    ASSUME NEW T \in SUBSET Nat, T # {}
    PROVE  \E i \in T : \A j \in T : i <= j
<1> DEFINE R == {ss \in Nat \X Nat : ss[1] < ss[2]}
<1>1. IsWellFoundedOn(R, Nat)
  BY NatLessThanWellFounded, Zenon DEF OpToRel
<1>2. PICK i \in T : \A j \in T : ~(<<j, i>> \in R)
  <2> HIDE DEF R
  <2> QED  BY <1>1, WFMin, Zenon
<1>3. ASSUME NEW j \in T PROVE i <= j
  <2>1. ~(<<j, i>>[1] < <<j, i>>[2])
    BY <1>2, Zenon
  <2> QED  BY <2>1
<1> QED  BY <1>3

(* The first descriptor of a batch is a member of it.                      *)
LEMMA MinFacts ==
    ASSUME NEW S \in SUBSET Fd, S # {}
    PROVE  Min(S) \in S
<1>1. S \in SUBSET Nat
  BY SelectAssumption DEF Fd
<1>2. \E i \in S : \A j \in S : i <= j
  BY <1>1, LeastNat
<1> QED  BY <1>2 DEF Min

(* A non-empty set of descriptors has a highest one, and Top is one more.  *)
LEMMA TopFacts ==
    ASSUME NEW S \in SUBSET Fd
    PROVE  /\ Top(S) \in Nat
           /\ \A x \in S : x < Top(S)
           /\ S # {} => Top(S) - 1 \in S
<1>1. CASE S = {}
  BY <1>1 DEF Top
<1>2. CASE S # {}
  <2> DEFINE T == {NFds - x : x \in S}
  <2>1. T \in SUBSET Nat /\ T # {}
    <3>1. \A x \in S : NFds - x \in Nat
      BY SelectAssumption DEF Fd
    <3> QED  BY <1>2, <3>1
  <2>2. PICK i \in T : \A j \in T : i <= j
    <3> HIDE DEF T
    <3> QED  BY <2>1, LeastNat
  <2>3. PICK m \in S : i = NFds - m
    OBVIOUS
  <2>4. \A y \in S : m >= y
    <3> TAKE y \in S
    <3>1. NFds - y \in T
      OBVIOUS
    <3>2. NFds - m <= NFds - y
      BY <2>2, <2>3, <3>1
    <3> QED  BY <3>2, SelectAssumption DEF Fd
  <2>5. \E x \in S : \A y \in S : x >= y
    BY <2>4
  <2>6. Max(S) \in S /\ \A y \in S : Max(S) >= y
    BY <2>5 DEF Max
  <2>7. Top(S) = Max(S) + 1
    BY <1>2 DEF Top
  <2> QED  BY <2>6, <2>7, SelectAssumption DEF Fd
<1> QED  BY <1>1, <1>2

(* Top is characterised by these facts.                                    *)
LEMMA TopUnique ==
    ASSUME NEW S \in SUBSET Fd, NEW n \in Nat,
           \A x \in S : x < n, S # {} => n - 1 \in S, S = {} => n = 0
    PROVE  n = Top(S)
<1>1. CASE S = {}
  BY <1>1 DEF Top
<1>2. CASE S # {}
  <2>1. Top(S) \in Nat /\ Top(S) - 1 \in S /\ \A x \in S : x < Top(S)
    BY <1>2, TopFacts
  <2>2. n - 1 < Top(S) /\ Top(S) - 1 < n
    BY <1>2, <2>1
  <2> QED  BY <2>1, <2>2
<1> QED  BY <1>1, <1>2
-----------------------------------------------------------------------------
(* The empty function has an empty domain, ...                             *)
LEMMA EmptyBatch == DOMAIN <<>> = {}
OBVIOUS

(* ... and it is the only one.                                             *)
LEMMA NoBatch ==
    ASSUME NEW f, f = [x \in DOMAIN f |-> f[x]]
    PROVE  f = <<>> <=> DOMAIN f = {}
OBVIOUS

(* The shapes of the variables.                                            *)
Typed ==
    /\ Watched \in SUBSET Fd /\ fds \in [Watched -> Event]
    /\ gen \in [Fd -> 0..MaxGen]
    /\ \A x \in Watched : gen[x] # 0
    /\ DOMAIN batch \in SUBSET Fd /\ batch = [x \in DOMAIN batch |-> batch[x]]
    /\ running = <<>> \/ running \in Fd \X (1..MaxGen)

Sound == Typed /\ NfdsIsTight

(* The initial state.                                                      *)
LEMMA InitSound == Init => Sound
<1> SUFFICES ASSUME Init PROVE Sound
  OBVIOUS
<1>1. fds = <<>> /\ batch = <<>> /\ Watched = {} /\ DOMAIN batch = {}
  BY DEF Init, Watched
<1>2. Typed
  BY <1>1, SelectAssumption DEF Init, Typed, Watched
<1>3. NfdsIsTight
  BY <1>1 DEF Init, NfdsIsTight, Top
<1> QED  BY <1>2, <1>3 DEF Sound

(* A second watch of a descriptor changes nothing but the assertion.       *)
LEMMA SecondWatch ==
    ASSUME NEW fd \in Fd, NEW e \in Event, add_watch(fd, e), fd \in Watched
    PROVE  UNCHANGED <<fds, nfds, gen, batch, events, running, stale>>
BY DEF add_watch

(* What a new watch changes.                                               *)
LEMMA NewWatch ==
    ASSUME NEW fd \in Fd, NEW e \in Event, add_watch(fd, e), fd \notin Watched
    PROVE  /\ fds' = [x \in Watched \cup {fd} |-> IF x = fd THEN e ELSE fds[x]]
           /\ nfds' = IF fd >= nfds THEN fd + 1 ELSE nfds
           /\ gen' = [gen EXCEPT ![fd] = @ + 1] /\ gen[fd] < MaxGen
           /\ UNCHANGED <<batch, events, running, stale>>
BY DEF add_watch

(* Adding a watch raises nfds if need be.                                  *)
LEMMA AddSound ==
    ASSUME Sound, NEW fd \in Fd, NEW e \in Event, add_watch(fd, e), fd \notin Watched
    PROVE  Sound'
<1> USE DEF Sound
<1>0. /\ fds' = [x \in Watched \cup {fd} |-> IF x = fd THEN e ELSE fds[x]]
      /\ nfds' = IF fd >= nfds THEN fd + 1 ELSE nfds
      /\ gen' = [gen EXCEPT ![fd] = @ + 1] /\ gen[fd] < MaxGen
      /\ UNCHANGED <<batch, running>>
  BY NewWatch
<1>1. Watched' = Watched \cup {fd}
  BY <1>0 DEF Watched
<1>2. Typed'
  BY <1>0, <1>1, SelectAssumption DEF Typed, Watched
<1>3. nfds \in Nat /\ (\A x \in Watched : x < nfds) /\ (Watched # {} => nfds - 1 \in Watched)
      /\ (Watched = {} => nfds = 0)
  BY TopFacts DEF Typed, NfdsIsTight, Top
<1>4. fd \in Nat /\ fd + 1 - 1 = fd
  BY SelectAssumption DEF Fd
<1>5. nfds' \in Nat /\ (\A x \in Watched' : x < nfds') /\ nfds' - 1 \in Watched'
  <2>1. CASE fd >= nfds
    <3>1. nfds' = fd + 1
      BY <1>0, <2>1
    <3>2. \A x \in Watched : x \in Nat
      BY SelectAssumption DEF Typed, Fd
    <3> QED  BY <1>1, <1>3, <1>4, <2>1, <3>1, <3>2
  <2>2. CASE ~(fd >= nfds)
    <3>1. nfds' = nfds
      BY <1>0, <2>2
    <3> QED  BY <1>1, <1>3, <1>4, <2>2, <3>1
  <2> QED  BY <2>1, <2>2
<1>6. Watched' \in SUBSET Fd
  BY <1>2 DEF Typed
<1>7. nfds' = Top(Watched')
  BY <1>1, <1>5, <1>6, TopUnique
<1> QED  BY <1>2, <1>7 DEF NfdsIsTight

(* Removing one lowers it, over gaps too.                                  *)
LEMMA RemoveSound ==
    ASSUME Sound, NEW fd \in Fd, remove_watch(fd)
    PROVE  Sound'
<1> USE DEF Sound
<1>1. Watched' = Watched \ {fd}
  BY DEF remove_watch, Watched, Restricted
<1>2. Typed'
  BY <1>1, SelectAssumption DEF Typed, remove_watch, Watched, Restricted
<1>3. \A x \in Watched : x < nfds
  BY TopFacts DEF Typed, NfdsIsTight
<1>4. {x \in Watched \ {fd} : x < nfds} = Watched'
  BY <1>1, <1>3
<1>5. nfds' = Top(Watched')
  BY <1>4, Zenon DEF remove_watch
<1> QED  BY <1>2, <1>5 DEF NfdsIsTight

(* The other steps leave watches and nfds alone.                           *)
LEMMA OtherSound ==
    ASSUME Sound, UNCHANGED <<fds, nfds, gen>>,
           DOMAIN batch' \in SUBSET Fd, batch' = [x \in DOMAIN batch' |-> batch'[x]],
           running' = <<>> \/ running' \in Fd \X (1..MaxGen)
    PROVE  Sound'
BY DEF Sound, Typed, NfdsIsTight, Watched, Top

(* Waiting fills the batch and changes nothing else.                       *)
LEMMA WaitSound ==
    ASSUME Sound, NEW failed \in BOOLEAN, select_wait(failed)
    PROVE  Sound'
<1> DEFINE S == {x \in Watched : x < nfds /\ (failed \/ x \in ready)}
<1>1. batch' = [x \in S |-> gen[x]] /\ UNCHANGED <<fds, nfds, gen, running>>
  BY DEF select_wait
<1>2. S \in SUBSET Fd /\ (running = <<>> \/ running \in Fd \X (1..MaxGen))
  BY DEF Sound, Typed
<1>3. DOMAIN batch' \in SUBSET Fd /\ batch' = [x \in DOMAIN batch' |-> batch'[x]]
  <2> HIDE DEF S
  <2> QED  BY <1>1, <1>2
<1> QED  BY <1>1, <1>2, <1>3, OtherSound

(* A dispatch shortens the batch, and calls a watch or fails an assertion. *)
LEMMA DispatchSound ==
    ASSUME Sound, select_dispatch
    PROVE  Sound'
<1> DEFINE fd == Min(DOMAIN batch)
<1>1. DOMAIN batch # {} /\ DOMAIN batch \in SUBSET Fd
  BY NoBatch, Zenon DEF Sound, Typed, select_dispatch
<1>2. fd \in DOMAIN batch
  BY <1>1, MinFacts
<1>3. /\ batch' = [x \in DOMAIN batch \ {fd} |-> batch[x]]
      /\ UNCHANGED <<fds, nfds, gen>>
      /\ \/ running' = running
         \/ fd \in Watched /\ running' = <<fd, gen[fd]>>
  BY Zenon DEF select_dispatch, Restricted
<1>4. DOMAIN batch' \in SUBSET Fd /\ batch' = [x \in DOMAIN batch' |-> batch'[x]]
  <2> HIDE DEF fd
  <2> QED  BY <1>1, <1>3
<1>5. running' = <<>> \/ running' \in Fd \X (1..MaxGen)
  <2> HIDE DEF fd
  <2>1. fd \in Watched => gen[fd] \in 1..MaxGen
    BY SelectAssumption DEF Sound, Typed
  <2> QED  BY <1>1, <1>2, <1>3, <2>1 DEF Sound, Typed
<1> QED  BY <1>3, <1>4, <1>5, OtherSound

(* Sound is inductive.                                                     *)
LEMMA NextSound == Sound /\ [Next]_vars => Sound'
<1> SUFFICES ASSUME Sound, [Next]_vars PROVE Sound'
  OBVIOUS
<1>1. ASSUME NEW fd \in Fd, remove_watch(fd) PROVE Sound'
  BY <1>1, RemoveSound
<1>2. ASSUME NEW fd \in Fd, Ready(fd) PROVE Sound'
  BY <1>2, OtherSound DEF Ready, Sound, Typed
<1>3. ASSUME NEW fd \in Fd, NEW e \in Event, add_watch(fd, e) PROVE Sound'
  <2>1. CASE fd \in Watched
    <3>1. UNCHANGED <<fds, nfds, gen, batch, running>>
      BY <1>3, <2>1, SecondWatch
    <3> QED  BY <3>1, OtherSound DEF Sound, Typed
  <2>2. CASE fd \notin Watched
    BY <1>3, <2>2, AddSound
  <2> QED  BY <2>1, <2>2
<1>4. ASSUME NEW b \in BOOLEAN, select_wait(b) PROVE Sound'
  BY <1>4, WaitSound
<1>5. ASSUME NEW b \in BOOLEAN, Return(b) PROVE Sound'
  BY <1>5, OtherSound DEF Return, Sound, Typed
<1>6. CASE select_dispatch
  BY <1>6, DispatchSound
<1>7. CASE UNCHANGED vars
  BY <1>7, OtherSound DEF vars, Sound, Typed
<1> QED  BY <1>1, <1>2, <1>3, <1>4, <1>5, <1>6, <1>7 DEF Next

(* nfds is one more than the highest descriptor watched, for any number of *)
(* descriptors, in whichever order add_watch and remove_watch are called.  *)
THEOREM Tight == Spec => []NfdsIsTight
<1>1. Sound => NfdsIsTight
  BY DEF Sound
<1> QED  BY <1>1, InitSound, NextSound, PTL DEF Spec
-----------------------------------------------------------------------------
(* An event of the batch is one of a watch that exists, for the event it   *)
(* waits for, or its watch was removed; in that case the number has no     *)
(* watch now, or one that was added later.                                 *)
Kept ==
    /\ \A x \in DOMAIN batch : batch[x] \in 0..MaxGen
    /\ stale \in SUBSET DOMAIN batch
    /\ \A x \in DOMAIN batch \ stale : x \in Watched /\ batch[x] = gen[x] /\ events[x] = fds[x]
    /\ \A x \in stale : batch[x] <= gen[x] /\ (x \in Watched => batch[x] < gen[x])

IndInv == Sound /\ Kept

(* At the start nothing is batched.                                        *)
LEMMA InitKept == Init => Kept
<1> SUFFICES ASSUME Init PROVE Kept
  OBVIOUS
<1>1. DOMAIN batch = {}
  BY DEF Init
<1> QED  BY <1>1 DEF Init, Kept

(* A watch that is added for the number of an event is later than the one  *)
(* of the event.                                                           *)
LEMMA AddKept ==
    ASSUME IndInv, NEW fd \in Fd, NEW e \in Event, add_watch(fd, e), fd \notin Watched
    PROVE  Kept'
<1>1. /\ Watched' = Watched \cup {fd} /\ (\A x \in Watched : fds'[x] = fds[x])
      /\ UNCHANGED <<batch, events, stale>>
  BY NewWatch DEF Watched
<1>2. gen \in [Fd -> 0..MaxGen] /\ DOMAIN batch \in SUBSET Fd
  BY DEF IndInv, Sound, Typed
<1>3. gen'[fd] = gen[fd] + 1 /\ \A x \in Fd \ {fd} : gen'[x] = gen[x]
  BY <1>2, NewWatch
<1>4. fd \notin DOMAIN batch \ stale
  BY DEF IndInv, Kept
<1>5. \A x \in stale : batch[x] <= gen'[x] /\ (x \in Watched' => batch[x] < gen'[x])
  <2> SUFFICES ASSUME NEW x \in stale
               PROVE  batch[x] <= gen'[x] /\ (x \in Watched' => batch[x] < gen'[x])
    OBVIOUS
  <2>1. x \in Fd /\ batch[x] \in 0..MaxGen /\ gen[x] \in 0..MaxGen /\ batch[x] <= gen[x]
        /\ (x \in Watched => batch[x] < gen[x])
    BY <1>2 DEF IndInv, Kept
  <2> QED  BY <1>1, <1>3, <2>1, SelectAssumption
<1>6. \A x \in DOMAIN batch \ stale : x \in Watched' /\ batch[x] = gen'[x] /\ events[x] = fds'[x]
  BY <1>1, <1>2, <1>3, <1>4 DEF IndInv, Kept
<1> QED  BY <1>1, <1>5, <1>6 DEF IndInv, Kept

(* The event of a watch that is removed becomes stale.                     *)
LEMMA RemoveKept ==
    ASSUME IndInv, NEW fd \in Fd, remove_watch(fd)
    PROVE  Kept'
<1>1. /\ Watched' = Watched \ {fd} /\ (\A x \in Watched' : fds'[x] = fds[x])
      /\ stale' = stale \cup {x \in DOMAIN batch : x = fd /\ batch[x] = gen[x]}
      /\ UNCHANGED <<gen, batch, events>>
  BY DEF remove_watch, Watched, Restricted
<1>2. \A x \in DOMAIN batch \ stale' : x \in Watched' /\ batch[x] = gen[x] /\ events[x] = fds'[x]
  BY <1>1 DEF IndInv, Kept
<1>3. \A x \in stale' : batch[x] <= gen[x] /\ (x \in Watched' => batch[x] < gen[x])
  <2> SUFFICES ASSUME NEW x \in stale'
               PROVE  batch[x] <= gen[x] /\ (x \in Watched' => batch[x] < gen[x])
    OBVIOUS
  <2>1. CASE x \in stale
    BY <1>1, <2>1 DEF IndInv, Kept
  <2>2. CASE x \notin stale
    <3>1. x = fd /\ x \in DOMAIN batch /\ batch[x] = gen[x] /\ batch[x] \in 0..MaxGen
      BY <1>1, <2>2 DEF IndInv, Kept
    <3> QED  BY <1>1, <3>1, SelectAssumption
  <2> QED  BY <2>1, <2>2
<1> QED  BY <1>1, <1>2, <1>3 DEF IndInv, Kept

(* A batch holds watches of its moment, after a failed select() all of     *)
(* them.                                                                   *)
LEMMA WaitKept ==
    ASSUME IndInv, NEW failed \in BOOLEAN, select_wait(failed)
    PROVE  Kept'
<1> DEFINE S == {x \in Watched : x < nfds /\ (failed \/ x \in ready)}
<1>1. /\ batch' = [x \in S |-> gen[x]] /\ events' = [x \in S |-> fds[x]]
      /\ stale' = {} /\ UNCHANGED <<fds, gen>>
  BY DEF select_wait, Restricted
<1>2. S \subseteq Watched /\ \A x \in Watched : gen[x] \in 0..MaxGen
  BY DEF IndInv, Sound, Typed
<1> HIDE DEF S
<1> QED  BY <1>1, <1>2 DEF Kept, Watched

(* The event that is dispatched, and what a dispatch does.                 *)
LEMMA DispatchFacts ==
    ASSUME IndInv, select_dispatch
    PROVE  LET fd == Min(DOMAIN batch)
           IN  /\ fd \in DOMAIN batch
               /\ batch' = [x \in DOMAIN batch \ {fd} |-> batch[x]]
               /\ events' = [x \in DOMAIN batch \ {fd} |-> events[x]]
               /\ stale' = stale \ {fd} /\ Alive
               /\ UNCHANGED <<fds, nfds, gen>>
               /\ IF fd < nfds /\ fd \in Watched /\ fds[fd] = events[fd]
                  THEN running' = <<fd, gen[fd]>> /\ UNCHANGED assertion
                  ELSE assertion' = "dispatch"
<1> DEFINE fd == Min(DOMAIN batch)
<1>1. DOMAIN batch # {} /\ DOMAIN batch \in SUBSET Fd
  BY NoBatch, Zenon DEF IndInv, Sound, Typed, select_dispatch
<1>2. fd \in DOMAIN batch
  BY <1>1, MinFacts
<1> QED  BY <1>2, Zenon DEF select_dispatch, Restricted

(* A dispatched event leaves the batch, the others stay.                   *)
LEMMA DispatchKept ==
    ASSUME IndInv, select_dispatch
    PROVE  Kept'
<1> DEFINE fd == Min(DOMAIN batch)
<1>1. /\ batch' = [x \in DOMAIN batch \ {fd} |-> batch[x]]
      /\ events' = [x \in DOMAIN batch \ {fd} |-> events[x]]
      /\ stale' = stale \ {fd} /\ UNCHANGED <<fds, gen>>
  BY DispatchFacts, Zenon
<1> HIDE DEF fd
<1> QED  BY <1>1 DEF IndInv, Kept, Watched

(* IndInv is inductive.                                                    *)
LEMMA NextKept == IndInv /\ [Next]_vars => IndInv'
<1> SUFFICES ASSUME IndInv, [Next]_vars PROVE Kept'
  BY NextSound DEF IndInv
<1>1. ASSUME NEW fd \in Fd, remove_watch(fd) PROVE Kept'
  BY <1>1, RemoveKept
<1>2. ASSUME NEW fd \in Fd, Ready(fd) PROVE Kept'
  BY <1>2 DEF Ready, IndInv, Kept, Watched
<1>3. ASSUME NEW fd \in Fd, NEW e \in Event, add_watch(fd, e) PROVE Kept'
  <2>1. CASE fd \in Watched
    <3>1. UNCHANGED <<fds, gen, batch, events, stale>>
      BY <1>3, <2>1, SecondWatch
    <3> QED  BY <3>1 DEF IndInv, Kept, Watched
  <2>2. CASE fd \notin Watched
    BY <1>3, <2>2, AddKept
  <2> QED  BY <2>1, <2>2
<1>4. ASSUME NEW b \in BOOLEAN, select_wait(b) PROVE Kept'
  BY <1>4, WaitKept
<1>5. ASSUME NEW b \in BOOLEAN, Return(b) PROVE Kept'
  BY <1>5 DEF Return, IndInv, Kept, Watched
<1>6. CASE select_dispatch
  BY <1>6, DispatchKept
<1>7. CASE UNCHANGED vars
  BY <1>7 DEF vars, IndInv, Kept, Watched
<1> QED  BY <1>1, <1>2, <1>3, <1>4, <1>5, <1>6, <1>7 DEF Next

(* What a step does to the next event of the batch.                        *)
Home ==
    batch' # batch /\ batch # <<>> =>
        LET fd == Min(DOMAIN batch)
        IN  IF fd \in stale
            THEN assertion' = "dispatch" \/ (running'[1] = fd /\ running'[2] # batch[fd])
            ELSE Alive' /\ running' = <<fd, batch[fd]>>

(* A dispatch calls the watch that was reported unless it is stale.        *)
LEMMA DispatchHome ==
    ASSUME IndInv, select_dispatch
    PROVE  Home
<1> DEFINE fd == Min(DOMAIN batch)
<1>1. /\ fd \in DOMAIN batch /\ Alive
      /\ IF fd < nfds /\ fd \in Watched /\ fds[fd] = events[fd]
         THEN running' = <<fd, gen[fd]>> /\ UNCHANGED assertion
         ELSE assertion' = "dispatch"
  BY DispatchFacts, Zenon
<1>2. IF fd \in stale
      THEN assertion' = "dispatch" \/ (running'[1] = fd /\ running'[2] # batch[fd])
      ELSE Alive' /\ running' = <<fd, batch[fd]>>
  <2> HIDE DEF fd
  <2>1. CASE fd \in stale
    <3>1. fd \in Watched => batch[fd] # gen[fd]
      <4>1. batch[fd] \in 0..MaxGen /\ gen[fd] \in 0..MaxGen /\ (fd \in Watched => batch[fd] < gen[fd])
        BY <1>1, <2>1 DEF IndInv, Kept, Sound, Typed
      <4> QED  BY <4>1, SelectAssumption
    <3>2. <<fd, gen[fd]>>[1] = fd /\ <<fd, gen[fd]>>[2] = gen[fd]
      OBVIOUS
    <3> QED  BY <1>1, <2>1, <3>1, <3>2
  <2>2. CASE fd \notin stale
    <3>1. fd \in Watched /\ batch[fd] = gen[fd] /\ events[fd] = fds[fd]
      BY <1>1, <2>2 DEF IndInv, Kept
    <3>2. fd < nfds
      BY <3>1, TopFacts DEF IndInv, Sound, Typed, NfdsIsTight
    <3> QED  BY <1>1, <2>2, <3>1, <3>2 DEF Alive
  <2> QED  BY <2>1, <2>2
<1> QED  BY <1>2, Zenon DEF Home

(* Only a dispatch takes an event from a batch, so Home holds of all steps.*)
LEMMA NextHome == IndInv /\ [Next]_vars => Home
<1> SUFFICES ASSUME IndInv, [Next]_vars PROVE Home
  OBVIOUS
<1>1. ASSUME batch' = batch PROVE Home
  BY <1>1, Zenon DEF Home
<1>2. ASSUME batch = <<>> PROVE Home
  BY <1>2, Zenon DEF Home
<1>3. ASSUME NEW fd \in Fd, remove_watch(fd) PROVE Home
  BY <1>1, <1>3 DEF remove_watch
<1>4. ASSUME NEW fd \in Fd, Ready(fd) PROVE Home
  BY <1>1, <1>4 DEF Ready
<1>5. ASSUME NEW fd \in Fd, NEW e \in Event, add_watch(fd, e) PROVE Home
  BY <1>1, <1>5 DEF add_watch
<1>6. ASSUME NEW b \in BOOLEAN, select_wait(b) PROVE Home
  BY <1>2, <1>6 DEF select_wait, InCode
<1>7. ASSUME NEW b \in BOOLEAN, Return(b) PROVE Home
  BY <1>1, <1>7 DEF Return
<1>8. CASE select_dispatch
  BY <1>8, DispatchHome
<1>9. CASE UNCHANGED vars
  BY <1>1, <1>9 DEF vars
<1> QED  BY <1>3, <1>4, <1>5, <1>6, <1>7, <1>8, <1>9, Zenon DEF Next

(* Whatever callbacks do to other watches, to their numbers and to nfds,   *)
(* an event whose watch is still there reaches it without a failed         *)
(* assertion; one whose watch was removed fails an assertion of select.c   *)
(* or hits another watch, for any number of descriptors, and whether or    *)
(* not select() succeeded.                                                 *)
THEOREM Delivery == Spec => EventsGoHome
<1>1. Init => IndInv
  BY InitSound, InitKept DEF IndInv
<1>2. IndInv /\ [Next]_vars => IndInv'
  BY NextKept
<1>3. IndInv /\ [Next]_vars => [Home]_vars
  BY NextHome
<1>4. Spec => [][Home]_vars
  BY <1>1, <1>2, <1>3, PTL DEF Spec
<1> QED  BY <1>4 DEF EventsGoHome, Home
-----------------------------------------------------------------------------
Lists == [next : Links, previous : Links]

(* The queue as a ring: the head, the nodes of s, and the head again.      *)
Ring(s, i) == IF i \in 1..Len(s) THEN s[i] ELSE queries

(* The links of l lead from each place of the ring to the next and back.   *)
IsRing(l, s) ==
    \A i \in 0..Len(s) : /\ l.next[Ring(s, i)] = Ring(s, i + 1)
                         /\ l.previous[Ring(s, i + 1)] = Ring(s, i)

Distinct(s) == \A i, j \in 1..Len(s) : s[i] = s[j] => i = j

(* What the links cannot tell by themselves: the nodes in the queue are    *)
(* different ones, they are the ones with a query, and a query that has    *)
(* finished has marked its node.                                           *)
QueueInv ==
    /\ list \in Lists /\ open \in BOOLEAN
    /\ issued \in Seq(Node) /\ Distinct(issued) /\ Len(issued) <= MaxNodes
    /\ IsRing(list, issued)
    /\ node \in [Node -> NodeRecord]
    /\ \A q \in Node : node[q].query # "none" <=> \E i \in 1..Len(issued) : issued[i] = q
    /\ \A q \in Node : node[q].query = "none" => node[q] = Unused
    /\ \A q \in Node : node[q].query = "finished" => node[q].done
    /\ ~open => issued = <<>>

(* The places of the ring are those of the list: at its two ends the head, *)
(* in between the nodes, each once.                                        *)
LEMMA RingFacts ==
    ASSUME NEW s \in Seq(Node), Distinct(s)
    PROVE  /\ Len(s) \in Nat
           /\ Ring(s, 0) = queries /\ Ring(s, Len(s) + 1) = queries
           /\ \A i \in 1..Len(s) : Ring(s, i) = s[i] /\ Ring(s, i) \in Node
           /\ \A i \in Int : Ring(s, i) \in Node \cup {queries}
           /\ \A i, j \in 0..Len(s) : Ring(s, i) = Ring(s, j) => i = j
           /\ \A i, j \in 1..(Len(s) + 1) : Ring(s, i) = Ring(s, j) => i = j
<1>1. Len(s) \in Nat /\ \A i \in 1..Len(s) : s[i] \in Node
  OBVIOUS
<1>2. queries \notin Node
  BY NodeAssumption
<1> QED  BY <1>1, <1>2 DEF Ring, Distinct

(* enqueue puts a node that is not in the list at its end.                 *)
LEMMA EnqueueRing ==
    ASSUME NEW s \in Seq(Node), Distinct(s), NEW l \in Lists, IsRing(l, s),
           NEW q \in Node, \A i \in 1..Len(s) : s[i] # q
    PROVE  /\ enqueue(l, q) \in Lists
           /\ Append(s, q) \in Seq(Node) /\ Distinct(Append(s, q))
           /\ IsRing(enqueue(l, q), Append(s, q))
<1> DEFINE m == Len(s)
           t == Append(s, q)
           last == Ring(s, m)
           next == [l.next EXCEPT ![q] = queries, ![last] = q]
           previous == [l.previous EXCEPT ![q] = last, ![queries] = q]
<1>1. m \in Nat /\ t \in Seq(Node) /\ Len(t) = m + 1 /\ t[m + 1] = q /\ \A i \in 1..m : t[i] = s[i]
  OBVIOUS
<1>2. /\ Ring(s, 0) = queries /\ Ring(s, m + 1) = queries
      /\ \A i \in 1..m : Ring(s, i) \in Node
      /\ \A i \in 0..m : Ring(s, i) \in Node \cup {queries}
      /\ \A i, j \in 0..m : Ring(s, i) = Ring(s, j) => i = j
  BY <1>1, RingFacts
<1>3. l.previous[queries] = last
  BY <1>1, <1>2 DEF IsRing
<1>4. enqueue(l, q) = [next |-> next, previous |-> previous]
  BY <1>3, Zenon DEF enqueue
<1>5. queries \notin Node
  BY NodeAssumption
<1>6. l.next \in Links /\ l.previous \in Links
  BY DEF Lists
<1>7. \A i \in 0..m : Ring(s, i) # q
  BY <1>1, <1>5 DEF Ring
<1>8. /\ \A i \in 0..m : Ring(t, i) = Ring(s, i)
      /\ Ring(t, m + 1) = q /\ Ring(t, m + 2) = queries
  BY <1>1 DEF Ring
<1>9. Distinct(t)
  BY <1>1 DEF Distinct
<1> HIDE DEF m, t, last
<1>10. last \in Node \cup {queries} /\ last # q
  BY <1>1, <1>2, <1>7 DEF last
<1>11. next \in Links /\ previous \in Links
  BY <1>6, <1>10 DEF Links, Link
<1>12. ASSUME NEW i \in 0..m, i < m PROVE next[Ring(s, i)] = Ring(s, i + 1)
  <2>1. Ring(s, i) # last /\ Ring(s, i) # q /\ Ring(s, i) \in Node \cup {queries}
    BY <1>1, <1>2, <1>7, <1>12 DEF last
  <2>2. l.next[Ring(s, i)] = Ring(s, i + 1)
    BY DEF IsRing, m
  <2> QED  BY <1>6, <2>1, <2>2 DEF Links
<1>13. next[last] = q /\ next[q] = queries
  BY <1>6, <1>10 DEF Links
<1>14. ASSUME NEW i \in 0..m, i < m PROVE previous[Ring(s, i + 1)] = Ring(s, i)
  <2>1. i + 1 \in 1..m /\ i + 1 \in 0..m
    BY <1>1, <1>14
  <2>2. Ring(s, i + 1) # queries /\ Ring(s, i + 1) # q /\ Ring(s, i + 1) \in Node
    BY <1>2, <1>5, <1>7, <2>1
  <2>3. l.previous[Ring(s, i + 1)] = Ring(s, i)
    BY DEF IsRing, m
  <2> QED  BY <1>6, <2>2, <2>3 DEF Links
<1>15. previous[q] = last /\ previous[queries] = q
  BY <1>5, <1>6 DEF Links
<1> HIDE DEF next, previous
<1>16. ASSUME NEW i \in 0..(m + 1)
       PROVE  next[Ring(t, i)] = Ring(t, i + 1) /\ previous[Ring(t, i + 1)] = Ring(t, i)
  <2>1. CASE i < m
    <3>1. i \in 0..m /\ i + 1 \in 0..m
      BY <1>1, <2>1
    <3> QED  BY <1>8, <1>12, <1>14, <2>1, <3>1
  <2>2. CASE i = m
    BY <1>1, <1>8, <1>13, <1>15, <2>2 DEF last
  <2>3. CASE i = m + 1
    <3>1. i + 1 = m + 2
      BY <1>1, <2>3
    <3> QED  BY <1>8, <1>13, <1>15, <2>3, <3>1
  <2> QED  BY <1>1, <2>1, <2>2, <2>3
<1>17. IsRing(enqueue(l, q), t)
  BY <1>1, <1>4, <1>16 DEF IsRing
<1>18. enqueue(l, q) \in Lists
  BY <1>4, <1>11 DEF Lists
<1> QED  BY <1>1, <1>9, <1>17, <1>18 DEF t

(* Two sequences one after the other.                                      *)
LEMMA ConcatFacts ==
    ASSUME NEW S, NEW a \in Seq(S), NEW b \in Seq(S)
    PROVE  /\ a \o b \in Seq(S)
           /\ Len(a \o b) = Len(a) + Len(b)
           /\ \A j \in 1..(Len(a) + Len(b)) : (a \o b)[j] = IF j <= Len(a) THEN a[j] ELSE b[j - Len(a)]
<1>1. a \o b \in Seq(S) /\ Len(a \o b) = Len(a) + Len(b)
  OBVIOUS
<1>2. ASSUME NEW j \in 1..(Len(a) + Len(b)) PROVE (a \o b)[j] = IF j <= Len(a) THEN a[j] ELSE b[j - Len(a)]
  OBVIOUS
<1> QED  BY <1>1, <1>2

(* A sequence without its k-th element.                                    *)
Removed(s, k) == SubSeq(s, 1, k - 1) \o SubSeq(s, k + 1, Len(s))

LEMMA RemoveFacts ==
    ASSUME NEW S, NEW s \in Seq(S), NEW k \in 1..Len(s)
    PROVE  /\ Removed(s, k) \in Seq(S)
           /\ Len(Removed(s, k)) = Len(s) - 1
           /\ \A j \in 1..(Len(s) - 1) : Removed(s, k)[j] = IF j < k THEN s[j] ELSE s[j + 1]
<1> DEFINE front == SubSeq(s, 1, k - 1)
           back == SubSeq(s, k + 1, Len(s))
<1>0. Len(s) \in Nat /\ k \in Nat /\ k - 1 \in Nat
  OBVIOUS
<1>1. front \in Seq(S) /\ Len(front) = k - 1 /\ \A j \in 1..(k - 1) : front[j] = s[j]
  BY <1>0
<1>2. back \in Seq(S) /\ Len(back) = Len(s) - k
      /\ \A j \in 1..(Len(s) - k) : back[j] = s[k + j]
  BY <1>0
<1> HIDE DEF front, back
<1> DEFINE t == front \o back
<1>3. /\ t \in Seq(S) /\ Len(t) = Len(front) + Len(back)
      /\ \A j \in 1..(Len(front) + Len(back)) : t[j] = IF j <= Len(front) THEN front[j] ELSE back[j - Len(front)]
  BY <1>1, <1>2, ConcatFacts, Zenon
<1>4. Removed(s, k) = t
  BY Zenon DEF Removed, front, back
<1> HIDE DEF t
<1>5. Len(t) = Len(s) - 1
  BY <1>0, <1>1, <1>2, <1>3
<1>6. ASSUME NEW j \in 1..(Len(s) - 1) PROVE t[j] = IF j < k THEN s[j] ELSE s[j + 1]
  <2>1. t[j] = IF j < k THEN front[j] ELSE back[j - (k - 1)]
    <3>1. /\ Len(front) = k - 1 /\ j \in 1..(Len(front) + Len(back))
          /\ j < k <=> j <= Len(front)
      BY <1>0, <1>1, <1>2
    <3>2. t[j] = IF j <= Len(front) THEN front[j] ELSE back[j - Len(front)]
      BY <1>3, <3>1, Zenon
    <3> QED  BY <3>1, <3>2, Zenon
  <2>2. CASE j < k
    <3>1. j \in 1..(k - 1)
      BY <1>0, <2>2
    <3> QED  BY <1>1, <2>1, <2>2, <3>1
  <2>3. CASE ~(j < k)
    <3>1. j - (k - 1) \in 1..(Len(s) - k) /\ k + (j - (k - 1)) = j + 1
      BY <1>0, <2>3
    <3> QED  BY <1>2, <2>1, <2>3, <3>1, Zenon
  <2> QED  BY <2>2, <2>3
<1> QED  BY <1>3, <1>4, <1>5, <1>6

(* dequeue closes the ring behind a node, wherever it stands.              *)
LEMMA DequeueRing ==
    ASSUME NEW s \in Seq(Node), Distinct(s), NEW l \in Lists, IsRing(l, s), NEW k \in 1..Len(s)
    PROVE  /\ dequeue(l, s[k]) \in Lists
           /\ Removed(s, k) \in Seq(Node) /\ Distinct(Removed(s, k))
           /\ IsRing(dequeue(l, s[k]), Removed(s, k))
<1> DEFINE m == Len(s)
           q == s[k]
           t == Removed(s, k)
           before == Ring(s, k - 1)
           behind == Ring(s, k + 1)
           next == [l.next EXCEPT ![before] = behind, ![q] = NoNode]
           previous == [l.previous EXCEPT ![behind] = before, ![q] = NoNode]
<1>1. /\ m \in Nat /\ t \in Seq(Node) /\ Len(t) = m - 1
      /\ \A i \in 1..(m - 1) : t[i] = IF i < k THEN s[i] ELSE s[i + 1]
  <2>1. m \in Nat
    OBVIOUS
  <2> QED  BY <2>1, RemoveFacts, Zenon
<1>2. /\ \A i \in 1..m : Ring(s, i) \in Node
      /\ \A i \in 0..(m + 1) : Ring(s, i) \in Node \cup {queries}
      /\ \A i, j \in 0..m : Ring(s, i) = Ring(s, j) => i = j
      /\ \A i, j \in 1..(m + 1) : Ring(s, i) = Ring(s, j) => i = j
      /\ Ring(s, k) = q
  BY <1>1, RingFacts
<1>3. k \in Nat /\ k - 1 \in 0..m /\ k + 1 \in 1..(m + 1) /\ k \in 0..m
  BY <1>1
<1>4. l.previous[q] = before /\ l.next[q] = behind
  <2>1. (k - 1) + 1 = k
    BY <1>3
  <2> QED  BY <1>2, <1>3, <2>1 DEF IsRing
<1>5. dequeue(l, q) = [next |-> next, previous |-> previous]
  BY <1>4, Zenon DEF dequeue
<1>6. l.next \in Links /\ l.previous \in Links
  BY DEF Lists
<1>7. \A i \in 0..m : Ring(t, i) = IF i < k THEN Ring(s, i) ELSE Ring(s, i + 1)
  BY <1>1, <1>3 DEF Ring
<1>8. Distinct(t)
  <2> SUFFICES ASSUME NEW i \in 1..(m - 1), NEW j \in 1..(m - 1), t[i] = t[j] PROVE i = j
    BY <1>1 DEF Distinct
  <2> DEFINE at(n) == IF n < k THEN n ELSE n + 1
  <2>1. at(i) \in 1..m /\ at(j) \in 1..m /\ t[i] = s[at(i)] /\ t[j] = s[at(j)]
    BY <1>1, <1>3
  <2>2. at(i) = at(j)
    <3> HIDE DEF at
    <3> QED  BY <2>1, Zenon DEF Distinct, m
  <2> QED  BY <1>3, <2>2
<1>9. /\ q \in Node
      /\ before \in Node \cup {queries} /\ behind \in Node \cup {queries}
      /\ before # q /\ behind # q
  BY <1>1, <1>2, <1>3
<1> HIDE DEF m, t, q, before, behind
<1>10. next \in Links /\ previous \in Links
  BY <1>6, <1>9 DEF Links, Link
<1>11. /\ next[before] = behind /\ previous[behind] = before
       /\ \A x \in Node \cup {queries} : x # before /\ x # q => next[x] = l.next[x]
       /\ \A x \in Node \cup {queries} : x # behind /\ x # q => previous[x] = l.previous[x]
  BY <1>6, <1>9 DEF Links
<1> HIDE DEF next, previous
<1>12. ASSUME NEW i \in 0..m, i # k - 1, i # k PROVE next[Ring(s, i)] = Ring(s, i + 1)
  <2>1. Ring(s, i) # before /\ Ring(s, i) # q /\ Ring(s, i) \in Node \cup {queries}
    BY <1>1, <1>2, <1>3, <1>12 DEF before
  <2>2. l.next[Ring(s, i)] = Ring(s, i + 1)
    BY DEF IsRing, m
  <2> QED  BY <1>11, <2>1, <2>2
<1>13. ASSUME NEW i \in 0..m, i # k - 1, i # k PROVE previous[Ring(s, i + 1)] = Ring(s, i)
  <2>1. i + 1 \in 1..(m + 1) /\ i + 1 # k + 1 /\ i + 1 # k /\ i + 1 \in 0..(m + 1) /\ k \in 1..(m + 1)
    BY <1>1, <1>3, <1>13
  <2>2. Ring(s, i + 1) # behind /\ Ring(s, i + 1) # q /\ Ring(s, i + 1) \in Node \cup {queries}
    BY <1>2, <1>3, <2>1 DEF behind
  <2>3. l.previous[Ring(s, i + 1)] = Ring(s, i)
    BY DEF IsRing, m
  <2> QED  BY <1>11, <2>2, <2>3
<1>14. ASSUME NEW i \in 0..(m - 1)
       PROVE  next[Ring(t, i)] = Ring(t, i + 1) /\ previous[Ring(t, i + 1)] = Ring(t, i)
  <2>0. i \in 0..m /\ i + 1 \in 0..m
    BY <1>1
  <2>1. CASE i < k - 1
    <3>1. Ring(t, i) = Ring(s, i) /\ Ring(t, i + 1) = Ring(s, i + 1) /\ i # k - 1 /\ i # k
      BY <1>3, <1>7, <2>0, <2>1
    <3> QED  BY <1>12, <1>13, <2>0, <3>1
  <2>2. CASE i = k - 1
    <3>1. Ring(t, i) = before /\ Ring(t, i + 1) = behind
      BY <1>3, <1>7, <2>0, <2>2 DEF before, behind
    <3> QED  BY <1>11, <3>1
  <2>3. CASE i > k - 1
    <3>1. Ring(t, i) = Ring(s, i + 1) /\ Ring(t, i + 1) = Ring(s, (i + 1) + 1) /\ i + 1 # k - 1 /\ i + 1 # k
      BY <1>3, <1>7, <2>0, <2>3
    <3> QED  BY <1>12, <1>13, <2>0, <3>1
  <2> QED  BY <1>1, <1>3, <2>1, <2>2, <2>3
<1>15. IsRing(dequeue(l, q), t)
  BY <1>1, <1>5, <1>14 DEF IsRing
<1>16. dequeue(l, q) \in Lists
  BY <1>5, <1>10 DEF Lists
<1> QED  BY <1>1, <1>8, <1>15, <1>16 DEF t, q

(* The loop over a list that is a ring comes by the nodes in their order.  *)
LEMMA WalkIsQueue ==
    ASSUME issued \in Seq(Node), Distinct(issued), IsRing(list, issued), Len(issued) <= MaxNodes
    PROVE  Walk = issued
<1> DEFINE m == Len(issued)
           N == MaxNodes + 1
           Turn(f, n) == IF n = 1 THEN list.next[queries]
                         ELSE IF f[n - 1] \in Node THEN list.next[f[n - 1]] ELSE f[n - 1]
           Is(f) == f = [n \in 1..N |-> Turn(f, n)]
           ring == [n \in 1..N |-> Ring(issued, n)]
<1>1. m \in Nat /\ N \in Nat /\ m < N
  BY NodeAssumption
<1>2. /\ Ring(issued, 0) = queries
      /\ \A i \in 1..m : Ring(issued, i) = issued[i] /\ Ring(issued, i) \in Node
      /\ \A i \in 1..N : i > m => Ring(issued, i) = queries
  BY <1>1, RingFacts DEF Ring
<1>3. queries \notin Node
  BY NodeAssumption
<1>4. \A i \in 0..m : list.next[Ring(issued, i)] = Ring(issued, i + 1)
  BY DEF IsRing
<1> HIDE DEF m, N
<1>5. ASSUME NEW f, NEW n \in 1..N, n > 1 => f[n - 1] = Ring(issued, n - 1)
      PROVE  Turn(f, n) = Ring(issued, n)
  <2>1. CASE n = 1
    <3>1. 0 \in 0..m /\ 0 + 1 = n
      BY <1>1, <2>1
    <3> QED  BY <1>2, <1>4, <2>1, <3>1
  <2>2. CASE n > 1 /\ n - 1 <= m
    <3>1. n - 1 \in 1..m /\ n - 1 \in 0..m /\ (n - 1) + 1 = n
      BY <1>1, <2>2
    <3> QED  BY <1>2, <1>4, <1>5, <2>2, <3>1
  <2>3. CASE n > 1 /\ n - 1 > m
    <3>1. n - 1 \in 1..N /\ n > m /\ n # 1
      BY <1>1, <2>3
    <3> QED  BY <1>2, <1>3, <1>5, <2>3, <3>1
  <2> QED  BY <1>1, <2>1, <2>2, <2>3
<1>6. Is(ring)
  <2>1. ASSUME NEW n \in 1..N PROVE Turn(ring, n) = Ring(issued, n)
    <3>1. n > 1 => n - 1 \in 1..N
      BY <1>1
    <3>2. n > 1 => ring[n - 1] = Ring(issued, n - 1)
      BY <3>1
    <3> HIDE DEF ring, Turn
    <3> QED  BY <1>5, <3>2
  <2> HIDE DEF Turn
  <2> QED  BY <2>1
<1>7. Is(visited)
  <2>1. visited = CHOOSE f : Is(f)
    BY DEF visited, N
  <2> HIDE DEF Is, ring
  <2> QED  BY <1>6, <2>1, Zenon
<1>8. ASSUME NEW n \in 1..N PROVE visited[n] = Ring(issued, n)
  <2> DEFINE T == {k \in 1..N : visited[k] # Ring(issued, k)}
  <2> SUFFICES ASSUME T # {} PROVE FALSE
    OBVIOUS
  <2>1. T \in SUBSET Nat
    BY <1>1
  <2>2. PICK k \in T : \A j \in T : k <= j
    <3> HIDE DEF T
    <3> QED  BY <2>1, LeastNat
  <2>3. k \in 1..N /\ k > 1 => k - 1 \in 1..N /\ ~(k <= k - 1)
    BY <1>1
  <2>4. k > 1 => visited[k - 1] = Ring(issued, k - 1)
    BY <2>2, <2>3
  <2>5. Turn(visited, k) = Ring(issued, k)
    <3> HIDE DEF Turn
    <3> QED  BY <1>5, <2>4
  <2>6. visited[k] = Turn(visited, k)
    <3> HIDE DEF Turn
    <3> QED  BY <1>7, Zenon
  <2> QED  BY <2>5, <2>6
<1>9. DOMAIN visited = 1..N
  BY <1>7
<1>10. {k \in DOMAIN visited : visited[k] \in Node} = 1..m
  BY <1>1, <1>2, <1>3, <1>8, <1>9
<1>11. \A n \in 1..m : visited[n] = issued[n]
  BY <1>1, <1>2, <1>8
<1>12. issued = [n \in 1..m |-> issued[n]]
  BY DEF m
<1> QED  BY <1>10, <1>11, <1>12 DEF Walk

(* A new query, which may have finished already.                           *)
LEMMA AddKeeps ==
    ASSUME QueueInv, NEW q \in Node, NEW state \in {"active", "finished"}, add_query(q, state)
    PROVE  QueueInv'
<1>1. /\ list \in Lists /\ issued \in Seq(Node) /\ Distinct(issued) /\ IsRing(list, issued)
      /\ node \in [Node -> NodeRecord] /\ open
      /\ node[q] = Unused
  BY DEF QueueInv, add_query
<1>2. \A i \in 1..Len(issued) : issued[i] # q
  <2>1. node[q].query = "none"
    BY <1>1 DEF Unused
  <2> QED  BY <2>1 DEF QueueInv
<1>3. /\ list' = enqueue(list, q) /\ issued' = Append(issued, q) /\ open' = open
      /\ node' = [node EXCEPT ![q] = [query |-> state, done |-> state = "finished"]]
  BY DEF add_query
<1>4. list' \in Lists /\ issued' \in Seq(Node) /\ Distinct(issued') /\ IsRing(list', issued')
      /\ Len(issued') <= MaxNodes
  <2>1. Len(issued) < MaxNodes /\ MaxNodes \in Nat
    BY NodeAssumption DEF add_query
  <2> QED  BY <1>1, <1>2, <1>3, <2>1, EnqueueRing
<1>5. /\ node' \in [Node -> NodeRecord]
      /\ node'[q].query # "none" /\ (node'[q].query = "finished" => node'[q].done)
      /\ \A p \in Node : p # q => node'[p] = node[p]
  BY <1>1, <1>3, Zenon DEF NodeRecord
<1>6. /\ Len(issued) \in Nat /\ Len(issued') = Len(issued) + 1 /\ issued'[Len(issued) + 1] = q
      /\ \A i \in 1..Len(issued) : issued'[i] = issued[i]
  BY <1>1, <1>3
<1>7. ASSUME NEW p \in Node
      PROVE  (\E i \in 1..Len(issued') : issued'[i] = p) <=> p = q \/ \E i \in 1..Len(issued) : issued[i] = p
  <2>1. CASE p = q
    BY <1>6, <2>1
  <2>2. CASE p # q
    BY <1>6, <2>2
  <2> QED  BY <2>1, <2>2
<1>8. \A p \in Node : node'[p].query # "none" <=> \E i \in 1..Len(issued') : issued'[i] = p
  BY <1>5, <1>7 DEF QueueInv
<1>9. \A p \in Node : /\ node'[p].query = "none" => node'[p] = Unused
                      /\ node'[p].query = "finished" => node'[p].done
  BY <1>5 DEF QueueInv
<1> QED  BY <1>1, <1>3, <1>4, <1>5, <1>8, <1>9 DEF QueueInv, Lists, IsRing, Ring, Distinct

(* A query is collected or cancelled.                                      *)
LEMMA ReleaseKeeps ==
    ASSUME QueueInv, open, NEW q \in Node, node[q].query # "none", Release(q)
    PROVE  QueueInv'
<1>1. /\ list \in Lists /\ issued \in Seq(Node) /\ Distinct(issued) /\ IsRing(list, issued)
      /\ node \in [Node -> NodeRecord]
  BY DEF QueueInv
<1> DEFINE k == Position(q)
<1>2. k \in 1..Len(issued) /\ issued[k] = q
  <2>1. DOMAIN issued = 1..Len(issued)
    BY <1>1
  <2>2. \E i \in DOMAIN issued : issued[i] = q
    BY <2>1 DEF QueueInv
  <2> QED  BY <2>1, <2>2 DEF Position
<1> HIDE DEF k
<1>3. /\ list' = dequeue(list, issued[k]) /\ issued' = Removed(issued, k) /\ open' = open
      /\ node' = [node EXCEPT ![q] = Unused]
  BY <1>2 DEF Release, Without, Removed, k
<1>4. list' \in Lists /\ issued' \in Seq(Node) /\ Distinct(issued') /\ IsRing(list', issued')
  BY <1>1, <1>2, <1>3, DequeueRing
<1>5. /\ node' \in [Node -> NodeRecord]
      /\ node'[q] = Unused
      /\ \A p \in Node : p # q => node'[p] = node[p]
  BY <1>1, <1>3 DEF NodeRecord, Unused
<1>6. /\ Len(issued) \in Nat /\ Len(issued') = Len(issued) - 1
      /\ \A i \in 1..(Len(issued) - 1) : issued'[i] = IF i < k THEN issued[i] ELSE issued[i + 1]
  <2>1. issued' = Removed(issued, k)
    BY <1>3, Zenon
  <2>2. Len(issued) \in Nat
    BY <1>1
  <2> QED  BY <1>1, <1>2, <2>1, <2>2, RemoveFacts, Zenon
<1>7. ASSUME NEW p \in Node
      PROVE  (\E i \in 1..Len(issued') : issued'[i] = p) <=> p # q /\ \E i \in 1..Len(issued) : issued[i] = p
  <2>1. ASSUME NEW i \in 1..Len(issued'), issued'[i] = p
        PROVE  p # q /\ \E j \in 1..Len(issued) : issued[j] = p
    <3> DEFINE j == IF i < k THEN i ELSE i + 1
    <3>1. j \in 1..Len(issued) /\ j # k /\ issued[j] = p
      BY <1>2, <1>6, <2>1
    <3> HIDE DEF j
    <3> QED  BY <1>1, <1>2, <3>1 DEF Distinct
  <2>2. ASSUME NEW j \in 1..Len(issued), issued[j] = p, p # q
        PROVE  \E i \in 1..Len(issued') : issued'[i] = p
    <3> DEFINE i == IF j < k THEN j ELSE j - 1
    <3>1. j # k
      BY <1>2, <2>2
    <3>2. i \in 1..Len(issued') /\ issued'[i] = issued[j]
      BY <1>2, <1>6, <3>1
    <3> HIDE DEF i
    <3> QED  BY <2>2, <3>2
  <2> QED  BY <2>1, <2>2
<1>8. \A p \in Node : node'[p].query # "none" <=> \E i \in 1..Len(issued') : issued'[i] = p
  BY <1>5, <1>7 DEF QueueInv, Unused
<1>9. ASSUME NEW p \in Node
      PROVE  /\ node'[p].query = "none" => node'[p] = Unused
             /\ node'[p].query = "finished" => node'[p].done
  <2>1. CASE p = q
    BY <1>5, <2>1 DEF Unused
  <2>2. CASE p # q
    BY <1>5, <2>2 DEF QueueInv
  <2> QED  BY <2>1, <2>2
<1>10. Len(issued') <= MaxNodes
  BY <1>6, NodeAssumption DEF QueueInv
<1> QED  BY <1>3, <1>4, <1>5, <1>8, <1>9, <1>10 DEF QueueInv, Lists, IsRing, Ring, Distinct

(* Queries finish, and callbacks mark their nodes.                         *)
LEMMA WaitKeeps ==
    ASSUME QueueInv, NEW block \in BOOLEAN, NEW finishing \in SUBSET Node, NEW early \in SUBSET Node,
           asyncns_wait(block, finishing, early)
    PROVE  QueueInv'
<1>1. /\ node \in [Node -> NodeRecord]
      /\ UNCHANGED <<list, open, issued>>
      /\ \A q \in finishing \cup early : node[q].query = "active"
  BY DEF QueueInv, asyncns_wait
<1> DEFINE ended == [q \in Node |-> IF q \in finishing THEN [node[q] EXCEPT !.query = "finished"] ELSE node[q]]
<1>2. node' = [q \in Node |-> [ended[q] EXCEPT !.done = @ \/ q \in finishing \cup early]]
  BY Zenon DEF asyncns_wait, callback
<1>3. ASSUME NEW q \in Node
      PROVE  /\ ended[q] \in NodeRecord
             /\ ended[q].query = IF q \in finishing THEN "finished" ELSE node[q].query
             /\ ended[q].done = node[q].done
  <2>1. node[q] \in NodeRecord
    BY <1>1
  <2> QED  BY <2>1 DEF NodeRecord
<1> HIDE DEF ended
<1>4. ASSUME NEW q \in Node
      PROVE  /\ node'[q] \in NodeRecord
             /\ node'[q].query = IF q \in finishing THEN "finished" ELSE node[q].query
             /\ node'[q].done <=> node[q].done \/ q \in finishing \cup early
             /\ q \notin finishing \cup early => node'[q] = node[q]
  <2>1. node'[q] = [ended[q] EXCEPT !.done = @ \/ q \in finishing \cup early]
    BY <1>2
  <2>2. /\ node'[q] \in NodeRecord /\ node'[q].query = ended[q].query
        /\ node'[q].done = (ended[q].done \/ q \in finishing \cup early)
    BY <1>3, <2>1, Zenon DEF NodeRecord
  <2>3. q \notin finishing \cup early => node'[q] = node[q]
    <3>1. node[q] \in NodeRecord /\ node[q].done \in BOOLEAN
      BY <1>1 DEF NodeRecord
    <3> QED  BY <1>3, <2>2, <3>1 DEF NodeRecord
  <2> QED  BY <1>3, <2>2, <2>3, Zenon
<1>5. node' \in [Node -> NodeRecord]
  BY <1>2, <1>4
<1>6. \A q \in Node : node'[q].query # "none" <=> node[q].query # "none"
  BY <1>1, <1>4
<1>7. \A q \in Node : /\ node'[q].query = "none" => node'[q] = Unused
                      /\ node'[q].query = "finished" => node'[q].done
  <2> TAKE q \in Node
  <2>1. node'[q].query = "none" => q \notin finishing \cup early
    BY <1>1, <1>4
  <2> QED  BY <1>4, <2>1 DEF QueueInv
<1> QED  BY <1>1, <1>5, <1>6, <1>7 DEF QueueInv, Lists, IsRing, Ring, Distinct

(* A list that has only its head is the ring of no nodes.                  *)
LEMMA EmptyRing ==
    ASSUME NEW l, l = [next |-> Empty, previous |-> Empty]
    PROVE  l \in Lists /\ <<>> \in Seq(Node) /\ Distinct(<<>>) /\ IsRing(l, <<>>)
<1>1. Empty \in Links /\ Empty[queries] = queries
  BY DEF Empty, Links, Link
<1>2. Len(<<>>) = 0 /\ <<>> \in Seq(Node)
  OBVIOUS
<1>3. l \in Lists
  BY <1>1 DEF Lists
<1>4. \A i \in Int : Ring(<<>>, i) = queries
  BY <1>2 DEF Ring
<1> QED  BY <1>1, <1>2, <1>3, <1>4 DEF Distinct, IsRing

(* What holds when nothing is outstanding.                                 *)
LEMMA EmptyQueue ==
    ASSUME list = [next |-> Empty, previous |-> Empty], issued = <<>>,
           node = [q \in Node |-> Unused], open \in BOOLEAN
    PROVE  QueueInv
<1>1. list \in Lists /\ issued \in Seq(Node) /\ Distinct(issued) /\ IsRing(list, issued)
  BY EmptyRing
<1>2. node \in [Node -> NodeRecord] /\ \A q \in Node : node[q] = Unused /\ node[q].query = "none"
  BY DEF NodeRecord, Unused
<1>3. 1..Len(issued) = {} /\ Len(issued) <= MaxNodes
  BY NodeAssumption
<1> QED  BY <1>1, <1>2, <1>3 DEF QueueInv

(* The outstanding queries are those in the list.                          *)
LEMMA Members ==
    ASSUME issued \in Seq(Node), NEW x
    PROVE  x \in Outstanding <=> \E i \in 1..Len(issued) : issued[i] = x
BY DEF Outstanding

(* asyncns_free finds every node in the list, and leaves none allocated.   *)
LEMMA FreeKeeps ==
    ASSUME QueueInv, asyncns_free
    PROVE  QueueInv'
<1>1. Walk = issued
  BY WalkIsQueue DEF QueueInv
<1>2. ASSUME NEW q \in Node PROVE (IF \E n \in DOMAIN Walk : Walk[n] = q THEN Unused ELSE [node[q] EXCEPT !.query = "none"]) = Unused
  <2>1. CASE \E n \in DOMAIN Walk : Walk[n] = q
    BY <2>1
  <2>2. CASE ~(\E n \in DOMAIN Walk : Walk[n] = q)
    <3>1. node[q].query = "none"
      BY <1>1, <2>2, Members DEF QueueInv
    <3>2. node[q] = Unused
      BY <3>1 DEF QueueInv
    <3> QED  BY <2>2, <3>2 DEF Unused
  <2> QED  BY <2>1, <2>2
<1>3. node' = [q \in Node |-> Unused]
  BY <1>2 DEF asyncns_free
<1>4. list' = [next |-> Empty, previous |-> Empty] /\ issued' = <<>> /\ open' = FALSE
  BY DEF asyncns_free
<1>5. list' \in Lists /\ issued' \in Seq(Node) /\ Distinct(issued') /\ IsRing(list', issued')
  BY <1>4, EmptyRing
<1>6. node' \in [Node -> NodeRecord] /\ \A q \in Node : node'[q] = Unused /\ node'[q].query = "none"
  BY <1>3 DEF NodeRecord, Unused
<1>7. 1..Len(issued') = {} /\ Len(issued') <= MaxNodes
  BY <1>4, NodeAssumption
<1> QED  BY <1>4, <1>5, <1>6, <1>7, Zenon DEF QueueInv, Lists, IsRing, Ring, Distinct

(* Every function keeps the list a queue.                                  *)
LEMMA QueueStep == QueueInv /\ [AsyncnsNext]_asyncnsVars => QueueInv'
<1> SUFFICES ASSUME QueueInv, [AsyncnsNext]_asyncnsVars PROVE QueueInv'
  OBVIOUS
<1>1. CASE asyncns_new
  <2>1. issued = <<>> /\ UNCHANGED <<node, issued>> /\ open' = TRUE
        /\ list' = [next |-> Empty, previous |-> Empty]
    BY <1>1 DEF asyncns_new, QueueInv
  <2>2. list' \in Lists /\ issued' \in Seq(Node) /\ Distinct(issued') /\ IsRing(list', issued')
    BY <2>1, EmptyRing
  <2> QED  BY <2>1, <2>2 DEF QueueInv, Lists, IsRing, Ring, Distinct
<1>2. CASE asyncns_free
  BY <1>2, FreeKeeps
<1>3. ASSUME NEW q \in Node, NEW state \in {"active", "finished"}, add_query(q, state) PROVE QueueInv'
  BY <1>3, AddKeeps
<1>4. ASSUME NEW q \in Node, asyncns_done(q) PROVE QueueInv'
  <2>1. open /\ node[q].query # "none" /\ Release(q)
    BY <1>4 DEF asyncns_done, QueueInv, Unused
  <2> QED  BY <2>1, ReleaseKeeps
<1>5. ASSUME NEW q \in Node, asyncns_cancel(q) PROVE QueueInv'
  <2>1. open /\ node[q].query # "none" /\ Release(q)
    BY <1>5 DEF asyncns_cancel, QueueInv
  <2> QED  BY <2>1, ReleaseKeeps
<1>6. ASSUME NEW block \in BOOLEAN, NEW finishing \in SUBSET Node, NEW early \in SUBSET Node,
             asyncns_wait(block, finishing, early)
      PROVE  QueueInv'
  BY <1>6, WaitKeeps
<1>7. CASE UNCHANGED asyncnsVars
  BY <1>7 DEF asyncnsVars, QueueInv, Lists, IsRing, Ring, Distinct
<1> QED  BY <1>1, <1>2, <1>3, <1>4, <1>5, <1>6, <1>7 DEF AsyncnsNext

(* The list is a queue in every state that the interface can reach.        *)
LEMMA QueueAlways == AsyncnsSpec => []QueueInv
<1>1. AsyncnsInit => QueueInv
  BY EmptyQueue, Zenon DEF AsyncnsInit
<1> QED  BY <1>1, QueueStep, PTL DEF AsyncnsSpec

(* For any number of outstanding queries, in whichever order they finish,  *)
(* are collected or cancelled: the links of compat/asyncns.c are those of  *)
(* a queue of exactly these, in the order of their issue, both ways round. *)
THEOREM AsyncnsQueue == AsyncnsSpec => []ListIsQueue
<1>1. QueueInv => ListIsQueue
  <2> SUFFICES ASSUME QueueInv PROVE ListIsQueue
    OBVIOUS
  <2>1. /\ list \in Lists /\ issued \in Seq(Node) /\ Distinct(issued) /\ IsRing(list, issued)
    BY DEF QueueInv
  <2>2. Walk = issued /\ asyncns_getnqueries = Len(issued)
    BY <2>1, WalkIsQueue DEF asyncns_getnqueries, QueueInv
  <2>3. ASSUME NEW x \in Outstanding \cup {queries} PROVE list.previous[list.next[x]] = x
    <3>1. PICK i \in 0..Len(issued) : Ring(issued, i) = x
      <4>1. CASE x = queries
        BY <2>1, <4>1, RingFacts
      <4>2. CASE x \in Outstanding
        <5>1. PICK i \in 1..Len(issued) : issued[i] = x
          BY <2>1, <4>2, Members
        <5> QED  BY <2>1, <5>1, RingFacts
      <4> QED  BY <4>1, <4>2
    <3> QED  BY <2>1, <3>1 DEF IsRing
  <2> QED  BY <2>1, <2>2, <2>3 DEF ListIsQueue, Lists
<1> QED  BY <1>1, QueueAlways, PTL

(* asyncns_getnext returns the query that was issued first among those     *)
(* that are done, and misses none: not one that had finished before        *)
(* asyncns_getaddrinfo put it into the list, nor one behind others that    *)
(* were cancelled.                                                         *)
THEOREM AsyncnsOrder == AsyncnsSpec => []OldestFirst
<1>1. QueueInv => OldestFirst
  <2> SUFFICES ASSUME QueueInv PROVE OldestFirst
    OBVIOUS
  <2> DEFINE finished == {i \in DOMAIN issued : node[issued[i]].query = "finished"}
             marked == {i \in DOMAIN issued : node[issued[i]].done}
  <2>1. Walk = issued
    BY WalkIsQueue DEF QueueInv
  <2>2. DOMAIN issued = 1..Len(issued) /\ Len(issued) \in Nat /\ \A i \in DOMAIN issued : issued[i] \in Node
    BY DEF QueueInv
  <2>3. finished \subseteq marked
    BY <2>2 DEF QueueInv
  <2> DEFINE found == {n \in DOMAIN Walk : node[Walk[n]].done}
             n == CHOOSE i \in found : \A k \in found : i <= k
  <2>4. found = marked /\ asyncns_getnext = IF found = {} THEN NoNode ELSE Walk[n]
    BY <2>1 DEF asyncns_getnext
  <2>5. marked \in SUBSET Nat
    BY <2>2
  <2> HIDE DEF marked, finished, found
  <2>6. CASE marked = {}
    BY <2>3, <2>4, <2>6 DEF OldestFirst, marked, finished
  <2>7. CASE marked # {}
    <3>1. \E i \in found : \A k \in found : i <= k
      BY <2>4, <2>5, <2>7, LeastNat
    <3>2. n \in marked /\ \A k \in marked : n <= k
      BY <2>4, <3>1
    <3>3. asyncns_getnext = issued[n]
      BY <2>1, <2>4, <2>7
    <3> HIDE DEF n
    <3>4. \E i \in marked : asyncns_getnext = issued[i] /\ \A j \in marked : i <= j
      BY <3>2, <3>3
    <3> QED  BY <2>3, <2>7, <3>4 DEF OldestFirst, marked, finished
  <2> QED  BY <2>6, <2>7
<1> QED  BY <1>1, QueueAlways, PTL

(* No netresolve query outlives its node, and asyncns_free leaves nothing  *)
(* behind: the callback never has a freed node to write to.                *)
THEOREM AsyncnsOwnership == AsyncnsSpec => []NoOrphans
<1>1. QueueInv => NoOrphans
  <2> SUFFICES ASSUME QueueInv PROVE NoOrphans
    OBVIOUS
  <2>1. \A q \in Node : node[q].query # "none" <=> q \in Outstanding
    BY Members DEF QueueInv
  <2>2. ~open => \A q \in Node : q \notin Outstanding
    <3>1. issued = <<>> => DOMAIN issued = {}
      OBVIOUS
    <3> QED  BY <3>1 DEF QueueInv, Outstanding
  <2>3. ~open => \A q \in Node : node[q] = Unused
    BY <2>1, <2>2 DEF QueueInv
  <2> QED  BY <2>1, <2>3 DEF NoOrphans, QueueInv
<1> QED  BY <1>1, QueueAlways, PTL
=============================================================================
