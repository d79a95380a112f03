---------------------------- MODULE PollerProofs ----------------------------
(***************************************************************************)
(* Proofs about `Poller', for every set of handles and descriptors, every  *)
(* way handles name descriptors, every set of times to wait and every      *)
(* number of pollees make-poller may be called with.                       *)
(***************************************************************************)
EXTENDS Poller, FiniteSetTheorems, TLAPS

(* What idio_libc_poll_set_pollfds makes of the table.                     *)
Made == {[fd |-> d, events |-> fd_map[d].events] : d \in DOMAIN fd_map}

(* The array is what the table says whenever the poller says so, and it    *)
(* does so during a call.  A round never waits longer than the one before. *)
IInv ==
    /\ TypeOK
    /\ IsFiniteSet(DOMAIN fd_map)
    /\ slots = given
    /\ valid => fds = Made
    /\ pc \in {"polling", "again", "overrun"} => valid
    /\ pc = "overrun" => Cardinality(fds) > slots
    /\ timeout >= 0 => left <= 2 * timeout + 1
    /\ ReportsReady

(* Of finitely many pollees for one descriptor there is a last: the one    *)
(* with the smallest set of others after it.                               *)
LEMMA LastPollee ==
    ASSUME NEW n \in Nat, NEW S \in SUBSET (1 .. n), S # {}
    PROVE  \E i \in S : \A j \in S : j <= i
<1> DEFINE after(i) == {j \in S : j > i}
<1> DEFINE T == {after(i) : i \in S}
<1>1. IsFiniteSet(S)
  <2>1. IsFiniteSet(1 .. n)
    BY FS_Interval
  <2> QED BY <2>1, FS_Subset
<1>2. T \subseteq FiniteSubsetsOf(S) /\ T # {}
  <2>1. FiniteSubsetsOf(S) = SUBSET S
    BY <1>1, FS_FiniteSubsetsOfFinite
  <2>2. \A i \in S : after(i) \in SUBSET S
    OBVIOUS
  <2>3. T # {} /\ \A u \in T : u \in SUBSET S
    BY <2>2
  <2> QED BY <2>1, <2>3
<1>3. PICK t \in T : \A u \in T : <<u, t>> \notin StrictSubsetOrdering(S)
  <2> HIDE DEF T
  <2> QED BY <1>2, FS_StrictSubsetOrderingWellFounded, WFMin
<1>4. PICK i \in S : t = after(i)
  OBVIOUS
<1>5. ASSUME NEW j \in S, j > i
      PROVE  FALSE
  <2>1. after(j) \subseteq after(i) /\ j \in after(i) /\ j \notin after(j)
    <3>1. \A m \in S : m \in Nat
      OBVIOUS
    <3>2. j \in Nat /\ i \in Nat /\ i < j
      BY <3>1, <1>5
    <3>3. \A m \in S : m > j => m > i
      BY <3>1, <3>2
    <3>4. ~ (j > j)
      BY <3>2
    <3> QED BY <3>2, <3>3, <3>4
  <2>2. <<after(j), after(i)>> \in StrictSubsetOrdering(S)
    BY <2>1 DEF StrictSubsetOrdering
  <2> QED BY <1>3, <1>4, <2>2
<1> QED BY <1>5

(* make-poller's table: a pollee for each descriptor named, the last one.  *)
LEMMA RegisteredOK ==
    ASSUME NEW n \in Nat, NEW ps \in [1 .. n -> Pollee]
    PROVE  /\ DOMAIN Registered(ps) \subseteq Fd
           /\ IsFiniteSet(DOMAIN Registered(ps))
           /\ \A d \in DOMAIN Registered(ps) :
                 /\ Registered(ps)[d] \in Pollee
                 /\ FdOf[Registered(ps)[d].fdh] = d
<1> DEFINE D == {FdOf[ps[i].fdh] : i \in DOMAIN ps}
<1> DEFINE of(d) == {i \in DOMAIN ps : FdOf[ps[i].fdh] = d}
<1> DEFINE IsLast(i, d) ==
        /\ FdOf[ps[i].fdh] = d
        /\ \A j \in DOMAIN ps : FdOf[ps[j].fdh] = d => j <= i
<1>1. DOMAIN Registered(ps) = D
  BY DEF Registered
<1>2. D \subseteq Fd
  BY PollerAssumption DEF PollerAssumption, Pollee
<1>3. IsFiniteSet(D)
  <2> DEFINE f == [i \in 1 .. n |-> FdOf[ps[i].fdh]]
  <2>1. f \in Surjection(1 .. n, D)
    BY DEF Surjection
  <2>2. IsFiniteSet(1 .. n)
    BY FS_Interval
  <2> HIDE DEF f, D
  <2> QED BY <2>1, <2>2, FS_Surjection
<1>4. ASSUME NEW d \in D
      PROVE  Registered(ps)[d] \in Pollee /\ FdOf[Registered(ps)[d].fdh] = d
  <2>1. of(d) \in SUBSET (1 .. n) /\ of(d) # {}
    OBVIOUS
  <2>2. \E i \in of(d) : \A j \in of(d) : j <= i
    <3> HIDE DEF of
    <3> QED BY <2>1, LastPollee
  <2>3. \E i \in DOMAIN ps : IsLast(i, d)
    BY <2>2
  <2> DEFINE last == CHOOSE i \in DOMAIN ps : IsLast(i, d)
  <2>4. last \in DOMAIN ps /\ IsLast(last, d)
    <3> HIDE DEF IsLast
    <3> QED BY <2>3
  <2>5. Registered(ps)[d] = ps[last]
    BY DEF Registered
  <2> HIDE DEF last
  <2> QED BY <2>4, <2>5
<1> QED BY <1>1, <1>2, <1>3, <1>4

(* idio_libc_poll_set_pollfds writes one slot for each key of the table.   *)
LEMMA OneSlotEach ==
    ASSUME IsFiniteSet(DOMAIN fd_map)
    PROVE  Cardinality(Made) = Cardinality(DOMAIN fd_map)
<1> DEFINE slot == [d \in DOMAIN fd_map |-> [fd |-> d, events |-> fd_map[d].events]]
<1>1. slot \in [DOMAIN fd_map -> Made]
  BY DEF Made
<1>2. slot \in Injection(DOMAIN fd_map, Made)
  <2>1. \A a, b \in DOMAIN fd_map : slot[a] = slot[b] => slot[a].fd = slot[b].fd
    OBVIOUS
  <2>2. \A a, b \in DOMAIN fd_map : slot[a] = slot[b] => a = b
    BY <2>1
  <2> QED BY <1>1, <2>2 DEF Injection, IsInjective
<1>3. slot \in Surjection(DOMAIN fd_map, Made)
  BY <1>1 DEF Surjection, Made
<1>4. ExistsBijection(DOMAIN fd_map, Made)
  BY <1>2, <1>3 DEF ExistsBijection, Bijection
<1> QED BY <1>4, FS_Bijection

(* A poll that finds something or whose time is over reports what the      *)
(* table asks for.                                                         *)
LEMMA Reports ==
    ASSUME IInv, NEW ready \in SUBSET (Fd \X (Event \cup Always)), PollReturns(ready)
    PROVE  ReportsReady' /\ pc' = "idle"
<1> DEFINE all == Reported(ready)
<1> DEFINE r == {e \in all : e.revents # {}}
<1> DEFINE revents(d) == {v \in fd_map[d].events \cup Always : <<d, v>> \in ready}
<1>1. all = {[fd |-> d, revents |-> revents(d)] : d \in DOMAIN fd_map}
  <2>1. fds = Made
    BY DEF IInv, PollReturns
  <2>2. \A e \in Made : e.fd \in DOMAIN fd_map /\ e.events = fd_map[e.fd].events
    BY DEF Made
  <2>3. \A e \in Made :
           [fd |-> e.fd, revents |-> {v \in e.events \cup Always : <<e.fd, v>> \in ready}]
              = [fd |-> e.fd, revents |-> revents(e.fd)]
    BY <2>2
  <2>4. \A d \in DOMAIN fd_map :
           /\ [fd |-> d, events |-> fd_map[d].events] \in Made
           /\ [fd |-> d, events |-> fd_map[d].events].fd = d
    BY DEF Made
  <2> HIDE DEF revents
  <2>5. all = {[fd |-> e.fd, revents |-> revents(e.fd)] : e \in Made}
    BY <2>1, <2>3 DEF Reported
  <2> QED BY <2>2, <2>4, <2>5
<1>2. \A e \in r : e.fd \in DOMAIN fd_map /\ e.revents = revents(e.fd)
  BY <1>1
<1>3. /\ pc' = "idle"
      /\ got' = [ready |-> ready,
                 returned |-> {<<fd_map[e.fd].fdh, e.revents>> : e \in r}]
      /\ fd_map' = fd_map
  BY <1>2 DEF PollReturns, Leave, table
<1>4. \A d \in DOMAIN fd_map : revents(d) # {} => [fd |-> d, revents |-> revents(d)] \in r
  BY <1>1
<1>5. {<<fd_map[e.fd].fdh, e.revents>> : e \in r}
         = {<<fd_map[d].fdh, revents(d)>> : d \in {c \in DOMAIN fd_map : revents(c) # {}}}
  <2> HIDE DEF revents
  <2>1. \A e \in r : e.revents # {}
    OBVIOUS
  <2> HIDE DEF r
  <2>2. ASSUME NEW e \in r
        PROVE  /\ e.fd \in {c \in DOMAIN fd_map : revents(c) # {}}
               /\ <<fd_map[e.fd].fdh, e.revents>> = <<fd_map[e.fd].fdh, revents(e.fd)>>
    BY <1>2, <2>1
  <2>3. ASSUME NEW d \in {c \in DOMAIN fd_map : revents(c) # {}}
        PROVE  \E e \in r : <<fd_map[e.fd].fdh, e.revents>> = <<fd_map[d].fdh, revents(d)>>
    BY <1>4
  <2> QED BY <2>2, <2>3
<1>6. got'.ready = ready
  BY <1>3
<1>7. got'.returned
         = {<<fd_map[d].fdh, revents(d)>> : d \in {c \in DOMAIN fd_map : revents(c) # {}}}
  BY <1>3, <1>5
<1> DEFINE after(d) == {v \in fd_map'[d].events \cup Always : <<d, v>> \in got'.ready}
<1>8. \A d : after(d) = revents(d)
  BY <1>3, <1>6
<1>9. got'.returned
         = {<<fd_map'[d].fdh, after(d)>> : d \in {c \in DOMAIN fd_map' : after(c) # {}}}
  <2> DEFINE known == {c \in DOMAIN fd_map : revents(c) # {}}
  <2> HIDE DEF revents, after
  <2>1. {c \in DOMAIN fd_map' : after(c) # {}} = known
    BY <1>3, <1>8
  <2> HIDE DEF known
  <2>2. {<<fd_map'[d].fdh, after(d)>> : d \in known} = {<<fd_map[d].fdh, revents(d)>> : d \in known}
    BY <1>3, <1>8
  <2> QED BY <1>7, <2>1, <2>2 DEF known
<1> QED BY <1>3, <1>9 DEF ReportsReady

(* The invariant holds in every state of every poller.                     *)
THEOREM IInvInvariant == Spec => []IInv
<1>1. Init => IInv
  <2> SUFFICES ASSUME Init PROVE IInv
    OBVIOUS
  <2>1. PICK n \in 0 .. MaxGiven : \E ps \in [1 .. n -> Pollee] :
            /\ fd_map = Registered(ps)
            /\ slots = SlotsFor(ps)
            /\ given = n
    BY DEF Init
  <2>2. PICK ps \in [1 .. n -> Pollee] :
            fd_map = Registered(ps) /\ slots = SlotsFor(ps) /\ given = n
    BY <2>1
  <2>3. n \in Nat /\ slots = n
    BY <2>2, PollerAssumption DEF PollerAssumption, SlotsFor
  <2>4. /\ DOMAIN fd_map \subseteq Fd
        /\ IsFiniteSet(DOMAIN fd_map)
        /\ \A d \in DOMAIN fd_map : fd_map[d] \in Pollee /\ FdOf[fd_map[d].fdh] = d
    BY <2>2, <2>3, RegisteredOK
  <2>5. TypeOK
    <3>1. slots \in 0 .. MaxGiven /\ given \in 0 .. MaxGiven
      BY <2>2, <2>3
    <3>2. got.ready = {} /\ fds \subseteq Entry
      BY DEF Init, Nothing
    <3>3. /\ timeout \in Timeouts \cup {0} /\ timeout >= 0
          /\ left \in Nat \cup {-2, -1} /\ left # -2 /\ wait \in Nat
      BY DEF Init
    <3> QED BY <2>4, <3>1, <3>2, <3>3 DEF Init, TypeOK
  <2>6. ReportsReady
    BY DEF Init, ReportsReady, Nothing
  <2> QED BY <2>2, <2>3, <2>4, <2>5, <2>6 DEF Init, IInv
<1>2. IInv /\ [Next]_vars => IInv'
  <2> SUFFICES ASSUME IInv, [Next]_vars PROVE IInv'
    OBVIOUS
  <2> USE PollerAssumption DEF PollerAssumption
  <2>a. /\ timeout \in Nat \cup {-1}
        /\ left \in Nat \cup {-2, -1}
        /\ timeout \in Nat => left # -2 /\ wait \in Nat /\ left <= 2 * timeout + 1
        /\ timeout = -1 => left = -2 /\ wait = -2
    <3>1. \A t \in Timeouts : t \in Nat \cup {-1}
      OBVIOUS
    <3>2. timeout \in Nat \cup {-1}
      <4>1. CASE timeout \in Timeouts \cup {0}
        BY <3>1, <4>1
      <4>2. CASE \E t \in Timeouts : timeout \in 0 .. t
        BY <3>1, <4>2
      <4> QED BY <4>1, <4>2 DEF IInv, TypeOK
    <3> QED BY <3>2 DEF IInv, TypeOK
  <2>b. UNCHANGED <<fd_map, got>> /\ pc' # "aborted" => ReportsReady' /\ Made' = Made
    <3> SUFFICES ASSUME UNCHANGED <<fd_map, got>>, pc' # "aborted"
                 PROVE  ReportsReady' /\ Made' = Made
      OBVIOUS
    <3>1. Made' = Made
      BY DEF Made
    <3> DEFINE revents(d) == {v \in fd_map[d].events \cup Always : <<d, v>> \in got.ready}
    <3>2. \A d : {v \in fd_map'[d].events \cup Always : <<d, v>> \in got'.ready} = revents(d)
      OBVIOUS
    <3>3. got.returned
             = {<<fd_map[d].fdh, revents(d)>> : d \in {c \in DOMAIN fd_map : revents(c) # {}}}
      BY DEF IInv, ReportsReady
    <3> HIDE DEF revents
    <3>4. ReportsReady'
      BY <3>2, <3>3 DEF ReportsReady
    <3> QED BY <3>1, <3>4
  <2>c. UNCHANGED <<fd_map, given, slots>> /\ fds' \in {fds} =>
           /\ DOMAIN fd_map' \subseteq Fd /\ fds' \subseteq Entry
           /\ IsFiniteSet(DOMAIN fd_map')
           /\ \A d \in DOMAIN fd_map' : fd_map'[d] \in Pollee /\ FdOf[fd_map'[d].fdh] = d
           /\ slots' \in 0 .. MaxGiven /\ given' \in 0 .. MaxGiven /\ slots' = given'
    BY DEF IInv, TypeOK
  <2>1. ASSUME NEW p \in Pollee, Register(p) PROVE IInv'
    <3>1. FdOf[p.fdh] \in Fd
      BY DEF Pollee
    <3>2. IsFiniteSet(DOMAIN fd_map \cup {FdOf[p.fdh]})
      BY FS_AddElement DEF IInv
    <3>3. /\ DOMAIN fd_map' \subseteq Fd
          /\ IsFiniteSet(DOMAIN fd_map')
          /\ \A d \in DOMAIN fd_map' : fd_map'[d] \in Pollee /\ FdOf[fd_map'[d].fdh] = d
      BY <2>1, <3>1, <3>2 DEF Register, Put, IInv, TypeOK
    <3>4. ReportsReady'
      BY <2>1 DEF Register, ReportsReady, Nothing, IInv
    <3> QED BY <2>1, <3>3, <3>4 DEF Register, IInv, TypeOK, Nothing, array, clock
  <2>2. ASSUME NEW h \in Fdh, Deregister(h) PROVE IInv'
    <3>1. IsFiniteSet(DOMAIN fd_map \ {FdOf[h]})
      BY FS_RemoveElement DEF IInv
    <3>2. /\ DOMAIN fd_map' \subseteq Fd
          /\ IsFiniteSet(DOMAIN fd_map')
          /\ \A d \in DOMAIN fd_map' : fd_map'[d] \in Pollee /\ FdOf[fd_map'[d].fdh] = d
      BY <2>2, <3>1 DEF Deregister, IInv, TypeOK
    <3>3. ReportsReady'
      BY <2>2 DEF Deregister, ReportsReady, Nothing, IInv
    <3> QED BY <2>2, <3>2, <3>3 DEF Deregister, IInv, TypeOK, Nothing, array, clock
  <2>3. ASSUME NEW t \in Timeouts, PollStarts(t) PROVE IInv'
    <3>1. fds' = Made /\ Made' = Made
      BY <2>3 DEF PollStarts, IInv, Made
    <3>2. Made \subseteq Entry
      BY DEF Made, Entry, IInv, TypeOK, Pollee
    <3>3. pc' = "overrun" => Cardinality(fds') > slots
      <4>1. Cardinality(fds') \in Nat
        BY <3>1, OneSlotEach, FS_CardinalityType DEF IInv
      <4>2. slots \in Nat
        BY DEF IInv, TypeOK
      <4> QED BY <2>3, <4>1, <4>2 DEF PollStarts
    <3>4. /\ timeout' \in Timeouts
          /\ left' \in Nat \cup {-2, -1}
          /\ IF left' = -2 THEN timeout' = -1 /\ wait' = -2 ELSE timeout' >= 0 /\ wait' \in Nat
          /\ timeout' >= 0 => left' <= 2 * timeout' + 1
      BY <2>3 DEF PollStarts
    <3>5. ReportsReady'
      BY <2>3 DEF PollStarts, ReportsReady, Nothing, IInv
    <3> QED BY <2>3, <3>1, <3>2, <3>3, <3>4, <3>5 DEF PollStarts, IInv, TypeOK, Nothing
  <2>4. ASSUME NEW ready \in SUBSET (Fd \X (Event \cup Always)), PollReturns(ready)
        PROVE  IInv'
    <3>1. ReportsReady' /\ pc' = "idle"
      BY <2>4, Reports
    <3>2. got'.ready \subseteq Fd \X (Event \cup Always)
      BY <2>4, <3>1 DEF PollReturns, Leave
    <3>3. timeout' = 0 /\ left' = 0 /\ wait' = 0
      BY <2>4 DEF PollReturns, Leave
    <3>4. Made' = Made
      BY <2>4 DEF PollReturns, Made, table
    <3>5. UNCHANGED <<table, array, given, failed>> /\ in_use' = FALSE
      BY <2>4 DEF PollReturns
    <3>6. /\ timeout' \in Timeouts \cup {0} /\ timeout' >= 0
          /\ left' \in Nat \cup {-2, -1} /\ left' # -2 /\ wait' \in Nat
          /\ left' <= 2 * timeout' + 1
      BY <3>3
    <3>7. TypeOK'
      BY <2>c, <3>1, <3>2, <3>5, <3>6 DEF IInv, TypeOK, table, array
    <3> QED BY <2>c, <3>1, <3>4, <3>5, <3>6, <3>7 DEF IInv, table, array
  <2>5. CASE PollRefused
    <3>1. ReportsReady'
      BY <2>5 DEF PollRefused, ReportsReady, Nothing, IInv, table
    <3> QED BY <2>5, <3>1 DEF PollRefused, IInv, TypeOK, Made, Nothing, table, array, clock
  <2>6. CASE PollFails
    <3>1. ReportsReady' /\ Made' = Made
      BY <2>6, <2>b DEF PollFails, Leave, table
    <3> QED BY <2>6, <2>c, <3>1 DEF PollFails, Leave, IInv, TypeOK, table, array
  <2>7. CASE Interrupted
    <3>1. ReportsReady' /\ Made' = Made
      BY <2>7, <2>b DEF Interrupted, table
    <3> QED BY <2>7, <2>c, <3>1 DEF Interrupted, IInv, TypeOK, table, array, clock
  <2>8. CASE PollAgain
    <3>1. CASE timeout > 0 /\ left < 0
      <4>1. ReportsReady' /\ Made' = Made
        BY <2>8, <2>b, <3>1 DEF PollAgain, Leave, table
      <4> QED BY <2>8, <2>c, <3>1, <4>1 DEF PollAgain, Leave, IInv, TypeOK, table, array
    <3>2. CASE ~ (timeout > 0 /\ left < 0)
      <4>1. timeout' \in Timeouts \cup {0} \/ \E t \in Timeouts : timeout' \in 0 .. t
        <5>1. CASE timeout > 0
          <6>1. left \in Nat /\ timeout \in Nat /\ left <= 2 * timeout + 1
            BY <2>a, <3>2, <5>1
          <6>2. timeout' \in 0 .. timeout
            BY <2>8, <3>2, <5>1, <6>1 DEF PollAgain
          <6>3. PICK t \in Timeouts : timeout \in 0 .. t
            BY <5>1, <6>1 DEF IInv, TypeOK
          <6> QED BY <6>1, <6>2, <6>3
        <5>2. CASE ~ (timeout > 0)
          BY <2>8, <3>2, <5>2 DEF PollAgain, IInv, TypeOK
        <5> QED BY <5>1, <5>2
      <4>2. /\ IF left' = -2 THEN timeout' = -1 /\ wait' = -2 ELSE timeout' >= 0 /\ wait' \in Nat
            /\ timeout' >= 0 => left' <= 2 * timeout' + 1
        <5>1. CASE timeout > 0
          BY <2>8, <2>a, <3>2, <5>1 DEF PollAgain
        <5>2. CASE timeout \in {-1, 0}
          BY <2>8, <2>a, <3>2, <5>2 DEF PollAgain
        <5> QED BY <2>a, <5>1, <5>2
      <4>3. ReportsReady' /\ Made' = Made
        BY <2>8, <2>b, <3>2 DEF PollAgain, table
      <4> QED BY <2>8, <2>c, <3>2, <4>1, <4>2, <4>3 DEF PollAgain, IInv, TypeOK, table, array
    <3> QED BY <3>1, <3>2
  <2>9. CASE Tick
    <3>1. ReportsReady' /\ Made' = Made
      BY <2>9, <2>b DEF Tick, table
    <3>2. /\ left' \in Nat \cup {-2, -1}
          /\ IF left' = -2 THEN timeout' = -1 /\ wait' = -2 ELSE timeout' >= 0 /\ wait' \in Nat
          /\ timeout' >= 0 => left' <= 2 * timeout' + 1
      BY <2>9, <2>a DEF Tick
    <3> QED BY <2>9, <2>c, <3>1, <3>2 DEF Tick, IInv, TypeOK, table, array
  <2>10. CASE Finalizer
    <3>1. ReportsReady' /\ Made' = Made
      BY <2>10, <2>b DEF Finalizer, table
    <3> QED BY <2>10, <2>c, <3>1 DEF Finalizer, IInv, TypeOK, table, array, clock
  <2>11. CASE UNCHANGED vars
    <3>1. ReportsReady' /\ Made' = Made
      BY <2>11, <2>b DEF vars, table, IInv, ReportsReady
    <3> QED BY <2>11, <2>c, <3>1 DEF vars, IInv, TypeOK, table, array, clock
  <2> QED BY <2>1, <2>2, <2>3, <2>4, <2>5, <2>6, <2>7, <2>8, <2>9, <2>10, <2>11 DEF Next, Ended
<1> QED BY <1>1, <1>2, PTL DEF Spec

(* The poller's variables keep their types, whatever times it waits, and   *)
(* poll(2) is never given a time below 0 by a call that has one.           *)
THEOREM TypeCorrect == Spec => []TypeOK
<1>1. IInv => TypeOK
  BY DEF IInv
<1> QED BY <1>1, IInvInvariant, PTL

(* What a poll returns is what was registered, last and still, and ready;  *)
(* the assertion in idio_libc_poll_poll never fails.                       *)
THEOREM ReportsAll == Spec => []ReportsReady
<1>1. IInv => ReportsReady
  BY DEF IInv
<1> QED BY <1>1, IInvInvariant, PTL

(* The array is written past its end only with more descriptors than       *)
(* make-poller was called with pollees.                                    *)
THEOREM Fits == Spec => []FitsAsGiven
<1>1. IInv => FitsAsGiven
  BY OneSlotEach DEF IInv, FitsAsGiven
<1> QED BY <1>1, IInvInvariant, PTL

(* A poll is refused only after one that raised an error or came back      *)
(* too late from an interruption.                                          *)
THEOREM Refusals == Spec => []RefusedAfterFailure
<1>1. Init => RefusedAfterFailure
  BY DEF Init, RefusedAfterFailure
<1>2. RefusedAfterFailure /\ [Next]_vars => RefusedAfterFailure'
  BY DEF RefusedAfterFailure, Next, vars, table, array, clock, Leave, Register, Deregister,
         PollStarts, PollReturns, PollRefused, PollFails, Interrupted, PollAgain, Tick,
         Finalizer, Ended
<1> QED BY <1>1, <1>2, PTL DEF Spec
=============================================================================
