-------------------------------- MODULE Poller --------------------------------
(***************************************************************************)
(* Pollers, src/src/libc-poll.c: a program registers descriptors with one  *)
(* and then waits, for a time or for ever, for some of them to be ready.   *)
(*                                                                         *)
(* What is registered is a hash table, `fd_map'; what poll(2) reads is an  *)
(* array made from it when a poll starts and `valid' says it is out of     *)
(* date.  A signal sends poll(2) back with EINTR and poller-poll goes      *)
(* round again with the time that is left.                                 *)
(***************************************************************************)
EXTENDS Integers, Sequences, FiniteSets, Functions

CONSTANTS
    Fdh,        \* what a program registers: file handles and C/ints
    Fd,         \* descriptors
    FdOf,       \* IDIO_FILE_HANDLE_FD and IDIO_C_TYPE_int
    Event,      \* what can be asked for: POLLIN, POLLOUT
    Always,     \* what poll(2) reports unasked: POLLHUP
    Timeouts,   \* bound: the times to wait, in milliseconds
    MaxGiven    \* bound: pollees make-poller is called with

ASSUME PollerAssumption ==
    /\ FdOf \in [Fdh -> Fd]
    /\ Event \cap Always = {}
    /\ Timeouts \subseteq Nat \cup {-1}
    /\ MaxGiven \in Nat

VARIABLES
    fd_map, valid, in_use,      \* of the poller
    slots, fds,     \* the slots of the array, what is in the first nfds
    pc,             \* where poller-poll is
    timeout,        \* its argument and variable, in milliseconds
    left, wait,     \* half milliseconds to tt, and to the end of poll(2),
                    \* both -2 for a call without a time to wait
    given,          \* history: the pollees make-poller was called with
    failed,         \* history: a poll raised an error, or ran out of time
                    \* while it was interrupted
    got             \* history: what was ready and what the poll returned

table == <<fd_map, valid>>
array == <<slots, fds>>
clock == <<timeout, left, wait>>
vars == <<table, in_use, array, pc, clock, given, failed, got>>

Pollee == [fdh : Fdh, events : (SUBSET Event) \ {{}}]
Entry == [fd : Fd, events : SUBSET Event]
Nothing == [ready |-> {}, returned |-> {}]

(* idio_hash_put: the descriptor is the key, the last pollee stays.        *)
Put(map, p) ==
    [d \in DOMAIN map \cup {FdOf[p.fdh]} |-> IF d = FdOf[p.fdh] THEN p ELSE map[d]]

Registered(ps) ==
    LET last(d) == CHOOSE i \in DOMAIN ps :
                      /\ FdOf[ps[i].fdh] = d
                      /\ \A j \in DOMAIN ps : FdOf[ps[j].fdh] = d => j <= i
    IN  [d \in {FdOf[ps[i].fdh] : i \in DOMAIN ps} |-> ps[last(d)]]

(* Faulty variant: room for each descriptor once.                          *)
SlotsForEach(ps) == Cardinality({FdOf[ps[i].fdh] : i \in DOMAIN ps})

(* make-poller has a slot for each pollee it is given.                     *)
SlotsFor(ps) == Len(ps)

Init ==
    /\ \E n \in 0 .. MaxGiven : \E ps \in [1 .. n -> Pollee] :
          /\ fd_map = Registered(ps)
          /\ slots = SlotsFor(ps)
          /\ given = n
    /\ valid = FALSE /\ in_use = FALSE
    /\ fds = {}
    /\ pc = "idle"
    /\ timeout = 0 /\ left = 0 /\ wait = 0
    /\ failed = FALSE
    /\ got = Nothing

-----------------------------------------------------------------------------
(* The program's calls.                                                    *)

Register(p) ==
    /\ pc = "idle"
    /\ fd_map' = Put(fd_map, p)
    /\ valid' = FALSE
    /\ got' = Nothing
    /\ UNCHANGED <<in_use, array, pc, clock, given, failed>>

(* Faulty variant: the array stays as it is.                               *)
DeregisterQuietly(h) ==
    /\ pc = "idle"
    /\ fd_map' = [d \in DOMAIN fd_map \ {FdOf[h]} |-> fd_map[d]]
    /\ got' = Nothing
    /\ UNCHANGED <<valid, in_use, array, pc, clock, given, failed>>

Deregister(h) ==
    /\ pc = "idle"
    /\ fd_map' = [d \in DOMAIN fd_map \ {FdOf[h]} |-> fd_map[d]]
    /\ valid' = FALSE
    /\ got' = Nothing
    /\ UNCHANGED <<in_use, array, pc, clock, given, failed>>

PollRefused ==
    /\ pc = "idle" /\ in_use
    /\ got' = Nothing
    /\ UNCHANGED <<table, in_use, array, pc, clock, given, failed>>

(* idio_libc_poll_set_pollfds sets nfds first, so that its comparison with *)
(* the number of keys never enlarges the array: beyond the slots that are  *)
(* there it writes over something else and nothing more can be said.       *)
PollStarts(t) ==
    /\ pc = "idle" /\ ~in_use
    /\ in_use' = TRUE
    /\ valid' = TRUE
    /\ fds' = IF valid THEN fds
              ELSE {[fd |-> d, events |-> fd_map[d].events] : d \in DOMAIN fd_map}
    /\ timeout' = t /\ left' = 2 * t /\ wait' = 2 * t
    /\ pc' = IF Cardinality(fds') <= slots THEN "polling" ELSE "overrun"
    /\ got' = Nothing
    /\ UNCHANGED <<fd_map, slots, given, failed>>

-----------------------------------------------------------------------------
(* The call returns and its variables are gone.                            *)
Leave(to) == pc' = to /\ timeout' = 0 /\ left' = 0 /\ wait' = 0

(* The kernel's side of it: time passes, poll(2) returns, is interrupted,  *)
(* if it has no time to wait as well, or fails.                            *)

Tick ==
    /\ pc \in {"polling", "again"}
    /\ left > -1
    /\ left' = left - 1
    /\ wait' = IF wait > 0 THEN wait - 1 ELSE wait
    /\ UNCHANGED <<table, in_use, array, pc, timeout, given, failed, got>>

Reported(ready) ==
    {[fd |-> e.fd, revents |-> {v \in e.events \cup Always : <<e.fd, v>> \in ready}] :
        e \in fds}

(* Faulty variant: the poller stays in use.                                *)
PollReturnsInUse(ready) ==
    /\ pc = "polling"
    /\ LET r == {e \in Reported(ready) : e.revents # {}} IN
       /\ r # {} \/ wait = 0
       /\ IF \A e \in r : e.fd \in DOMAIN fd_map
          THEN /\ Leave("idle")
               /\ got' = [ready |-> ready,
                          returned |-> {<<fd_map[e.fd].fdh, e.revents>> : e \in r}]
          ELSE Leave("aborted") /\ UNCHANGED got
    /\ UNCHANGED <<table, in_use, array, given, failed>>

(* poll(2) found something or its time is over.  A descriptor that is not  *)
(* registered fails an assertion.                                          *)
PollReturns(ready) ==
    /\ pc = "polling"
    /\ in_use' = FALSE
    /\ LET r == {e \in Reported(ready) : e.revents # {}} IN
       /\ r # {} \/ wait = 0
       /\ IF \A e \in r : e.fd \in DOMAIN fd_map
          THEN /\ Leave("idle")
               /\ got' = [ready |-> ready,
                          returned |-> {<<fd_map[e.fd].fdh, e.revents>> : e \in r}]
          ELSE Leave("aborted") /\ UNCHANGED got
    /\ UNCHANGED <<table, array, given, failed>>

PollFails ==
    /\ pc = "polling"
    /\ Leave("idle")
    /\ failed' = TRUE
    /\ UNCHANGED <<table, in_use, array, given, got>>

Interrupted ==
    /\ pc = "polling"
    /\ pc' = "again"
    /\ UNCHANGED <<table, in_use, array, clock, given, failed, got>>

(* Faulty variant: what is left is not compared with 0.                    *)
PollAgainLate ==
    /\ pc = "again"
    /\ pc' = "polling"
    /\ timeout' = IF timeout > 0 THEN left \div 2 ELSE timeout
    /\ wait' = 2 * timeout'
    /\ UNCHANGED <<table, in_use, array, left, given, failed, got>>

(* Faulty variant: the whole time again.                                   *)
PollAgainFull ==
    /\ pc = "again"
    /\ pc' = "polling"
    /\ wait' = 2 * timeout
    /\ UNCHANGED <<table, in_use, array, timeout, left, given, failed, got>>

(* The second and later times round the loop, with the milliseconds that   *)
(* are left.  When the time has passed the call returns from there, and    *)
(* the poller stays in use.                                                *)
PollAgain ==
    /\ pc = "again"
    /\ IF timeout > 0 /\ left < 0
       THEN Leave("idle") /\ failed' = TRUE
       ELSE /\ pc' = "polling"
            /\ timeout' = IF timeout > 0 THEN left \div 2 ELSE timeout
            /\ wait' = 2 * timeout'
            /\ UNCHANGED <<left, failed>>
    /\ UNCHANGED <<table, in_use, array, given, got>>

-----------------------------------------------------------------------------
(* idio_libc_poll_finalizer: the poller is garbage.                        *)
Finalizer ==
    /\ pc = "idle"
    /\ pc' = "freed"
    /\ UNCHANGED <<table, in_use, array, clock, given, failed, got>>

Ended == pc \in {"freed", "overrun", "aborted"} /\ UNCHANGED vars

Next ==
    \/ \E p \in Pollee : Register(p)
    \/ \E h \in Fdh : Deregister(h)
    \/ \E t \in Timeouts : PollStarts(t)
    \/ \E ready \in SUBSET (Fd \X (Event \cup Always)) : PollReturns(ready)
    \/ PollRefused \/ PollFails \/ Interrupted \/ PollAgain
    \/ Tick \/ Finalizer \/ Ended

Spec == Init /\ [][Next]_vars

(* Time passes, and the program that was interrupted goes on.  Signals do  *)
(* not arrive in every single poll(2) whose time is over, so one of those  *)
(* returns: poller-poll goes round again for as long as they do.           *)
FairSpec ==
    /\ Spec
    /\ WF_vars(Tick)
    /\ SF_vars(PollReturns({}))
    /\ WF_vars(PollAgain)

-----------------------------------------------------------------------------
(* The variables keep their types, and a call with a time to wait never    *)
(* asks poll(2) to wait for less than no time, which means for ever: what  *)
(* is left is looked at before it is passed on.                            *)
TypeOK ==
    /\ DOMAIN fd_map \subseteq Fd
    /\ \A d \in DOMAIN fd_map : fd_map[d] \in Pollee /\ FdOf[fd_map[d].fdh] = d
    /\ valid \in BOOLEAN /\ in_use \in BOOLEAN /\ failed \in BOOLEAN
    /\ slots \in 0 .. MaxGiven /\ given \in 0 .. MaxGiven
    /\ fds \subseteq Entry
    /\ pc \in {"idle", "polling", "again", "overrun", "aborted", "freed"}
    /\ timeout \in Timeouts \cup {0} \/ \E t \in Timeouts : timeout \in 0 .. t
    /\ left \in Nat \cup {-2, -1}
    /\ IF left = -2 THEN timeout = -1 /\ wait = -2 ELSE timeout >= 0 /\ wait \in Nat
    /\ got.ready \subseteq Fd \X (Event \cup Always)

(* A poll returns every registered descriptor that was ready and no other, *)
(* each with the handle registered last for it and what was asked of that, *)
(* whatever was registered and deregistered since the array was made: the  *)
(* assertion in idio_libc_poll_poll that a descriptor of the array is a    *)
(* key of fd_map does not fail.                                            *)
ReportsReady ==
    LET revents(d) == {v \in fd_map[d].events \cup Always : <<d, v>> \in got.ready}
        ready == {d \in DOMAIN fd_map : revents(d) # {}}
    IN  /\ pc # "aborted"
        /\ got.returned = {<<fd_map[d].fdh, revents(d)>> : d \in ready}

(* What idio_libc_poll_set_pollfds writes fits the array as long as no     *)
(* more descriptors are registered at once than make-poller was called     *)
(* with; beyond that it does not, the array is never made larger.          *)
FitsAsGiven == pc = "overrun" => Cardinality(DOMAIN fd_map) > given

(* poller-poll refuses a poller as in use only when an earlier call raised *)
(* an error, or came back from an interruption after its time was over:    *)
(* the returns of idio_libc_poll_poll that leave in_use set.               *)
RefusedAfterFailure == pc = "idle" /\ in_use => failed

(* A poll with a time to wait comes back, whenever and however often       *)
(* signals interrupt it, since each time round it waits for what is left.  *)
PollEnds == (pc = "polling" /\ timeout >= 0) ~> (pc = "idle")
=============================================================================
