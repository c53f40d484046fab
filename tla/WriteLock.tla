----------------------------- MODULE WriteLock -----------------------------
(***************************************************************************)
(* Who gets to write: the write mutex and the tickets that make it fair    *)
(* (DB::do_begin_write, do_try_begin_write, finish_begin_write and         *)
(* do_end_write), for threads of any process.                              *)
(*                                                                         *)
(* Tickets wrap around like the uint32_t of SharedInfo, at Wrap here.      *)
(***************************************************************************)
EXTENDS Integers, FiniteSets

CONSTANTS Writer,  \* threads that write
          Rough,   \* those of them that take part in rough behaviours
          Wrap     \* number of ticket values, 2^32 in the code

ASSUME WriteLockAssumption ==
    /\ IsFiniteSet(Writer) /\ Wrap \in Nat /\ Wrap > 2 * (Cardinality(Writer) + 1)
    /\ Rough \subseteq Writer

\* Either every writer only ever blocks, or it is a rough behaviour: writers may
\* time out, wake up spuriously, use the non-blocking call, and find a commit
\* unfinished.
Setups == {[writers |-> Writer, rough |-> FALSE], [writers |-> Rough, rough |-> TRUE]}

VARIABLES setup,       \* the setup of this behaviour
          nextTicket,  \* SharedInfo::next_ticket
          nextServed,  \* SharedInfo::next_served
          holder,      \* holder of the write mutex, if any
          ticket,      \* my_ticket of each writer
          at,          \* where each writer is
          critical     \* commit_in_critical_phase

lockVars == <<setup, nextTicket, nextServed, holder, ticket, at, critical>>

\* int32_t(a - b): positive iff ticket a is in the future.
Distance(a, b) == LET d == (a - b + Wrap) % Wrap
                  IN IF d < Wrap \div 2 THEN d ELSE d - Wrap

Goes(w, there) == at' = [at EXCEPT ![w] = there]

LockInit ==
    /\ setup \in Setups
    /\ nextTicket = 0 /\ nextServed = 0 /\ holder = {}
    /\ ticket = [w \in Writer |-> 0] /\ at = [w \in Writer |-> "idle"]
    /\ critical = FALSE

TakeTicket(w) ==
    /\ at[w] = "idle"
    /\ ticket' = [ticket EXCEPT ![w] = nextTicket]
    /\ nextTicket' = (nextTicket + 1) % Wrap
    /\ Goes(w, "locking")
    /\ UNCHANGED <<setup, nextServed, holder, critical>>

ShouldYield(w) == Distance(ticket[w], nextServed) > 0

\* finish_begin_write, mutex held.  next_served stays where it is when the
\* writer is turned away.
FinishBegin(w) ==
    IF critical THEN holder' = {} /\ Goes(w, "idle")
                ELSE holder' = {w} /\ Goes(w, "writing")

MakeItOurTurn(w) == nextServed' = ticket[w] /\ ticket' = [ticket EXCEPT ![w] = 0]

\* The mutex has been locked, for the first time or by the wait that ends:
\* yield, or write.  A wait releases the mutex in the same step.
Lock(w) ==
    /\ at[w] \in {"locking", "woken"} /\ holder = {}
    /\ \/ /\ ShouldYield(w) /\ Goes(w, "waiting")
          /\ UNCHANGED <<nextServed, holder, ticket>>
       \/ /\ ~ShouldYield(w)
          /\ MakeItOurTurn(w) /\ FinishBegin(w)
    /\ UNCHANGED <<setup, nextTicket, critical>>

\* 500 ms have passed: no more yielding.
TimedOut(w) ==
    /\ setup.rough /\ at[w] \in {"waiting", "woken"} /\ holder = {}
    /\ MakeItOurTurn(w) /\ FinishBegin(w)
    /\ UNCHANGED <<setup, nextTicket, critical>>

SpuriousWakeUp(w) ==
    /\ setup.rough /\ at[w] = "waiting"
    /\ Goes(w, "woken")
    /\ UNCHANGED <<setup, nextTicket, nextServed, holder, ticket, critical>>

\* do_try_begin_write takes no ticket.
TryBegin(w) ==
    /\ setup.rough /\ at[w] = "idle" /\ holder = {}
    /\ FinishBegin(w)
    /\ UNCHANGED <<setup, nextTicket, nextServed, ticket, critical>>

Woken == [v \in Writer |-> IF at[v] = "waiting" THEN "woken" ELSE at[v]]

EndWithoutServing(w) ==                                          \* mutant
    /\ at[w] = "writing"
    /\ at' = [Woken EXCEPT ![w] = "idle"] /\ holder' = {}
    /\ UNCHANGED <<setup, nextTicket, nextServed, ticket, critical>>

\* do_end_write
EndWrite(w) ==
    /\ at[w] = "writing"
    /\ nextServed' = (nextServed + 1) % Wrap
    /\ at' = [Woken EXCEPT ![w] = "idle"] /\ holder' = {}
    /\ UNCHANGED <<setup, nextTicket, ticket, critical>>

\* The commit of a writer fails half way, or its process dies in it: the flag
\* stays up until the session is restarted, which resets the lock file.
CommitFails(w) ==
    /\ setup.rough /\ at[w] = "writing"
    /\ critical' = TRUE
    /\ nextServed' = (nextServed + 1) % Wrap
    /\ at' = [Woken EXCEPT ![w] = "idle"] /\ holder' = {}
    /\ UNCHANGED <<setup, nextTicket, ticket>>

RestartSession ==
    /\ critical /\ \A w \in Writer : at[w] = "idle"
    /\ nextTicket' = 0 /\ nextServed' = 0 /\ critical' = FALSE
    /\ UNCHANGED <<setup, holder, ticket, at>>

LockNext ==
    \/ \E w \in setup.writers : \/ TakeTicket(w) \/ Lock(w) \/ TimedOut(w) \/ SpuriousWakeUp(w)
                         \/ TryBegin(w) \/ EndWrite(w) \/ CommitFails(w)
    \/ RestartSession

\* A thread that may run does, a write comes to its end and a wait that has a
\* time limit ends.  Where every writer only blocks nothing says that the mutex
\* is fair; rough behaviours need a fair one.
ComesIn(w) == TimedOut(w) \/ (setup.rough /\ at[w] = "locking" /\ Lock(w))
LockFairness ==
    \A w \in Writer : /\ WF_lockVars(Lock(w) \/ EndWrite(w))
                       /\ SF_lockVars(ComesIn(w))
LockSpec == LockInit /\ [][LockNext]_lockVars /\ LockFairness

-----------------------------------------------------------------------------
(* Properties *)

Queued == {w \in Writer : at[w] \in {"locking", "waiting", "woken"}}

\* Without time-outs and non-blocking calls next_served is the oldest ticket
\* out, or the next one to be given: nobody waits for a ticket that is gone.
ServedIsOldest ==
    ~setup.rough =>
        /\ \A w \in Queued : Distance(ticket[w], nextServed) \in 0 .. Cardinality(setup.writers) - 1
        /\ \A v, w \in Queued : v # w => ticket[v] # ticket[w]
        /\ Distance(nextTicket, nextServed) = Cardinality(Queued \cup holder)
=============================================================================
