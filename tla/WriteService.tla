---------------------------- MODULE WriteService ----------------------------
(***************************************************************************)
(* What Store::write() promises its callers (core.hpp), without            *)
(* leaders, batches or locks.  Calls are numbered as they arrive.  A call  *)
(* is committed at most once, in arrival order, possibly together with     *)
(* others under one version, and then answered.  An answer with a version  *)
(* names the commit the call is part of; an answer that reports the        *)
(* closure's own exception, or that no transaction could be begun, means   *)
(* the call is part of no commit, now or later; a failed commit leaves     *)
(* that open.                                                              *)
(***************************************************************************)
EXTENDS Naturals, Sequences

CONSTANT MaxCalls   \* bound on the calls of a behaviour

VARIABLES arrived,     \* number of calls so far
          version,     \* newest version of the file
          log,         \* committed calls with their versions, in order
          outcome      \* call -> what its caller was told

serviceVars == <<arrived, version, log, outcome>>

Calls     == 1 .. MaxCalls
NoOutcome == [kind |-> "none", version |-> 0]
Errors    == {"closure", "begin", "commit"}
Answers   == [kind : {"version"}, version : Nat \ {0}]
                \cup [kind : Errors, version : {0}]

InLog(c) == \E i \in DOMAIN log : log[i].call = c

ServiceInit ==
    /\ arrived = 0 /\ version = 0
    /\ log = <<>>
    /\ outcome = [c \in Calls |-> NoOutcome]

Submit ==
    /\ arrived < MaxCalls
    /\ arrived' = arrived + 1
    /\ UNCHANGED <<version, log, outcome>>

\* A commit of some unanswered calls, all younger than the ones committed
\* before, or of a writer outside the service.
CommitCalls ==
    /\ version' = version + 1
    /\ Len(log) <= Len(log') /\ SubSeq(log', 1, Len(log)) = log
    /\ \A i \in Len(log) + 1 .. Len(log') :
         /\ log'[i].version = version'
         /\ log'[i].call \in 1 .. arrived
         /\ outcome[log'[i].call] = NoOutcome
         /\ \A j \in 1 .. i - 1 : log'[j].call < log'[i].call
    /\ UNCHANGED <<arrived, outcome>>

Answer(c, a) ==
    /\ c <= arrived /\ outcome[c] = NoOutcome /\ a \in Answers
    /\ a.kind = "version" => [call |-> c, version |-> a.version] \in
                                {log[i] : i \in DOMAIN log}
    /\ a.kind \in {"closure", "begin"} => ~InLog(c)
    /\ outcome' = [outcome EXCEPT ![c] = a]
    /\ UNCHANGED <<arrived, version, log>>

ServiceNext ==
    \/ Submit
    \/ CommitCalls
    \/ \E c \in Calls : Answer(c, outcome'[c])

Service == ServiceInit /\ [][ServiceNext]_serviceVars
=============================================================================
