----------------------------- MODULE Snapshots -----------------------------
(***************************************************************************)
(* What the version list of the lock file promises its users: a set of     *)
(* snapshots that may be read, the newest of them, and transactions that   *)
(* pin one each.  Which shared counters, per-process caches and slots      *)
(* provide this is the business of Sessions, which implements it.          *)
(***************************************************************************)
EXTENDS Naturals

CONSTANTS Txn,         \* transactions, at most one snapshot each
          MaxVersion   \* bound on the versions of a behaviour

VARIABLES kept,     \* versions that can still be read
          current,  \* the newest of them
          pin       \* version each transaction is bound to, 0 if none

snapshotVars == <<kept, current, pin>>

Pinned == {pin[t] : t \in Txn} \ {0}

SnapshotsInit ==
    /\ kept = {1}
    /\ current = 1
    /\ pin = [t \in Txn |-> 0]

\* A transaction binds a snapshot that is still there, or moves on from the
\* one it is bound to; never to an older one.
Bind(t, v) ==
    /\ v \in kept
    /\ v >= pin[t]
    /\ pin' = [pin EXCEPT ![t] = v]
    /\ UNCHANGED <<kept, current>>

\* Transactions end: one of its own accord, all those of a process that
\* closes its database or dies.
Unbind(gone) ==
    /\ pin' = [t \in Txn |-> IF t \in gone THEN 0 ELSE pin[t]]
    /\ UNCHANGED <<kept, current>>

\* Snapshots nobody has pinned are forgotten, never the newest.
Forget(old) ==
    /\ old \cap (Pinned \cup {current}) = {}
    /\ kept' = kept \ old
    /\ UNCHANGED <<current, pin>>

\* A commit adds its version.
Publish ==
    /\ current' = current + 1
    /\ kept' = kept \cup {current'}
    /\ UNCHANGED pin

\* A new session, or a compacted file: nobody has anything pinned, and
\* reading starts from what the file holds, which may be a commit whose
\* process died before it could publish it.
Restart ==
    /\ Pinned = {}
    /\ current' \in {current, current + 1}
    /\ kept' = {current'}
    /\ UNCHANGED pin

SnapshotsNext ==
    \/ \E t \in Txn, v \in 1 .. MaxVersion : Bind(t, v)
    \/ \E gone \in SUBSET Txn : Unbind(gone)
    \/ \E old \in SUBSET kept : Forget(old)
    \/ Publish
    \/ Restart

SnapshotsSpec == SnapshotsInit /\ [][SnapshotsNext]_snapshotVars
=============================================================================
