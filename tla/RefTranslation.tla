--------------------------- MODULE RefTranslation ---------------------------
(***************************************************************************)
(* One entry of the translation table, read by threads without a lock      *)
(* (Allocator::translate_critical, translate_less_critical), extended with *)
(* a cross-over mapping for the array that straddles the end of the        *)
(* section (get_or_add_xover_mapping) and copied into a new table while    *)
(* they do so (RefTranslation::operator=).                                 *)
(***************************************************************************)
EXTENDS Integers, FiniteSets

CONSTANTS
    TranslatingThreads,
    SectionEnd,    \* 1 << section_shift
    Arrays,        \* records [off, size]: the arrays that start in the section
    TranslateCalls \* bound: translations by each thread

ASSUME TranslationAssumption ==
    /\ SectionEnd \in Nat /\ TranslateCalls \in Nat
    /\ Arrays \subseteq [off : 0 .. SectionEnd - 1, size : Nat \ {0}]
    /\ \A a, b \in Arrays : a # b => a.off + a.size <= b.off \/ b.off + b.size <= a.off

VARIABLES
    entry,   \* table number -> [lowest, addr, base]; a null addr is 0
    current, \* the table m_ref_translation_ptr points at
    mapped,  \* MapEntry::xover_mapping: 0, or the offset it starts at plus one
    thread,  \* the threads in translate()
    mutex,   \* m_mapping_mutex
    copier,  \* the thread that builds a new table
    callsOf

rtVars == <<entry, current, mapped, thread, mutex, copier, callsOf>>

Crosses(a) == a.off + a.size > SectionEnd

Resting == [pc |-> "rest", array |-> [off |-> 0, size |-> 0], table |-> 1, seen |-> 0, via |-> "none"]
NoCopy == [pc |-> "rest", addr |-> 0]

RTInit ==
    /\ entry = [t \in {1, 2} |-> [lowest |-> 0, addr |-> 0, base |-> 0]]
    /\ current = 1
    /\ mapped = 0
    /\ thread = [t \in TranslatingThreads |-> Resting]
    /\ mutex = "free"
    /\ copier = NoCopy
    /\ callsOf = [t \in TranslatingThreads |-> TranslateCalls]

\* translate(): the table and the array a thread asks for
RTStart(t, a) ==
    /\ thread[t].pc = "rest"
    /\ callsOf[t] > 0
    /\ callsOf' = [callsOf EXCEPT ![t] = @ - 1]
    /\ thread' = [thread EXCEPT ![t] = [Resting EXCEPT !.pc = "limit", !.array = a, !.table = current]]
    /\ UNCHANGED <<entry, current, mapped, mutex, copier>>

\* translate_critical(): below the limit the primary mapping is used unseen
RTLimit(t) ==
    /\ thread[t].pc = "limit"
    /\ thread' = [thread EXCEPT ![t] =
                     IF @.array.off < entry[@.table].lowest THEN [@ EXCEPT !.pc = "done", !.via = "primary"]
                     ELSE [@ EXCEPT !.pc = "load"]]
    /\ UNCHANGED <<entry, current, mapped, mutex, copier, callsOf>>

\* translate_less_critical(): the limit as this thread sees it
RTLoad(t) ==
    /\ thread[t].pc = "load"
    /\ thread' = [thread EXCEPT ![t].pc = "raise", ![t].seen = entry[thread[t].table].lowest]
    /\ UNCHANGED <<entry, current, mapped, mutex, copier, callsOf>>

NewLimit(a) == a.off + (IF Crosses(a) THEN 0 ELSE a.size)

\* compare_exchange_weak() on the limit
Unchanged(now, seen) == now = seen

\* the limit only grows; a lost exchange reloads it
RTRaise(t) ==
    /\ thread[t].pc = "raise"
    /\ LET e == entry[thread[t].table]
           limit == NewLimit(thread[t].array)
           next == IF Crosses(thread[t].array) THEN "xover" ELSE "fits"
       IN IF limit <= thread[t].seen
          THEN thread' = [thread EXCEPT ![t].pc = next] /\ UNCHANGED entry
          ELSE IF Unchanged(e.lowest, thread[t].seen)
          THEN /\ entry' = [entry EXCEPT ![thread[t].table].lowest = limit]
               /\ thread' = [thread EXCEPT ![t].pc = next]
          ELSE thread' = [thread EXCEPT ![t].seen = e.lowest] /\ UNCHANGED entry
    /\ UNCHANGED <<current, mapped, mutex, copier, callsOf>>

RTFits(t) ==
    /\ thread[t].pc = "fits"
    /\ thread' = [thread EXCEPT ![t].pc = "done", ![t].via = "primary"]
    /\ UNCHANGED <<entry, current, mapped, mutex, copier, callsOf>>

\* an established cross-over mapping is used, else one is asked for
RTXover(t) ==
    /\ thread[t].pc = "xover"
    /\ thread' = [thread EXCEPT ![t].pc = IF entry[thread[t].table].addr # 0 THEN "cross" ELSE "lock"]
    /\ UNCHANGED <<entry, current, mapped, mutex, copier, callsOf>>

\* get_or_add_xover_mapping(), under the mapping mutex
RTLock(t) ==
    /\ thread[t].pc = "lock"
    /\ mutex = "free"
    /\ mutex' = t
    /\ thread' = [thread EXCEPT ![t].pc = "add"]
    /\ UNCHANGED <<entry, current, mapped, copier, callsOf>>

\* mutant: the address is published before the base is written
StoredBackwards(e, off, first) == IF first THEN [e EXCEPT !.addr = off + 1] ELSE [e EXCEPT !.base = off]

\* the two stores to the entry: the base, then the address with release order
Stored(e, off, first) == IF first THEN [e EXCEPT !.base = off] ELSE [e EXCEPT !.addr = off + 1]

RTAdd(t) ==
    /\ thread[t].pc = "add"
    /\ LET off == thread[t].array.off IN
       IF entry[thread[t].table].addr # 0
       THEN /\ mutex' = "free"
            /\ thread' = [thread EXCEPT ![t].pc = "cross"]
            /\ UNCHANGED <<entry, mapped>>
       ELSE /\ mapped' = IF mapped = 0 THEN off + 1 ELSE mapped
            /\ entry' = [entry EXCEPT ![thread[t].table] = Stored(@, off, TRUE)]
            /\ thread' = [thread EXCEPT ![t].pc = "publish"]
            /\ UNCHANGED mutex
    /\ UNCHANGED <<current, copier, callsOf>>

RTPublish(t) ==
    /\ thread[t].pc = "publish"
    /\ entry' = [entry EXCEPT ![thread[t].table] = Stored(@, thread[t].array.off, FALSE)]
    /\ mutex' = "free"
    /\ thread' = [thread EXCEPT ![t].pc = "cross"]
    /\ UNCHANGED <<current, mapped, copier, callsOf>>

RTCross(t) ==
    /\ thread[t].pc = "cross"
    /\ thread' = [thread EXCEPT ![t].pc = "done", ![t].via = IF entry[thread[t].table].base = thread[t].array.off THEN "xover" ELSE "wrong"]
    /\ UNCHANGED <<entry, current, mapped, mutex, copier, callsOf>>

RTDone(t) ==
    /\ thread[t].pc = "done"
    /\ thread' = [thread EXCEPT ![t] = Resting]
    /\ UNCHANGED <<entry, current, mapped, mutex, copier, callsOf>>

\* extend_fast_mapping_with_slab(): entries are copied, under the mutex, into
\* the table that replaces the current one; translations go on meanwhile
RTCopyStart ==
    /\ copier.pc = "rest"
    /\ current = 1
    /\ mutex = "free"
    /\ mutex' = "copier"
    /\ copier' = [pc |-> "limit", addr |-> entry[1].addr]
    /\ UNCHANGED <<entry, current, mapped, thread, callsOf>>

RTCopyLimit ==
    /\ copier.pc = "limit"
    /\ entry' = [entry EXCEPT ![2].lowest = entry[1].lowest]
    /\ copier' = [copier EXCEPT !.pc = "xover"]
    /\ UNCHANGED <<current, mapped, thread, mutex, callsOf>>

RTCopyXover ==
    /\ copier.pc = "xover"
    /\ entry' = IF copier.addr = 0 THEN entry
                ELSE [entry EXCEPT ![2].base = entry[1].base, ![2].addr = copier.addr]
    /\ current' = 2
    /\ mutex' = "free"
    /\ copier' = NoCopy
    /\ UNCHANGED <<mapped, thread, callsOf>>

RTRest == (\A t \in TranslatingThreads : thread[t].pc = "rest" /\ callsOf[t] = 0) /\ UNCHANGED rtVars

RTNext ==
    \/ \E t \in TranslatingThreads :
          \/ \E a \in Arrays : RTStart(t, a)
          \/ RTLimit(t) \/ RTLoad(t) \/ RTRaise(t) \/ RTFits(t) \/ RTXover(t) \/ RTLock(t)
          \/ RTAdd(t) \/ RTPublish(t) \/ RTCross(t) \/ RTDone(t)
    \/ RTCopyStart \/ RTCopyLimit \/ RTCopyXover \/ RTRest

RTSpec == RTInit /\ [][RTNext]_rtVars

-----------------------------------------------------------------------------
(* Properties. *)

\* A translation never hands out the primary mapping for the array that runs
\* past its end, nor a cross-over mapping read before its base was written.
RightMapping ==
    \A t \in TranslatingThreads :
        thread[t].pc = "done" => thread[t].via = (IF Crosses(thread[t].array) THEN "xover" ELSE "primary")

\* Once a cross-over mapping is published in an entry its limit is the start
\* of the crossing array and never moves again, in the copy as well (the
\* ordering promised in the comment of RefTranslation).
LimitFinal == \A t \in {1, 2} : entry[t].addr # 0 => entry[t].lowest = entry[t].base

\* The limit of an entry never falls, whatever exchange a thread loses.
LimitGrows == [][\A t \in {1, 2} : entry'[t].lowest >= entry[t].lowest]_rtVars

\* Translation without a lock is right for every array and thread: the limit
\* only grows, is final once a cross-over mapping is published, and nobody is
\* sent to the wrong mapping.
TranslationSound ==
    /\ [](RightMapping /\ LimitFinal)
    /\ LimitGrows
=============================================================================
