--------------------------- MODULE MCDurability ----------------------------
(***************************************************************************)
(* PageReuse on a file of a few blocks, and CommitJournal on a journal of  *)
(* a few words.  A behaviour runs one of the two.  Blocks beyond the first *)
(* end of file are interchangeable, and so are the readers.                *)
(***************************************************************************)
EXTENDS PageReuse, CommitJournal, TLC

CONSTANTS b1, b2, b3, b4, Pieces

VARIABLE piece

MCBlock     == {b1, b2, b3, b4}
MCFirstUsed == {b1}
MCFirstFree == {b2}
Symmetry    == Permutations({b3, b4}) \cup Permutations(Reader)

DurabilityInit ==
    /\ piece \in Pieces
    /\ Init /\ CJInit
    /\ piece = "reuse" => faults = CHOOSE f \in FaultSets : TRUE

DurabilityNext ==
    \/ piece = "reuse" /\ Next /\ UNCHANGED <<piece, cjVars>>
    \/ piece = "journal" /\ CJNext /\ UNCHANGED <<piece, vars>>

DurabilitySpec ==
    DurabilityInit /\ [][DurabilityNext]_<<piece, vars, cjVars>>
=============================================================================
