---------------------------- MODULE MCStructures ----------------------------
(***************************************************************************)
(* The data structures of the store, one at a time: B+-trees, packed       *)
(* arrays, leaves of blobs and strings, typed leaves, and the C facade *)
(* over roots, trees and cursors.  A behaviour picks one structure and     *)
(* only it moves.                                                          *)
(***************************************************************************)
EXTENDS BPlusTree, PackedArray, BlobLeaf, TypedLeaves, StoreApi, TLC

CONSTANTS Pieces,       \* the structures this instance explores
          x1, x2
VARIABLE active

-----------------------------------------------------------------------------
(* Packed arrays *)

\* Values at both sides of every change of width.
MCSigned == {0, 1, 3, 15, 16, -1, 128}
MCUnsigned == {0, 255, 256}
MCDiffs == {1, -1, 255}

Pattern(n, p) == [i \in 1..n |-> p[1 + (i % Len(p))]]

\* Short arrays of any values, and arrays that reach over a word boundary.
Start(k, elems, calls) ==
    {[kind |-> k, ro |-> ro, elems |-> elems, calls |-> calls] : ro \in BOOLEAN}

MCStarts ==
    Start("ArrayUnsigned", <<>>, 3) \cup Start("Array", <<>>, 3)
    \cup UNION {Start("Array", Pattern(n, p), 1) : n \in {15, 16, 17}, p \in {<<1>>, <<0, 1, 1>>}}
    \cup UNION {Start("Array", Pattern(n, <<3, 0, 1>>), 1) : n \in {7, 8, 9}}
    \cup UNION {Start("Array", Pattern(n, p), 1) : n \in {3, 4, 5}, p \in {<<9, 15, 1>>, <<-5, 100>>}}

-----------------------------------------------------------------------------
(* Leaves of blobs *)

A == <<1>>
B == <<2, 0>>
C == <<4, 5, 6>>
D == <<7, 8, 9, 1>>

\* Larger than a packed leaf takes, and larger than a node.
E5 == <<1, 2, 3, 4, 5, 6>>
Huge == <<1, 2, 3, 4, 5, 6, 7, 8, 9>>

BlobSetup(type, elems, values, pairs, bulk, calls) ==
    [type |-> type, elems |-> elems, values |-> values, pairs |-> pairs, bulk |-> bulk,
     calls |-> calls]

MCLeafSetups ==
    {BlobSetup("binary", es, {Null, B, D}, {<<A, <<>>>>, <<D, Null>>}, TRUE, 3) : es \in {<<>>, <<C, B>>}}
    \cup {BlobSetup("binary", es, {Null, <<>>, A, C, E5}, {<<C, A>>, <<A, E5>>}, TRUE, 2) :
              es \in {<<A, B>>, <<C, C, Null>>, <<E5, <<>>>>}}
    \cup {BlobSetup("binary", es, {Null, <<>>, A, Huge}, {}, FALSE, 3) : es \in {<<<<>>, Huge>>, <<C>>}}
    \cup {BlobSetup("string", es, {Null, <<>>, C, D}, {<<A, D>>}, TRUE, 3) : es \in {<<>>, <<A>>}}
    \cup {BlobSetup("string", es, {<<>>, C, E5}, {<<C, E5>>}, TRUE, 2) : es \in {<<C, Null, <<>>>>, <<D, B>>}}

-----------------------------------------------------------------------------
(* Typed leaves *)

MCInts == {-1, 0, 7}

-----------------------------------------------------------------------------
(* The C facade *)

Val(type, item) == [type |-> type, item |-> item]

Client(names, values, long, modes, raw, scan, goesOn) ==
    [names |-> names, values |-> values, long |-> long, modes |-> modes, raw |-> raw, scan |-> scan,
     goesOn |-> goesOn]

\* Roots with trees and with raw structures; a reader beside callbacks that fail in all
\* ways; a tree with cursors
MCClients ==
    {Client({"a", "b"}, {Val("int", 1)}, 1, x1 :> {"write"}, TRUE, FALSE, FALSE),
     Client({"a"}, {Val("int", 1), Val("blob", 1)}, 2, x1 :> {"borrowed"} @@ x2 :> {"read"}, FALSE, FALSE, TRUE),
     Client({"a"}, {Val("int", 1), Val("int", 2)}, 3, x1 :> {"write"}, FALSE, TRUE, TRUE)}

\* The last status is an output
SAView == <<store, callback, client>>

-----------------------------------------------------------------------------
Some(S) == CHOOSE s \in S : TRUE

Init ==
    /\ active \in Pieces
    /\ BTInit
    /\ IF active = "packed" THEN PAInit
       ELSE arr = NoArray /\ other = NoArray /\ paCall = NoCall /\ callsLeft = 0
    /\ BLInit /\ (active # "blobs" => blSetup = Some(LeafSetups))
    /\ TLInit /\ (active # "typed" => kind = "float")
    /\ SAInit /\ (active # "facade" => client = Some(Clients))

Next ==
    \/ active = "tree" /\ BTNext /\ UNCHANGED <<active, paVars, blVars, tlVars, apiVars>>
    \/ active = "packed" /\ PANext /\ UNCHANGED <<active, btVars, blVars, tlVars, apiVars>>
    \/ active = "blobs" /\ BLNext /\ UNCHANGED <<active, btVars, paVars, tlVars, apiVars>>
    \/ active = "typed" /\ TLNext /\ UNCHANGED <<active, btVars, paVars, blVars, apiVars>>
    \/ active = "facade" /\ SANext /\ UNCHANGED <<active, btVars, paVars, blVars, tlVars>>

Spec == Init /\ [][Next]_<<active, btVars, paVars, blVars, tlVars, apiVars>>

\* The calls last made, which only the action properties read, are no part of a
\* state, and the elements of a tree are known by where they are.
View ==
    <<active, CASE active = "tree" -> BTView [] active = "packed" -> PAView [] active = "blobs" -> BLView
                [] active = "typed" -> tlVars [] active = "facade" -> SAView>>
=============================================================================
