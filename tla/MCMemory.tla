------------------------------ MODULE MCMemory ------------------------------
(***************************************************************************)
(* Memory and file space, one piece at a time: the slab allocator, the     *)
(* mappings readers and a writer share, the translation of refs, the       *)
(* allocation of file space, the windows a commit writes through,          *)
(* encrypted pages, and files.  A behaviour picks one piece and only that  *)
(* piece moves.                                                            *)
(***************************************************************************)
EXTENDS SlabAlloc, ReaderView, RefTranslation, FileSpace, WriteWindows, EncryptedPages, FileIO, TLC

CONSTANTS Pieces,       \* the pieces this instance explores
          p1, p2, r1, x1, w1, w2, h1, h2, na, nb
VARIABLE active

-----------------------------------------------------------------------------
(* The slab allocator *)

MCFileNodes == {[ref |-> 3, size |-> 2], [ref |-> 5, size |-> 3], [ref |-> 8, size |-> 1]}
MCFileSizes == <<12, 20, 40>>

-----------------------------------------------------------------------------
(* The view of readers *)

\* one process whose files may shrink, and two whose files only grow, where a
\* mapping can be extended in place and where it cannot
MCGrowing == {[others |-> FALSE, shrinks |-> TRUE, extends |-> FALSE]}
             \cup {[others |-> TRUE, shrinks |-> FALSE, extends |-> e] : e \in BOOLEAN}

-----------------------------------------------------------------------------
(* The translation of refs *)

MCArrays == {[off |-> 0, size |-> 2], [off |-> 3, size |-> 1], [off |-> 5, size |-> 4]}

-----------------------------------------------------------------------------
(* File space *)

\* A new file, a large file that is nearly empty, with an array at its end,
\* and one whose evacuation has been decided.
MCFirstFiles ==
    {[logical |-> 8, used |-> {}, lists |-> Chunk(1, 2), limit |-> 0],
     [logical |-> 40, used |-> {Chunk(37, 2)}, lists |-> Chunk(2, 4), limit |-> 0],
     [logical |-> 40, used |-> {Chunk(1, 2), Chunk(30, 3), Chunk(34, 1)},
      lists |-> Chunk(12, 4), limit |-> 16]}

MCRequests == {<<>>, <<5, 1>>}

-----------------------------------------------------------------------------
(* Write windows *)

MCWindowRequests == {[ref |-> 3, size |-> 2],
                     [ref |-> 5, size |-> 2], [ref |-> 8, size |-> 1]}
MCWindowSetups == {[encrypted |-> e, pwrite |-> p, unsafe |-> u] :
                     e \in BOOLEAN, p \in BOOLEAN, u \in BOOLEAN}
                  \ {[encrypted |-> TRUE, pwrite |-> TRUE, unsafe |-> u] : u \in BOOLEAN}

-----------------------------------------------------------------------------
(* Encrypted pages *)

MCMaps == r1 :> p1 @@ x1 :> p1 @@ w1 :> p1 @@ w2 :> p2
\* One process with two reading mappings and a window; one that crashes, on a
\* disk that reorders; and a reader and a writer process
MCTwoProcesses == {[maps |-> {r1, w2}, elsewhere |-> TRUE, failures |-> 0, versions |-> 2]}
MCScenes == {[maps |-> {r1, x1, w1}, elsewhere |-> FALSE, failures |-> 0, versions |-> 2],
             [maps |-> {r1, w1}, elsewhere |-> FALSE, failures |-> 1, versions |-> 2]}
            \cup MCTwoProcesses

-----------------------------------------------------------------------------
(* Files *)

\* Openers that race with each other and with removal; copies over files of
\* every length; preallocation; a stream whose writes are cut short and fail
MCIOScenes ==
    {[calls |-> {"create", "remove", "move"}, users |-> {h1, h2}, start |-> {<<1>>}, origin |-> NoName],
     [calls |-> {"copy", "open", "resize"}, users |-> {h1}, start |-> {<<>>, <<1>>, <<1, 2>>, <<1, 2, 1>>, <<1, 2, 1, 2>>}, origin |-> na],
     [calls |-> {"open", "prealloc", "resize", "fail"}, users |-> {h1}, start |-> {<<1, 2>>}, origin |-> na],
     [calls |-> {"open", "prealloc", "fallocate"}, users |-> {h1}, start |-> {<<1, 2>>}, origin |-> na],
     [calls |-> {"create", "stream", "fail"}, users |-> {h1}, start |-> {<<>>}, origin |-> NoName]}

-----------------------------------------------------------------------------
Some(S) == CHOOSE s \in S : TRUE

Init ==
    /\ active \in Pieces
    /\ SAInit
    /\ RVInit /\ (active # "view" => rvSetup = Some(ViewSetups))
    /\ RTInit
    /\ FSInit /\ (active # "space" => snap = FirstSnapshot(Some(FirstFiles)))
    /\ WWInit /\ (active # "windows" => wsetup = Some(WindowSetups))
    /\ EPInit /\ (active # "pages" => scene = Some(Scenes))
    /\ FIOInit /\ (active # "file" => ioScene = Some(IOScenes) /\ content[1] = Some(ioScene.start))

Next ==
    \/ active = "slabs" /\ SANext /\ UNCHANGED <<active, rvVars, rtVars, fsVars, wwVars, epVars, ioVars>>
    \/ active = "view" /\ RVNext /\ UNCHANGED <<active, saVars, rtVars, fsVars, wwVars, epVars, ioVars>>
    \/ active = "refs" /\ RTNext /\ UNCHANGED <<active, saVars, rvVars, fsVars, wwVars, epVars, ioVars>>
    \/ active = "space" /\ FSNext /\ UNCHANGED <<active, saVars, rvVars, rtVars, wwVars, epVars, ioVars>>
    \/ active = "windows" /\ WWNext /\ UNCHANGED <<active, saVars, rvVars, rtVars, fsVars, epVars, ioVars>>
    \/ active = "pages" /\ EPNext /\ UNCHANGED <<active, saVars, rvVars, rtVars, fsVars, wwVars, ioVars>>
    \/ active = "file" /\ FIONext /\ UNCHANGED <<active, saVars, rvVars, rtVars, fsVars, wwVars, epVars>>

Spec == Init /\ [][Next]_<<active, saVars, rvVars, rtVars, fsVars, wwVars, epVars, ioVars>>
=============================================================================
