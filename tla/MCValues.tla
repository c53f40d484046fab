------------------------------ MODULE MCValues ------------------------------
(***************************************************************************)
(* Values and the file they come from, one piece at a time: searching      *)
(* packed arrays, decimals, the order of mixed values, searching text, the *)
(* transaction log, and attaching to a file.  A behaviour picks one piece  *)
(* and only it moves.                                                      *)
(***************************************************************************)
EXTENDS MixedOrder, ArrayWithFind, TextSearch, TransactLog, FileAttach

CONSTANT Pieces         \* the pieces this instance explores
VARIABLE active

-----------------------------------------------------------------------------
(* Decimals of six digits, doubles of four bits, integers of six.          *)

MCMinExp == -10

D(s, m, e) == [k |-> "fin", s |-> s, m |-> m, e |-> e]
SomeDoubles ==
    {D(0, 0, MCMinExp), D(0, 8, -4), D(0, 9, -4), D(0, 10, -4), D(0, 8, 0), D(0, 15, 0), D(0, 8, 1), D(0, 9, 1),
     D(0, 15, 1), D(0, 8, 2), D(0, 9, 2), D(0, 15, 6), D(1, 8, 0), D(1, 9, 1), D(1, 8, 2),
     D(1, 9, 2), D(1, 11, -2)} \cup SpecialDoubles
SomeFloats == {x \in SomeDoubles : x.k # "fin" \/ x.m % 2 = 0}

Of(t, S) == {[t |-> t, v |-> v] : v \in S}

MCMixedValues ==
    {Null} \cup Of("bool", {0, 1})
    \cup Of("int", {-32, -31, -18, -17, -16, -1, 0, 1, 2, 15, 16, 17, 18, 30, 31})
    \cup Of("double", SomeDoubles) \cup Of("float", SomeFloats)
    \cup Of("decimal", {Fin(0, 5625, -4), Fin(0, 563, -3), Fin(0, 16, 0), Fin(0, 160, -1),
                        Fin(1, 17, 0), Fin(0, 62, -2), Inf(0), Inf(1), NaN(0, 7), NaN(1, 7)})
    \cup Of("string", {<<>>, <<1>>, <<1, 0>>, <<2>>}) \cup Of("binary", {<<>>, <<1>>, <<0, 1>>})
    \cup Of("timestamp", {0, 1}) \cup Of("objectid", {0}) \cup Of("uuid", {0})
    \cup Of("typedlink", {0}) \cup Of("list", {0}) \cup Of("set", {0}) \cup Of("dictionary", {0})

-----------------------------------------------------------------------------
(* Arrays of two to three words of 16 bits.                                *)

Fields(w) == CASE w = 0 -> {0} [] w = 1 -> {0, 1} [] w = 2 -> {0, 1, 3}
               [] w = 4 -> {0, 8, 15} [] w = 8 -> {0, 3, 128, 255}
               [] w = 16 -> {0, 3, 32768}

RECURSIVE Pack(_, _, _)
Pack(w, f, i) == IF i = WordBits \div w THEN 0 ELSE f[i] * 2^(w * i) + Pack(w, f, i + 1)

\* Words that repeat three fields, or end in zeros after them.
WordsOf(w) ==
    {Pack(w, [i \in 0..(WordBits - 1) |-> IF i < 3 \/ again THEN <<x, y, z>>[1 + (i % 3)] ELSE 0], 0) :
        x \in Fields(w), y \in Fields(w), z \in Fields(w), again \in BOOLEAN}

MCArrays(w) ==
    IF w = 0 THEN {[width |-> 0, words |-> <<>>, size |-> 3, odd |-> FALSE]}
    ELSE {[width |-> w, words |-> <<v, Ones - v, v>>, size |-> n, odd |-> n % 2 = 0] :
             v \in WordsOf(w), n \in {(WordBits \div w) * 3 - 1, (WordBits \div w) * 2, 2}}

-----------------------------------------------------------------------------
(* Texts of up to three characters of one and two bytes, and patterns.     *)

Chars == {<<LetterL>>, <<LetterU>>, <<Plain>>, <<Lead, SecondL>>, <<Lead, SecondU>>}
Upto2(S) == {<<>>} \cup S \cup {x \o y : x \in S, y \in S}
MCTexts == Upto2(Chars) \cup {x \o y \o z : x \in {<<LetterL>>, <<Plain>>}, y \in Chars, z \in Chars}
MCNeedles == Upto2(Chars)
Marks == {<<LetterL>>, <<Plain>>, <<Star>>, <<Quest>>}
MCPatterns ==
    Upto2(Marks) \cup {x \o y \o z : x \in Marks, y \in Marks, z \in Marks}
    \cup {<<Star>> \o x \o y \o <<Star>> : x \in Marks, y \in Marks}

-----------------------------------------------------------------------------
(* The transaction log *)

MCLogCalls ==
  {Call("insert_group_level_table", <<64>>), Call("erase_class", <<1023>>), Call("select_table", <<63>>),
   Call("create_object", <<-32768>>), Call("remove_object", <<-65>>), Call("insert_column", <<32767>>),
   Call("collection_insert", <<65535>>), Call("collection_erase", <<8192>>), Call("modify_object", <<-64, 8192>>),
   Call("select_collection", <<63, -1>>), Call("collection_move", <<1, 1>>), Call("collection_move", <<0, 8191>>),
   Call("typed_link_change", <<64, 1023>>), Call("select_by_path", <<5, -8193, <<-32768, 64>>>>)}
MCOldCalls ==
  {Call(n, <<2, <<200, 37, 64>>, 70>>) : n \in {"DictionaryInsert", "DictionarySet", "DictionaryErase"}}
  \cup {Call(n, <<9>>) : n \in {"SetInsert", "DictionaryClear"}}
MCProbeValues == {-32768, -32767, -1025, -1024, -1023, -513, -512, -511, -65, -64, -2, -1, 0, 1, 63,
                  64, 127, 128, 511, 512, 1023, 1024, 8191, 8192, 32767, 32768, 65535}

-----------------------------------------------------------------------------
(* Files that an opener can find.                                          *)

Opener == [create |-> TRUE, memonly |-> FALSE, clear_on_error |-> FALSE, key |-> 0, accepted |-> {23, 24, 25},
           hist |-> 1, schema |-> 3, upgrade |-> TRUE, backup |-> TRUE]
Version2 == [logical |-> 3, ver |-> 2, hist |-> 1, schema |-> 3]
Normal(fmt, top) == [NoFile EXCEPT !.here = TRUE, !.size = 4, !.magic = TRUE, !.top[1] = 2, !.fmt[1] = fmt,
                                   !.sel = 1, !.tops[2] = top]
StreamedFile(key, r) ==
    [NoFile EXCEPT !.here = TRUE, !.size = IF key = 0 THEN r + 2 ELSE 4, !.magic = TRUE, !.key = key,
                   !.top[0] = Streaming, !.fmt[0] = 25, !.foot = r,
                   !.tops[r] = [Version2 EXCEPT !.logical = r + 1]]
Unfinished == [NoFile EXCEPT !.here = TRUE, !.size = 4]

\* two records, a checkpoint: what is left of the second record behind the cleared word
Checkpointed == [Normal(25, [Version2 EXCEPT !.ver = 5]) EXCEPT !.chain = <<Zeros, [ver |-> 4, top |-> 1]>>]

\* no file; a file being created; the output of Group::write; formats 24, 23 and 25; openers of all kinds
Scene(f, last, openers) == [file |-> f, openers |-> openers, last |-> last]
MCScenes ==
    { Scene(NoFile, 4, {Opener, [Opener EXCEPT !.create = FALSE]}),
      Scene(Unfinished, 4, {Opener, [Opener EXCEPT !.clear_on_error = TRUE]}),
      Scene(StreamedFile(0, 1), 4, {Opener, [Opener EXCEPT !.memonly = TRUE]}),
      Scene(StreamedFile(0, 3), 4, {Opener}),
      Scene(StreamedFile(1, 1), 4, {Opener, [Opener EXCEPT !.key = 1]}),
      Scene(Normal(24, [Version2 EXCEPT !.schema = 1]), 4,
            {Opener, [Opener EXCEPT !.upgrade = FALSE], [Opener EXCEPT !.accepted = {24}, !.schema = 1]}),
      Scene(Normal(23, Version2), 4, {Opener}),
      Scene(Checkpointed, 7, {Opener}),
      Scene(Normal(25, Version2), 4, {Opener, [Opener EXCEPT !.hist = 0], [Opener EXCEPT !.schema = 2]}) }

-----------------------------------------------------------------------------
Some(S) == CHOOSE s \in S : TRUE

Init ==
    /\ active \in Pieces
    /\ IF active = "find" THEN WFInit ELSE array = Some(Arrays(0)) /\ query = NoQuery /\ found = <<>>
    /\ DecInit /\ MixInit /\ TSInit /\ LogInit
    /\ FAInit /\ (active # "attach" => scene = Some(Scenes))

Next ==
    \/ active = "find" /\ WFNext /\ UNCHANGED <<active, mixVars, tsVars, logVars, faVars>>
    \/ active = "decimal" /\ DecNext /\ UNCHANGED <<active, wfVars, lhs, rhs, ordered, quotient, tsVars, logVars, faVars>>
    \/ active = "mixed" /\ MixNext /\ UNCHANGED <<active, wfVars, decVars, tsVars, logVars, faVars>>
    \/ active = "text" /\ TSNext /\ UNCHANGED <<active, wfVars, mixVars, logVars, faVars>>
    \/ active = "log" /\ LogNext /\ UNCHANGED <<active, wfVars, mixVars, tsVars, faVars>>
    \/ active = "attach" /\ FANext /\ UNCHANGED <<active, wfVars, mixVars, tsVars, logVars>>

\* The loop of a search runs on, and so does the thread that opens a file
Fairness == WF_tsVars(active = "text" /\ MatchTurn) /\ WF_faVars(active = "attach" /\ OpenStep)

Spec == Init /\ [][Next]_<<active, wfVars, mixVars, tsVars, logVars, faVars>> /\ Fairness
=============================================================================
