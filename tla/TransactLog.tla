----------------------------- MODULE TransactLog -----------------------------
(***************************************************************************)
(* The transaction log: TransactLogEncoder turns the calls of a write      *)
(* transaction into bytes in a buffer that grows, the commit hands them to *)
(* the history as the changeset of the new version, and TransactLogParser  *)
(* reads the changesets of a range of versions back, block by block, and   *)
(* repeats the calls on a handler (transact_log.hpp, replication.cpp,      *)
(* changeset_input_stream.hpp).  Bytes keep their 8 bits and the opcodes   *)
(* their values; the integer types keep their order and are narrowed.      *)
(***************************************************************************)
EXTENDS Integers, Sequences, FiniteSets, SequencesExt

CONSTANTS LongDigits,      \* value bits of int64_t
          WordDigits,      \* value bits of uint32_t
          IntDigits,       \* value bits of int
          MaxEncBytes,     \* max_enc_bytes_per_int
          NbBuffers,       \* ChangesetInputStream::NB_BUFFERS
          StreamBlock,      \* bytes of one block of a stored changeset
          MaxString,       \* max_string_size
          LogCalls,        \* the calls a transaction makes
          OldCalls,        \* those only an older version of the program logs
          ProbeValues,     \* integers decoded on their own
          MaxCalls,        \* bound: calls of all transactions
          MaxLogged        \* bound: versions in the history

VARIABLES log,             \* bytes up to m_transact_log_free_begin
          capacity,        \* bytes of the TransactLogBufferStream
          issued,          \* the calls of the transaction, as made
          logged,          \* the history: [bytes, calls] of every version
          reader,          \* the parser, its input and its handler
          probe,           \* the last integer decoded on its own
          made             \* calls made so far, for the bound

logVars == <<log, capacity, issued, logged, reader, probe, made>>

IntTypes == [long |-> [digits |-> LongDigits, signed |-> TRUE],
             size |-> [digits |-> LongDigits + 1, signed |-> FALSE],
             word |-> [digits |-> WordDigits, signed |-> FALSE],
             int  |-> [digits |-> IntDigits, signed |-> TRUE]]

InType(v, t) == /\ v < 2^IntTypes[t].digits
                /\ v >= IF IntTypes[t].signed THEN -(2^IntTypes[t].digits) ELSE 0

-----------------------------------------------------------------------------
(* The instructions: the opcode, what parse_one reads for it, and the      *)
(* handler's function.                                                     *)

Instr(code, reads, calls) == [code |-> code, reads |-> reads, calls |-> calls]

Instruction ==
  [insert_group_level_table |-> Instr(1, <<"word">>, "insert_group_level_table"),
   erase_class       |-> Instr(2, <<"word">>, "erase_class"),
   rename_class      |-> Instr(3, <<"word">>, "rename_class"),
   select_table      |-> Instr(10, <<"levels", "word">>, "select_table"),
   create_object     |-> Instr(11, <<"long">>, "create_object"),
   remove_object     |-> Instr(12, <<"long">>, "remove_object"),
   modify_object     |-> Instr(13, <<"long", "long">>, "modify_object"),
   insert_column     |-> Instr(20, <<"long">>, "insert_column"),
   erase_column      |-> Instr(21, <<"long">>, "erase_column"),
   rename_column     |-> Instr(22, <<"long">>, "rename_column"),
   select_collection |-> Instr(30, <<"long", "long">>, "select_collection"),
   collection_insert |-> Instr(31, <<"size">>, "collection_insert"),
   collection_set    |-> Instr(32, <<"size">>, "collection_set"),
   collection_move   |-> Instr(33, <<"size", "size">>, "collection_move"),
   collection_erase  |-> Instr(35, <<"size">>, "collection_erase"),
   collection_clear  |-> Instr(36, <<"size">>, "collection_clear"),
   DictionaryInsert  |-> Instr(37, <<"type", "string", "size">>, "collection_insert"),
   DictionarySet     |-> Instr(38, <<"type", "string", "size">>, "collection_set"),
   DictionaryErase   |-> Instr(39, <<"type", "string", "size">>, "collection_erase"),
   SetInsert         |-> Instr(40, <<"size">>, "collection_insert"),
   SetErase          |-> Instr(41, <<"size">>, "collection_erase"),
   SetClear          |-> Instr(42, <<"size">>, "collection_clear"),
   typed_link_change |-> Instr(43, <<"long", "word">>, "typed_link_change"),
   DictionaryClear   |-> Instr(44, <<"size">>, "collection_clear"),
   select_by_path    |-> Instr(45, <<"long", "long", "path">>, "select_collection")]

(* A call: the name of the function and its arguments; a path is one       *)
(* argument, the salts below the column.                                   *)
Call(name, args) == [name |-> name, args |-> args]

-----------------------------------------------------------------------------
(* TransactLogEncoder                                                      *)

RECURSIVE ByteDigits(_, _)
ByteDigits(v, negative) ==
  IF v \div 64 = 0 THEN <<v + IF negative THEN 64 ELSE 0>>
  ELSE <<128 + (v % 128)>> \o ByteDigits(v \div 128, negative)

(* encode_int: a negative value goes in as -(value + 1) with the sign in   *)
(* the seventh bit of the last byte.                                       *)
EncodeInt(v) == IF v < 0 THEN ByteDigits(-(v + 1), TRUE) ELSE ByteDigits(v, FALSE)

EncodeAll(values) == FlattenSeq([i \in DOMAIN values |-> EncodeInt(values[i])])

(* An argument as the numbers it is written as.                            *)
Numbers(kind, arg) ==
  IF kind = "path" THEN <<Len(arg)>> \o arg
  ELSE IF kind = "string" THEN <<Len(arg)>>
  ELSE <<arg>>

(* Buffer::reserve: half as much again, or what is asked for.              *)
Reserved(cap, used, n) ==
  IF cap >= used + n THEN cap
  ELSE LET larger == (cap * 3) \div 2 IN IF larger < used + n THEN used + n ELSE larger

(* max_size_list: one byte for the opcode, the longest integer for each    *)
(* number.                                                                 *)
MaxSizeList(hasInstr, numbers) == (IF hasInstr THEN 1 ELSE 0) + MaxEncBytes * numbers

(* The appends of a call, as [instr, numbers]: one for the instruction;    *)
(* a path is appended number by number.                                    *)
Appends(call) ==
  LET ins == Instruction[call.name]
      one(vs) == [code |-> <<>>, values |-> vs]
  IN IF call.name = "select_by_path"
     THEN <<[code |-> <<ins.code>>, values |-> SubSeq(call.args, 1, 2)],
            one(<<Len(call.args[3])>>)>>
          \o [i \in DOMAIN call.args[3] |-> one(<<call.args[3][i]>>)]
     ELSE <<[code |-> <<ins.code>>, values |-> call.args]>>

(* append_simple_instr: reserve, encode, advance.                          *)
AppendedInstr(buf, app) ==
  [cap   |-> Reserved(buf.cap, Len(buf.bytes), MaxSizeList(app.code # <<>>, Len(app.values))),
   bytes |-> buf.bytes \o app.code \o EncodeAll(app.values)]

(* The arguments a call is logged with: select_table adds the levels.      *)
Logged(call) ==
  IF call.name = "select_table" THEN Call(call.name, <<0>> \o call.args) ELSE call

(* collection_move to the same place is left out.                          *)
Silent(call) == call.name = "collection_move" /\ call.args[1] = call.args[2]

(* What an older version wrote: every argument in order, a string as its   *)
(* size and its bytes.                                                     *)
OldBytes(call) ==
  LET ins == Instruction[call.name]
      part(i) == EncodeAll(Numbers(ins.reads[i], call.args[i]))
                 \o (IF ins.reads[i] = "string" THEN call.args[i] ELSE <<>>)
  IN <<ins.code>> \o FlattenSeq([i \in DOMAIN call.args |-> part(i)])

(* The call a handler must see for a call that was made.                   *)
Expected(call) ==
  LET name == Instruction[call.name].calls
      n == Len(call.args)
  IN IF "string" \in Range(Instruction[call.name].reads)
     THEN Call(name, <<call.args[n]>>)
     ELSE Call(name, IF call.name = "select_collection" THEN call.args \o <<<<>>>>
                     ELSE call.args)

-----------------------------------------------------------------------------
(* The input: ChangesetInputStream over the history.  `fetched` is the     *)
(* blocks left of each changeset of the batch, `block` what is left of the *)
(* parser's block.                                                         *)

RECURSIVE BlocksOf(_)
BlocksOf(bytes) ==
  IF bytes = <<>> THEN <<>>
  ELSE LET n == IF Len(bytes) < StreamBlock THEN Len(bytes) ELSE StreamBlock
       IN <<SubSeq(bytes, 1, n)>> \o BlocksOf(SubSeq(bytes, n + 1, Len(bytes)))

(* get_changeset: the next NB_BUFFERS versions at most.                    *)
GetChangeset(in) ==
  LET left == in.end - in.begin
      n == IF left > NbBuffers THEN NbBuffers ELSE left
  IN [in EXCEPT !.valid = left > 0,
                !.fetched = IF left > 0 THEN [i \in 1..n |-> BlocksOf(logged[in.begin + i].bytes)] ELSE @,
                !.begin = IF left > 0 THEN in.begin + n ELSE @]

(* next_block, and next_input_buffer: an empty block is the end of input.  *)
RECURSIVE NextBlock(_)
NextBlock(in) ==
  IF ~in.valid THEN [in EXCEPT !.block = <<>>]
  ELSE IF Head(in.fetched) # <<>>
  THEN [in EXCEPT !.block = Head(Head(in.fetched)), !.fetched[1] = Tail(@)]
  ELSE LET past == [in EXCEPT !.fetched = Tail(@)]
       IN NextBlock(IF past.fetched = <<>> THEN GetChangeset(past) ELSE past)

Refilled(in) == IF in.block = <<>> THEN NextBlock(in) ELSE in

-----------------------------------------------------------------------------
(* TransactLogParser: every read returns [ok, in, value]; ~ok is           *)
(* parser_error.                                                           *)

Read(ok, in, value) == [ok |-> ok, in |-> in, value |-> value]

TakenChar(in) ==
  IF in.block = <<>> THEN Read(FALSE, in, 0)
  ELSE Read(TRUE, [in EXCEPT !.block = Tail(@)], Head(in.block))

ReadChar(in) == TakenChar(Refilled(in))

Maximum(t) == 2^IntTypes[t].digits - 1
MaxBytes(t) == (IntTypes[t].digits + 7) \div 7

(* The value after the last byte: for a negative one, -value and then      *)
(* int_subtract_with_overflow_detect, both in the type read.               *)
SignedValue(t, v, negative) ==
  LET d == IntTypes[t].digits
      neg == IF IntTypes[t].signed THEN -v ELSE (2^d - v) % 2^d
  IN IF negative THEN [ok |-> InType(neg - 1, t), value |-> neg - 1]
     ELSE [ok |-> TRUE, value |-> v]

(* The bits of the last byte, without the sign.                            *)
LastBitsAll(part) == part % 128
LastBits(part) == part % 64

(* read_int<T>: c is its byte i.                                           *)
RECURSIVE IntFrom(_, _, _, _)
IntFrom(c, t, i, value) ==
  LET p == LastBits(c.value)
      last == SignedValue(t, value + (p * 2^(7 * i)), (c.value \div 64) % 2 = 1)
  IN IF ~c.ok THEN c
     ELSE IF c.value < 128
     THEN IF Maximum(t) \div 2^(7 * i) < p THEN Read(FALSE, c.in, 0)
          ELSE Read(last.ok, c.in, last.value)
     ELSE IF i = MaxBytes(t) - 1 THEN Read(FALSE, c.in, 0)
     ELSE IntFrom(ReadChar(c.in), t, i + 1, value + ((c.value % 128) * 2^(7 * i)))

ReadInt(in, t) == IntFrom(ReadChar(in), t, 0, 0)

(* read_bytes: takes what the block has and goes on with the next one.     *)
RECURSIVE ReadBytes(_, _)
ReadBytes(in, size) ==
  LET avail == Len(in.block)
      more == NextBlock(in)
  IN IF size <= avail THEN Read(TRUE, [in EXCEPT !.block = SubSeq(@, size + 1, avail)], 0)
     ELSE IF more.block = <<>> THEN Read(FALSE, more, 0)
     ELSE ReadBytes(more, size - avail)

SizedString(n) ==
  IF ~n.ok \/ n.value > MaxString THEN Read(FALSE, n.in, 0)
  ELSE ReadBytes(n.in, n.value)

ReadString(in) == SizedString(ReadInt(in, "size"))

(* `level` salts, in order, behind what r has read.                        *)
RECURSIVE ReadPath(_, _, _)
ReadPath(r, level, path) ==
  IF ~r.ok THEN r
  ELSE IF level = 0 THEN [r EXCEPT !.value = <<path>>]
  ELSE LET n == ReadInt(r.in, "long") IN ReadPath(n, level - 1, Append(path, n.value))

(* The type of the number that an operand is or starts with, and the       *)
(* arguments that it gives; what is only skipped gives none.               *)
NumberIn(kind) == CASE kind \in {"levels", "type"} -> "int"
                    [] kind = "path"               -> "word"
                    [] OTHER                       -> kind
ArgumentsOf(kind, r) == [r EXCEPT !.value = IF kind = "type" THEN <<>> ELSE <<@>>]

(* One operand, as parse_one reads it.                                     *)
NumericOperand(n, kind) ==
  IF kind = "path" THEN ReadPath(n, n.value, <<>>) ELSE ArgumentsOf(kind, n)
ReadOperand(in, kind) ==
  IF kind = "string" THEN ArgumentsOf("type", ReadString(in))
  ELSE NumericOperand(ReadInt(in, NumberIn(kind)), kind)

(* The operands of an instruction, behind what r has read.                 *)
RECURSIVE ReadOperands(_, _, _)
ReadOperands(r, kinds, args) ==
  IF ~r.ok \/ kinds = <<>> THEN [r EXCEPT !.value = args]
  ELSE LET one == ReadOperand(r.in, Head(kinds))
       IN ReadOperands(one, Tail(kinds), args \o one.value)

(* The call of the handler.                                                *)
HandlerCall(name, r) ==
  IF ~r.ok THEN r
  ELSE [r EXCEPT !.value =
          Call(Instruction[name].calls,
               IF name = "select_table" THEN Tail(@)
               ELSE IF name = "select_collection" THEN @ \o <<<<>>>>
               ELSE @)]

(* parse_one up to the handler: the call, or a failure for a bad opcode or *)
(* a bad operand.                                                          *)
Parsed(c) ==
  LET known == {n \in DOMAIN Instruction : Instruction[n].code = c.value}
      name == CHOOSE n \in known : TRUE
  IN IF known = {} THEN Read(FALSE, c.in, 0)
     ELSE HandlerCall(name, ReadOperands(c, Instruction[name].reads, <<>>))

ParseOne(in) == Parsed(ReadChar(in))

(* NullInstructionObserver takes every instruction,                        *)
NullAccepts(call) == TRUE
(* NoOpTransactionLogParser only the selections and typed_link_change.     *)
NoOpAccepts(call) == call.name \in {"select_table", "select_collection", "typed_link_change"}

HandlerAccepts(handler, call) == IF handler = "noop" THEN NoOpAccepts(call) ELSE NullAccepts(call)

(* What NoOpTransactionLogParser remembers: the table and the collection.  *)
SelectionAfter(current, call) ==
  CASE call.name = "select_table"      -> [current EXCEPT !.table = call.args]
    [] call.name = "select_collection" -> [current EXCEPT !.collection = call.args]
    [] OTHER                           -> current

-----------------------------------------------------------------------------
NoInput == [block |-> <<>>, fetched |-> <<>>, begin |-> 0, end |-> 0, valid |-> FALSE]
NoSelection == [table |-> <<>>, collection |-> <<>>]
NoReader == [pc |-> "idle", in |-> NoInput, handler |-> "observer", calls |-> <<>>,
             from |-> 0, to |-> 0, current |-> NoSelection]
NoProbe == [type |-> "long", value |-> 0, ok |-> TRUE, got |-> 0]

LogInit == /\ log = <<>> /\ capacity = 0 /\ issued = <<>>
          /\ logged = <<>> /\ reader = NoReader /\ probe = NoProbe /\ made = 0

(* A call of the write transaction.                                        *)
Issue(call) ==
  /\ probe = NoProbe /\ reader.pc = "idle" /\ made < MaxCalls /\ Len(logged) < MaxLogged
  /\ issued' = Append(issued, call) /\ made' = made + 1
  /\ \E buf \in {FoldLeft(AppendedInstr, [cap |-> capacity, bytes |-> log],
                          IF Silent(call) THEN <<>> ELSE Appends(Logged(call)))} :
       log' = buf.bytes /\ capacity' = buf.cap
  /\ UNCHANGED <<logged, reader, probe>>

(* prepare_commit gives the bytes to the history; the next transaction     *)
(* starts at the beginning of the buffer (do_initiate_transact).           *)
PrepareCommit ==
  /\ probe = NoProbe /\ reader.pc = "idle" /\ Len(logged) < MaxLogged
  /\ logged' = Append(logged, [bytes |-> log, calls |-> issued])
  /\ log' = <<>> /\ issued' = <<>>
  /\ UNCHANGED <<capacity, reader, probe, made>>

(* A changeset written by an older version of the program.                 *)
OldVersionCommits(call) ==
  /\ probe = NoProbe /\ reader.pc = "idle" /\ issued = <<>> /\ made < MaxCalls /\ Len(logged) < MaxLogged
  /\ logged' = Append(logged, [bytes |-> OldBytes(call), calls |-> <<call>>]) /\ made' = made + 1
  /\ UNCHANGED <<log, capacity, issued, reader, probe>>

(* rollback_and_continue_as_read(observer) parses the uncommitted log      *)
(* itself (from = to = -1 here); the buffer is abandoned.                  *)
ParseUncommitted(handler) ==
  /\ reader.pc = "idle" /\ log # <<>>
  /\ reader' = [NoReader EXCEPT !.pc = "parsing", !.handler = handler,
                  !.in = [NoInput EXCEPT !.block = log], !.from = -1, !.to = -1]
  /\ UNCHANGED <<log, capacity, issued, logged, probe, made>>

(* parse_transact_log over the changesets of versions begin+1..end.        *)
StartParse(begin, end, handler) ==
  /\ reader.pc = "idle" /\ issued = <<>> /\ begin < end /\ end <= Len(logged)
  /\ reader' = [NoReader EXCEPT !.pc = "parsing", !.handler = handler,
                  !.in = GetChangeset([NoInput EXCEPT !.begin = begin, !.end = end]),
                  !.from = begin, !.to = end]
  /\ UNCHANGED <<log, capacity, issued, logged, probe, made>>

(* One turn of parse(): has_next, parse_one, the handler's answer.         *)
ParseNext ==
  /\ reader.pc = "parsing"
  /\ \E in \in {Refilled(reader.in)} :
       IF in.block = <<>>
       THEN reader' = [reader EXCEPT !.pc = "complete", !.in = in]
       ELSE \E r \in {ParseOne(in)} :
              IF ~r.ok THEN reader' = [reader EXCEPT !.pc = "error"]
              ELSE IF ~HandlerAccepts(reader.handler, r.value)
              THEN reader' = [reader EXCEPT !.pc = "refused", !.in = r.in]
              ELSE reader' = [reader EXCEPT !.in = r.in, !.calls = Append(@, r.value),
                               !.current = IF reader.handler = "noop"
                                           THEN SelectionAfter(@, r.value) ELSE @]
  /\ UNCHANGED <<log, capacity, issued, logged, probe, made>>

(* The transaction goes on (parse_history, advance_read) or, after a       *)
(* roll-back, starts again with an empty log.                              *)
ParseOver ==
  /\ reader.pc \in {"complete", "error", "refused"}
  /\ reader' = NoReader
  /\ IF reader.from = -1 THEN log' = <<>> /\ issued' = <<>>
     ELSE UNCHANGED <<log, issued>>
  /\ UNCHANGED <<capacity, logged, probe, made>>

(* An integer written as one type and read as another.                     *)
DecodeAlone(v, t) ==
  /\ probe = NoProbe /\ reader.pc = "idle" /\ made = 0 /\ logged = <<>>
  /\ \E r \in {ReadInt([NoInput EXCEPT !.block = EncodeInt(v)], t)} :
       probe' = [type |-> t, value |-> v, ok |-> r.ok, got |-> r.value]
  /\ UNCHANGED <<log, capacity, issued, logged, reader, made>>

LogNext == \/ \E c \in LogCalls : Issue(c)
          \/ PrepareCommit
          \/ \E c \in OldCalls : OldVersionCommits(c)
          \/ \E h \in {"observer", "noop"} :
               \/ ParseUncommitted(h)
               \/ \E b, e \in 0..MaxLogged : StartParse(b, e, h)
          \/ ParseNext \/ ParseOver
          \/ \E v \in ProbeValues, t \in DOMAIN IntTypes : DecodeAlone(v, t)

LogSpec == LogInit /\ [][LogNext]_logVars

-----------------------------------------------------------------------------
Made(calls) == LET kept == SelectSeq(calls, LAMBDA c : ~Silent(c))
               IN [i \in DOMAIN kept |-> Expected(kept[i])]

Replay == IF reader.from = -1 THEN Made(issued)
          ELSE FlattenSeq([i \in 1..(reader.to - reader.from) |->
                             Made(logged[reader.from + i].calls)])

(* Parsing a range of versions repeats exactly the calls their             *)
(* transactions made, in order, whatever the blocks are cut and however    *)
(* many changesets are fetched at a time; it fails only when the handler   *)
(* refuses a call, and then everything before that call has been repeated. *)
ReplaysExactly ==
  /\ reader.pc # "error"
  /\ reader.pc \in {"parsing", "refused"} => IsPrefix(reader.calls, Replay)
  /\ reader.pc = "complete" => reader.calls = Replay

(* What append_simple_instr writes never passes the end of what it         *)
(* reserved (the assertion in advance()), also for a path of several       *)
(* appends and in a buffer left over from a longer transaction.            *)
EncoderWithinBuffer == Len(log) <= capacity

(* The comment on encode_int, as far as it holds: an integer written as    *)
(* any type and read as another comes back equal, or the read fails        *)
(* exactly when it is outside the type read, except for values below -1    *)
(* read as an unsigned type.                                               *)
DecodesOrFails ==
  (IntTypes[probe.type].signed \/ probe.value >= -1) =>
     /\ probe.ok <=> InType(probe.value, probe.type)
     /\ probe.ok => probe.got = probe.value

\* What is logged is replayed, within the buffer it was encoded in, and an
\* integer is decoded as it was or not at all.
LogSound == ReplaysExactly /\ EncoderWithinBuffer /\ DecodesOrFails
=============================================================================
