------------------------------- MODULE MsEval -------------------------------
(***************************************************************************)
(* The evaluation loop, vm/ms_vm.c, running a chunk that MsCompiler made.   *)
(* Conditions and iterators decide either way.  The stack holds, for every  *)
(* value of the frame, the variable whose value it is (Temp if of none) and *)
(* whether a closure holds an upvalue on it.  A call runs elsewhere: what   *)
(* the loop sees of it is its result.                                       *)
(***************************************************************************)
EXTENDS MsCompiler

CONSTANT Programs      \* [stmts, legal]: a program, and whether it is one

VARIABLES
  program,
  rejected,      \* the compiler reported an error
  chunk,         \* the chunk that runs
  ip,            \* index of the next instruction, 0 when the chunk has ended
  stack          \* the frame's slots and the values above them

vars == <<program, rejected, chunk, ip, stack>>

Value(v) == [v |-> v, captured |-> FALSE]
NoChunk == [code |-> <<>>, params |-> <<>>, upvalues |-> <<>>]

Init ==
  /\ program \in Programs
  /\ \E c \in {msCompile(program.stmts)} :
       /\ rejected = c.hadError
       /\ IF c.hadError THEN chunk = NoChunk /\ ip = 0
          ELSE chunk \in Range(c.chunks) /\ ip = 1
  /\ stack = [i \in DOMAIN chunk.params |-> Value(chunk.params[i])]

-----------------------------------------------------------------------------
(* Instructions.                                                            *)

instr == chunk.code[ip]
At(ops) == ip # 0 /\ instr.op \in ops
Top == stack[Len(stack)]
Popped(n) == SubSeq(stack, 1, Len(stack) - n)
Push(s) == Append(s, Value(Temp))

\* what an instruction takes from the stack, leaving one value ...
Takes ==
  [CONST |-> 0, DUP |-> 0, GET_GLOBAL |-> 0, GET_UPVALUE |-> 0, LOAD_SUPER |-> 0,
   UNARY |-> 1, GET_ITER |-> 1, BINARY |-> 2, CALL_EX |-> 2, SET_ITEM |-> 3,
   BUILD |-> instr.a, BUILD_MAP |-> 2 * instr.a, CALL |-> instr.a + 1,
   CALL_KW |-> instr.a + 2, MAKE_CLASS |-> instr.a, MAKE_FUNC |-> instr.a]

\* ... and leaving none
Drops == [POP |-> 1, CLOSE_UPVALUE |-> 1, DEL_ATTR |-> 1, DEL_ITEM |-> 2,
          SET_GLOBAL |-> 0, SET_UPVALUE |-> 0, LINE |-> 0]

\* the instructions eval() does not know
Unknown == {"DEL_GLOBAL", "RAISE", "RERAISE", "RAISE_ASSERT", "WITH_ENTER", "WITH_EXIT",
            "PUSH_EXCEPT", "POP_EXCEPT", "LOAD_EXCEPTION", "CLEAR_EXCEPTION", "ISINSTANCE",
            "GO", "CHAN_SEND", "SELECT_BEGIN", "SELECT_CASE_SEND", "SELECT_CASE_RECV",
            "SELECT_END", "IMPORT", "TO_STR", "BUILD_STR", "AWAIT"}

Fixed == <<program, rejected, chunk>>
Step == ip' = ip + 1 /\ UNCHANGED Fixed
Goto(target) == ip' = target /\ UNCHANGED Fixed

\* an instruction that computes a value
Compute ==
  /\ At(DOMAIN Takes \ {"MAKE_FUNC"})
  /\ stack' = Push(Popped(Takes[instr.op]))
  /\ Step

\* an instruction that leaves nothing
Discard ==
  /\ At(DOMAIN Drops)
  /\ stack' = Popped(Drops[instr.op])
  /\ Step

\* the value that was pushed last belongs to a variable from now on
Name ==
  /\ At({"NAME"})
  /\ stack' = [stack EXCEPT ![Len(stack)].v = instr.v]
  /\ Step

GetLocal ==
  /\ At({"GET_LOCAL"})
  /\ stack' = Push(stack)
  /\ Step

\* the value stays on the stack; a slot above the top is not looked at
SetLocal ==
  /\ At({"SET_LOCAL"})
  /\ stack' = IF instr.a < Len(stack) THEN [stack EXCEPT ![instr.a + 1].v = instr.v] ELSE stack
  /\ Step

Captures(i) == \E k \in DOMAIN instr.caps : instr.caps[k].isLocal /\ instr.caps[k].index = i - 1

\* a closure; the variables it captures get upvalues
MakeFunc ==
  /\ At({"MAKE_FUNC"})
  /\ stack' = Push([i \in 1..Len(stack) - instr.a |->
                      [stack[i] EXCEPT !.captured = @ \/ Captures(i)]])
  /\ Step

Jump ==
  /\ At({"JUMP"})
  /\ Goto(instr.a)
  /\ UNCHANGED stack

JumpIf ==
  /\ At({"JUMP_IF_FALSE", "JUMP_IF_TRUE"})
  /\ stack' = Popped(1)
  /\ \E target \in {instr.a, ip + 1} : Goto(target)

\* and, or: the value stays on the stack either way
ShortCircuit ==
  /\ At({"AND_JMP", "OR_JMP"})
  /\ \E target \in {instr.a, ip + 1} : Goto(target)
  /\ UNCHANGED stack

\* another value, or the iterator goes and the loop ends
ForIter ==
  /\ At({"FOR_ITER"})
  /\ \/ stack' = Push(stack) /\ Step
     \/ stack' = Popped(1) /\ Goto(instr.a)

\* the frame's upvalues are closed with it
Return ==
  /\ At({"RETURN", "RETURN_NIL"})
  /\ stack' = <<>>
  /\ Goto(0)

Stop ==
  /\ At(Unknown)
  /\ Goto(0)
  /\ UNCHANGED stack

Ended == ip = 0 /\ UNCHANGED vars

Next ==
  \/ Compute \/ Discard \/ Name \/ GetLocal \/ SetLocal \/ MakeFunc
  \/ Jump \/ JumpIf \/ ShortCircuit \/ ForIter \/ Return \/ Stop \/ Ended

Spec == Init /\ [][Next]_vars

-----------------------------------------------------------------------------
(* Properties.                                                              *)

\* Wherever a statement starts, by whatever way it is reached, the values on
\* the stack are the compiler's locals and nothing else: ms_compiler.c finds
\* variables by counting them.
StatementsBalanced == At({"LINE"}) => Len(stack) = instr.a

Holds(slot, x) == slot < Len(stack) /\ stack[slot + 1].v = x

\* An instruction that reads, writes or captures a variable finds the
\* variable which the source means, and a loop its iterator: no global for a
\* local, no slot of another variable, no upvalue that was not passed.
FindsItsVariable ==
  /\ At({"GET_LOCAL", "SET_LOCAL"}) => Holds(instr.a, instr.v)
  /\ At({"GET_UPVALUE", "SET_UPVALUE"}) =>
       instr.a < Len(chunk.upvalues) /\ chunk.upvalues[instr.a + 1].v = instr.v
  /\ At({"GET_GLOBAL", "SET_GLOBAL"}) => instr.v[2] = Globals
  /\ At({"FOR_ITER"}) => Holds(Len(stack) - 1, Hidden)
  /\ At({"MAKE_FUNC"}) =>
       \A k \in DOMAIN instr.caps :
         LET u == instr.caps[k]
         IN IF u.isLocal THEN Holds(u.index, u.v)
            ELSE u.index < Len(chunk.upvalues) /\ chunk.upvalues[u.index + 1].v = u.v

\* A variable with an upvalue leaves the stack by OP_CLOSE_UPVALUE or with
\* its frame: otherwise the upvalue would point into a slot that is reused.
CapturedAreClosed ==
  [][\A i \in DOMAIN stack :
       stack[i].captured /\ (i > Len(stack') \/ ~stack'[i].captured) =>
         At({"CLOSE_UPVALUE", "RETURN", "RETURN_NIL"})]_vars

\* Every jump of a chunk that was compiled without an error has got its
\* target, also where handlers, cases and loops hand lists of jumps around.
JumpsArePatched ==
  \A i \in DOMAIN chunk.code :
    chunk.code[i].op \in {"JUMP", "JUMP_IF_FALSE", "JUMP_IF_TRUE", "AND_JMP", "OR_JMP",
                          "FOR_ITER", "PUSH_EXCEPT"} =>
      chunk.code[i].a \in DOMAIN chunk.code

\* The compiler reports an error for the programs that the language's documents
\* call illegal or that go over one of its limits, and for no other: a name may
\* be declared again in an inner block, also after a loop has been left.
RejectsTheIllegal == rejected = ~program.legal

=============================================================================
