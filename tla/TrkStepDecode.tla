---------------------------- MODULE TrkStepDecode ----------------------------
(***************************************************************************)
(* Where a step ends.  ModifyBreaksForStep looks at the instructions of    *)
(* the range to step through, and sets a temporary breakpoint either at    *)
(* the first one that may modify the PC or, when that is the current one,  *)
(* where it computes the thread will go.  The thread then runs, as the     *)
(* architecture says, until it meets that breakpoint.                      *)
(*                                                                         *)
(* A case is a stopped thread: `insts' is the code from Base on, the first *)
(* `count' instructions of it are the range, `prev' stands before them.    *)
(* An instruction is a record of its fields; a word has Bits bits where    *)
(* the code has 32.  A call that is stepped over returns.  The stubs, which *)
(* are compared byte by byte, and breakpoints of the user, which           *)
(* TrkBreakpoints has, are left out.                                       *)
(***************************************************************************)
EXTENDS Integers, Sequences, FiniteSetsExt, Bitwise

CONSTANTS
  Bits,      \* width of a word
  Base,      \* the current PC
  MaxScan,   \* KMaxInstructionBuffer, in instructions
  Cases,     \* the stopped threads and their code
  Memory,    \* the words of the thread
  Mapped     \* the addresses that can be read

ASSUME WidthAssumption == Bits \in Nat /\ Bits > 3
ASSUME MemoryAssumption == Mapped \subseteq DOMAIN Memory

VARIABLES
  case,   \* the step
  plan,   \* the temporary breakpoint: set, address, thumb
  at      \* the thread: pc, thumb, lr

vars == <<case, plan, at>>

SP == 13
LR == 14
PC == 15

Modulus == 2 ^ Bits
Word(x) == x % Modulus
Complement(x) == Modulus - 1 - x
Even(x) == x - (x % 2)

---------------------------------------------------------------------------
(* The operands of the driver.                                             *)

ReadRegister(c, r) == IF r = PC THEN Base ELSE c.reg[r]

InstSize(c) == IF c.thumb THEN 2 ELSE 4

\* N is 8 and V is 1 where they are set, so N = V holds only when both are clear.
IsExecuted(cond, f) ==
  LET same == ~f.n /\ ~f.v
  IN  CASE cond = "EQ" -> f.z
        [] cond = "NE" -> ~f.z
        [] cond = "CS" -> f.c
        [] cond = "CC" -> ~f.c
        [] cond = "MI" -> f.n
        [] cond = "PL" -> ~f.n
        [] cond = "VS" -> f.v
        [] cond = "VC" -> ~f.v
        [] cond = "HI" -> f.c /\ ~f.z
        [] cond = "LS" -> ~f.c \/ f.z
        [] cond = "GE" -> same
        [] cond = "LT" -> ~same
        [] cond = "GT" -> same /\ ~f.z
        [] cond = "LE" -> ~same \/ f.z
        [] OTHER -> TRUE

Shift(x, type, n, carry) ==
  CASE type = "LSL" -> IF n >= Bits THEN 0 ELSE Word(x * 2 ^ n)
    [] type = "LSR" -> IF n >= Bits THEN 0 ELSE x \div 2 ^ n
    [] type = "ASR" -> LET k == Min({n, Bits - 1})
                       IN  IF x >= Modulus \div 2
                           THEN Complement(Complement(x) \div 2 ^ k)
                           ELSE x \div 2 ^ k
    [] type = "ROR" -> LET k == n % Bits
                       IN  IF k = 0
                           THEN x \div 2 + (IF carry THEN Modulus \div 2 ELSE 0)
                           ELSE x \div 2 ^ k + Word(x * 2 ^ (Bits - k))

\* The low byte of the status register of a thread in ARM state.
UserMode == 16

ShiftedRegValue(c, o) ==
  LET n == IF o.form = "amount" THEN o.n
           ELSE IF o.rs = PC THEN Base + 8 ELSE UserMode
      x == IF o.rm # PC THEN ReadRegister(c, o.rm)
           ELSE IF o.form = "amount" THEN Base + 8 ELSE Base + 12
  IN  Shift(x, o.type, n, c.flags.c)

Rotated(imm, n) == imm \div 2 ^ n + Word(imm * 2 ^ (Bits - n))

\* `a + b + (flag) ? 1 : 0' is 1 or 0 by the value of the sum.
DataProcessing(op, a, b, carry) ==
  LET bit == IF carry THEN 2 ^ (Bits - 3) ELSE 0
      IfZero(x, yes, no) == IF Word(x) = 0 THEN yes ELSE no
  IN  CASE op = "AND" -> a & b
        [] op = "EOR" -> a ^^ b
        [] op = "SUB" -> Word(a - b)
        [] op = "RSB" -> Word(b - a)
        [] op = "ADD" -> Word(a + b)
        [] op = "ADC" -> IfZero(a + b + bit, 0, 1)
        [] op = "SBC" -> IfZero(a - b - bit, 1, 0)
        [] op = "RSC" -> IfZero(b - a - bit, 1, 0)
        [] op = "ORR" -> a | b
        [] op = "MOV" -> b
        [] op = "BIC" -> a & Complement(b)
        [] op = "MVN" -> Complement(b)

IsPreviousInstructionMovePCToLR(c) == c.prev.kind = "movlr"

---------------------------------------------------------------------------
(* What the driver takes the current instruction to do.                    *)

Stay(c, n) == [address |-> Base + n * InstSize(c), changing |-> FALSE]
Goto(a) == [address |-> Word(a), changing |-> FALSE]

\* Changed: the target of a Thumb instruction is taken as that of an ARM instruction.
InterworkFromArm(c, a) == [address |-> Even(a), changing |-> a % 2 = 1]

\* Bit 0 of a target tells its mode.
Interwork(c, a) == [address |-> Even(a), changing |-> (a % 2 = 1) # c.thumb]

LoadTarget(c, a) == IF a \in Mapped THEN Interwork(c, Memory[a]) ELSE Stay(c, 1)

WritesPC(i) == i.kind = "bx" \/ (i.kind \in {"data", "ldr"} /\ i.rd = PC)

Indexed(i, base, offset) ==
  IF ~i.pre THEN base ELSE IF i.up THEN Word(base + offset) ELSE Word(base - offset)

DataTarget(c, i) ==
  LET o == i.operand
      rn == IF o.form # "imm" /\ i.rn = PC THEN Base + 8 ELSE ReadRegister(c, i.rn)
      shifter == IF o.form = "imm" THEN Rotated(o.imm, o.rot) ELSE ShiftedRegValue(c, o)
  IN  Goto(DataProcessing(i.op, rn, shifter, c.flags.c))

LdrTarget(c, i) ==
  LET o == i.operand
      base == IF o.form # "imm" /\ i.rn = PC THEN Base + 8 ELSE ReadRegister(c, i.rn)
  IN  LoadTarget(c, Indexed(i, base, IF o.form = "imm" THEN o.imm ELSE ShiftedRegValue(c, o)))

\* Changed: the word is looked for as if the address were changed after each load.
LdmTargetAfter(c, i) ==
  LET last == IF i.up THEN Cardinality(i.list) * 4 - 4 ELSE 0
  IN  LoadTarget(c, Word(ReadRegister(c, i.rn) + last))

LdmTarget(c, i) ==
  LET last == IF i.up THEN Cardinality(i.list) * 4 - 4 + (IF i.pre THEN 4 ELSE 0)
              ELSE IF i.pre THEN -4 ELSE 0
  IN  LoadTarget(c, Word(ReadRegister(c, i.rn) + last))

\* The test for BLX with an address fails for every instruction: cond NV is B or BL.
BranchTarget(c, i) == IF c.into \/ ~i.link THEN Goto(Base + 8 + 4 * i.offset) ELSE Stay(c, 1)
ArmTarget(c, i) ==
  CASE ~IsExecuted(i.cond, c.flags) -> Stay(c, 1)
    [] WritesPC(i) /\ IsPreviousInstructionMovePCToLR(c) /\ ~c.into -> Stay(c, 1)
    [] i.kind = "data" /\ i.rd = PC -> DataTarget(c, i)
    [] i.kind = "ldr" /\ i.rd = PC -> LdrTarget(c, i)
    [] i.kind = "ldm" /\ PC \in i.list -> LdmTarget(c, i)
    [] i.kind = "bx" \/ (i.kind = "blx" /\ c.into) -> Interwork(c, ReadRegister(c, i.rm))
    [] i.kind = "b" -> BranchTarget(c, i)
    [] OTHER -> Stay(c, 1)

\* BL and BLX of Thumb are two instructions; c.insts[2] is the suffix of a prefix.
PrefixTarget(c, i) ==
  LET newPC == Word(Base + 4 + 2 * i.offset + 2 * c.insts[2].offset)
  IN  IF ~c.into THEN Stay(c, 2)
      ELSE IF c.insts[2].kind = "tblxsuffix"
           THEN [address |-> newPC - (newPC % 4), changing |-> TRUE]
           ELSE Goto(newPC)

ThumbTarget(c, i) ==
  CASE i.kind = "tbx" \/ (i.kind = "tblx" /\ c.into) -> Interwork(c, ReadRegister(c, i.rm))
    [] i.kind = "tmov" /\ i.rd = PC -> Goto(ReadRegister(c, i.rm))
    [] i.kind = "tadd" /\ i.rd = PC -> Goto(Base + ReadRegister(c, i.rm))
    [] i.kind = "tpop" /\ PC \in i.list ->
         LoadTarget(c, Word(ReadRegister(c, SP) + 4 * Cardinality(i.list \ {PC})))
    [] i.kind = "tbcond" /\ IsExecuted(i.cond, c.flags) -> Goto(Base + 4 + 2 * i.offset)
    [] i.kind = "tb" -> Goto(Base + 4 + 2 * i.offset)
    [] i.kind = "tprefix" -> PrefixTarget(c, i)
    [] i.kind = "tblsuffix" /\ c.into -> Goto(ReadRegister(c, LR) + 2 * i.offset)
    [] i.kind = "tblxsuffix" /\ c.into ->
         LET a == Word(ReadRegister(c, LR) + 2 * i.offset)
         IN  [address |-> a - (a % 4), changing |-> a % 2 = 0]
    [] OTHER -> Stay(c, 1)

PCAfterInstructionExecutes(c) ==
  IF c.thumb THEN ThumbTarget(c, c.insts[1]) ELSE ArmTarget(c, c.insts[1])

---------------------------------------------------------------------------
(* Which instructions of the range may modify the PC.                      *)

BlockOrBranchModifiesPC(c, i) ==
  \/ i.kind = "ldm" /\ PC \in i.list
  \/ i.kind = "b" /\ (i.link => c.into)
ArmModifiesPC(c, i) ==
  \/ WritesPC(i) /\ (IsPreviousInstructionMovePCToLR(c) => c.into)
  \/ i.kind = "blx" /\ c.into
  \/ BlockOrBranchModifiesPC(c, i)

ThumbModifiesPC(c, i) ==
  \/ i.kind \in {"tbx", "tbcond", "tb", "tldr"}
  \/ i.kind \in {"tblx", "tblsuffix", "tblxsuffix"} /\ c.into
  \/ i.kind \in {"tmov", "tadd"} /\ i.rd = PC
  \/ i.kind = "tpop" /\ PC \in i.list

InstructionModifiesPC(c, i) == IF c.thumb THEN ThumbModifiesPC(c, i) ELSE ArmModifiesPC(c, i)

\* 1 is the current instruction, count + 1 the end of the range.
FirstToModify(c) ==
  IF c.count \in 2..MaxScan
  THEN Min({k \in 1..c.count : InstructionModifiesPC(c, c.insts[k])} \cup {c.count + 1})
  ELSE 1

\* The temporary breakpoint: where, and in which mode.
TempBreak(t) == [set |-> TRUE, address |-> t.address, thumb |-> case.thumb # t.changing]

ModifyBreaksForStep ==
  /\ ~plan.set
  /\ LET k == FirstToModify(case)
         t == IF k = 1 THEN PCAfterInstructionExecutes(case) ELSE Stay(case, k - 1)
     IN  plan' = TempBreak(t)
  /\ UNCHANGED <<case, at>>

---------------------------------------------------------------------------
(* What the architecture does with instruction k of thread t.              *)

Register(c, t, r, ahead) ==
  CASE r = PC -> t.pc + ahead
    [] r = LR -> t.lr
    [] OTHER -> c.reg[r]

Passes(cond, f) ==
  CASE cond = "GE" -> f.n = f.v
    [] cond = "LT" -> f.n # f.v
    [] cond = "GT" -> f.n = f.v /\ ~f.z
    [] cond = "LE" -> f.n # f.v \/ f.z
    [] OTHER -> IsExecuted(cond, f)

Operand(c, t, o) ==
  CASE o.form = "imm" -> Rotated(o.imm, (2 * o.rot) % Bits)
    [] o.form = "amount" ->
         Shift(Register(c, t, o.rm, 8), o.type,
               IF o.n = 0 /\ o.type \in {"LSR", "ASR"} THEN Bits ELSE o.n, c.flags.c)
    [] o.form = "register" ->
         LET n == Register(c, t, o.rs, 8)
             x == Register(c, t, o.rm, 8)
         IN  IF o.type = "ROR" /\ n % Bits = 0 THEN x ELSE Shift(x, o.type, n, c.flags.c)

Computes(op, a, b, carry) ==
  LET one == IF carry THEN 1 ELSE 0
  IN  CASE op = "ADC" -> Word(a + b + one)
        [] op = "SBC" -> Word(a - b - 1 + one)
        [] op = "RSC" -> Word(b - a - 1 + one)
        [] OTHER -> DataProcessing(op, a, b, carry)

\* A target in ARM state ends in 00, a word is loaded from such an address.
Branch(a, thumb) == [pc |-> Word(a), thumb |-> thumb, defined |-> thumb \/ a % 4 = 0]
Exchange(a) == Branch(Even(a), a % 2 = 1)
Load(a) == IF a \in Mapped /\ a % 4 = 0 THEN Exchange(Memory[a])
           ELSE [Branch(0, FALSE) EXCEPT !.defined = FALSE]

ArmGoes(c, t, i) ==
  LET Reg(r) == Register(c, t, r, 8)
      below == IF i.up THEN 4 * Cardinality(i.list) - 4 ELSE 0
  IN  CASE i.kind = "data" /\ i.rd = PC ->
             Branch(Computes(i.op, Reg(i.rn), Operand(c, t, i.operand), c.flags.c), FALSE)
        [] i.kind = "ldr" /\ i.rd = PC ->
             Load(Indexed(i, Reg(i.rn),
                          IF i.operand.form = "imm" THEN i.operand.imm
                          ELSE Operand(c, t, i.operand)))
        [] i.kind = "ldm" /\ PC \in i.list ->
             Load(Word(Reg(i.rn) + below + (IF ~i.pre THEN 0 ELSE IF i.up THEN 4 ELSE -4)))
        [] i.kind \in {"bx", "blx"} -> Exchange(Reg(i.rm))
        [] i.kind = "b" /\ i.cond = "NV" ->
             Branch(Reg(PC) + 4 * i.offset + (IF i.link THEN 2 ELSE 0), TRUE)
        [] i.kind = "b" -> Branch(Reg(PC) + 4 * i.offset, FALSE)
        [] OTHER -> Branch(t.pc + 4, FALSE)

ThumbGoes(c, t, i) ==
  LET Reg(r) == Register(c, t, r, 4)
      next == Branch(t.pc + 2, TRUE)
  IN  CASE i.kind \in {"tbx", "tblx"} -> Exchange(Reg(i.rm))
        [] i.kind = "tmov" /\ i.rd = PC -> Branch(Even(Reg(i.rm)), TRUE)
        [] i.kind = "tadd" /\ i.rd = PC -> Branch(Even(Reg(PC) + Reg(i.rm)), TRUE)
        [] i.kind = "tpop" /\ PC \in i.list ->
             Load(Word(Reg(SP) + 4 * (Cardinality(i.list) - 1)))
        [] i.kind = "tbcond" /\ Passes(i.cond, c.flags) -> Branch(Reg(PC) + 2 * i.offset, TRUE)
        [] i.kind = "tb" -> Branch(Reg(PC) + 2 * i.offset, TRUE)
        [] i.kind = "tblsuffix" -> Branch(t.lr + 2 * i.offset, TRUE)
        [] i.kind = "tblxsuffix" ->
             LET a == t.lr + 2 * i.offset IN Branch(a - (a % 4), FALSE)
        [] OTHER -> next

\* gcc calls with a branch of any kind, after it has moved the PC to LR.
IsCall(c, k) ==
  LET i == c.insts[k]
      before == IF k = 1 THEN c.prev ELSE c.insts[k - 1]
  IN  \/ i.kind \in {"blx", "tblx", "tblsuffix", "tblxsuffix"}
      \/ i.kind = "b" /\ (i.link \/ i.cond = "NV")
      \/ WritesPC(i) /\ before.kind = "movlr"

Goes(c, t, k) ==
  LET i == c.insts[k]
      next == Branch(t.pc + InstSize(c), c.thumb)
  IN  CASE ~c.thumb /\ ~Passes(i.cond, c.flags) -> next
        [] IsCall(c, k) /\ ~c.into -> next
        [] OTHER -> IF c.thumb THEN ThumbGoes(c, t, i) ELSE ArmGoes(c, t, i)

IndexOf(c, t) == (t.pc - Base) \div InstSize(c) + 1

\* The range, with the second half of a call whose first half is decoded.
Inside(c, t) ==
  /\ t.thumb = c.thumb
  /\ t.pc >= Base /\ (t.pc - Base) % InstSize(c) = 0
  /\ \/ IndexOf(c, t) <= c.count
     \/ IndexOf(c, t) = 2 /\ c.insts[1].kind = "tprefix"

Run ==
  LET k == IndexOf(case, at)
      next == Goes(case, at, k)
  IN  /\ plan.set /\ at.pc # plan.address /\ Inside(case, at)
      /\ next.defined
      /\ at' = [pc |-> next.pc, thumb |-> next.thumb,
                lr |-> IF case.insts[k].kind = "tprefix"
                       THEN Word(at.pc + 4 + 2 * case.insts[k].offset) ELSE at.lr]
      /\ UNCHANGED <<case, plan>>

Init ==
  /\ case \in Cases
  /\ plan = [set |-> FALSE, address |-> 0, thumb |-> FALSE]
  /\ at = [pc |-> Base, thumb |-> case.thumb, lr |-> case.reg[LR]]

Next == ModifyBreaksForStep \/ Run

Spec == Init /\ [][Next]_vars

---------------------------------------------------------------------------
(* Where the driver and the architecture part.                             *)

SignedCondition(c, i) == i.cond \in {"GE", "LT", "GT", "LE"} /\ c.flags.n /\ c.flags.v

MisreadOperand(o) ==
  \/ o.form = "register"
  \/ o.form = "amount" /\ o.n = 0 /\ o.type \in {"LSR", "ASR"}
  \/ o.form = "imm" /\ o.rot # 0

MisreadArm(c, i) ==
  \/ SignedCondition(c, i)
  \/ i.kind = "b" /\ i.cond = "NV"
  \/ /\ i.kind = "data" /\ i.rd = PC
     /\ \/ i.op \in {"ADC", "SBC", "RSC"}
        \/ MisreadOperand(i.operand)
        \/ i.operand.form = "imm" /\ i.rn = PC
  \/ /\ i.kind = "ldr" /\ i.rd = PC
     /\ \/ i.operand.form = "imm" /\ i.rn = PC
        \/ i.operand.form # "imm" /\ MisreadOperand(i.operand)

MisreadThumb(c, i) ==
  \/ i.kind = "tbcond" /\ SignedCondition(c, i)
  \/ i.kind = "tbx" /\ i.rm = PC
  \/ i.kind = "tadd" /\ i.rd = PC
  \/ i.kind = "tmov" /\ i.rd = PC /\ (i.rm = PC \/ c.reg[i.rm] % 2 = 1)

\* While the thread stands after a move of the PC to LR, the scan of a step over
\* takes every later return of the range for the call.
MissedReturn(c) ==
  /\ c.prev.kind = "movlr" /\ ~c.into /\ c.count \in 2..MaxScan
  /\ \E k \in 2..c.count : WritesPC(c.insts[k])

Sound(c) ==
  /\ ~MissedReturn(c)
  /\ LET i == c.insts[1] IN IF c.thumb THEN ~MisreadThumb(c, i) ELSE ~MisreadArm(c, i)

---------------------------------------------------------------------------
Left(c, t) == plan.set /\ ~Inside(c, t)

(* Whatever the instructions of the range are and wherever they jump, a    *)
(* stepped thread does not leave the range but to the address of the       *)
(* temporary breakpoint (PCAfterInstructionExecutes and                    *)
(* InstructionModifiesPC agree with the architecture), and meets it in the *)
(* mode the breakpoint was written for (iThumbMode; an ARM breakpoint      *)
(* would stand over two Thumb instructions), apart from the cases that     *)
(* Sound excludes.                                                         *)
StepLands ==
  Sound(case) =>
    /\ Left(case, at) => at.pc = plan.address
    /\ plan.set /\ at.pc = plan.address => at.thumb = plan.thumb

=============================================================================
