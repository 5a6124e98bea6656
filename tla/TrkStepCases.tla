---------------------------- MODULE TrkStepCases ----------------------------
(***************************************************************************)
(* Steps of a thread at address 64 of a memory of 256 bytes, over ranges   *)
(* of one to three instructions of which at most two are scanned.          *)
(***************************************************************************)
EXTENDS TrkStepDecode

\* Even words hold ARM addresses, odd words Thumb addresses.
MCMemory ==
  [a \in 0..255 |-> IF (a \div 4) % 2 = 0 THEN (4 * (a * 5 + 40)) % 256
                    ELSE (6 * a + 33) % 256]
MCMapped == 0..199

Conditions == {"EQ", "NE", "CS", "CC", "MI", "PL", "VS", "VC", "HI", "LS", "GE", "LT", "GT",
               "LE", "AL", "NV"}
Plain == [n |-> FALSE, z |-> FALSE, c |-> TRUE, v |-> FALSE]
AllFlags == [n : BOOLEAN, z : BOOLEAN, c : BOOLEAN, v : BOOLEAN]

Registers == {[r \in {0, 1, 13, 14} |-> CASE r = 0 -> x [] r = 1 -> 16
                                         [] r = 13 -> 36 [] r = 14 -> y] :
              x \in {20, 160, 131}, y \in {90, 108}}

Nop == [kind |-> "other", cond |-> "AL"]
MoveLR == [kind |-> "movlr", cond |-> "AL"]

Amounts == [form : {"amount"}, rm : {0, PC}, type : {"LSL", "LSR", "ASR", "ROR"}, n : {0, 1, 7}]
ByRegister == [form : {"register"}, rm : {0}, rs : {1}, type : {"LSL", "ROR"}]
Immediates == [form : {"imm"}, imm : {4, 72}, rot : {0, 1}]
Offsets == [form : {"imm"}, imm : {4}]
           \cup [form : {"amount"}, rm : {0}, type : {"LSL", "LSR"}, n : {0, 1}]

Data == [kind : {"data"}, cond : {"AL"},
         op : {"AND", "EOR", "SUB", "RSB", "ADD", "ADC", "SBC", "RSC", "ORR", "MOV", "BIC", "MVN"},
         rd : {PC}, rn : {1, PC}, operand : Amounts \cup ByRegister \cup Immediates]
Ldr == [kind : {"ldr"}, cond : {"AL"}, rd : {0, PC}, rn : {1, PC}, pre : BOOLEAN, up : BOOLEAN,
        operand : Offsets]
Ldm == [kind : {"ldm"}, cond : {"AL"}, rn : {1, 13}, pre : BOOLEAN, up : BOOLEAN,
        list : {{0}, {PC}, {0, PC}, {0, 1, 4, PC}}]
Branches == [kind : {"b"}, cond : Conditions, link : BOOLEAN, offset : {-3, -2, 5}]
Exchanges == [kind : {"bx", "blx"}, cond : {"AL", "NE", "EQ"}, rm : {0, 14}]

ThumbBranches == [kind : {"tbcond"}, cond : Conditions \ {"AL", "NV"}, offset : {-3, 6}]
Thumb == [kind : {"tbx"}, rm : {0, 14, PC}] \cup [kind : {"tblx"}, rm : {0, 14}]
         \cup [kind : {"tmov", "tadd"}, rd : {0, PC}, rm : {0, PC}]
         \cup [kind : {"tpop"}, list : {{0}, {PC}, {0, 1, PC}}]
         \cup [kind : {"tb"}, offset : {-2, 9}] \cup [kind : {"tldr"}]
Suffixes == [kind : {"tblsuffix", "tblxsuffix"}, offset : {0, 3}]
Prefixes == [kind : {"tprefix"}, offset : {-16, 16}]

Steps(thumb, codes, prevs, regs, flags, counts) ==
  [thumb : {thumb}, into : BOOLEAN, insts : codes, prev : prevs, reg : regs, flags : flags,
   count : counts]

AsFirst(is) == {<<i, Nop, Nop>> : i \in is}
AsSecond(is) == {<<Nop, i, Nop>> : i \in is}
AsPair(is, js) == {<<i, j, Nop>> : i \in is, j \in js}

MCCases ==
  LET some == {r \in Registers : r[14] = 108}
  IN  Steps(FALSE, AsFirst(Data), {Nop}, some, {Plain, [Plain EXCEPT !.c = FALSE]}, {1})
      \cup Steps(FALSE, AsFirst(Ldr \cup Ldm \cup Exchanges), {Nop, MoveLR},
                 some, {Plain}, {1, 2, 3})
      \cup Steps(FALSE, AsSecond(Ldr \cup Ldm \cup Exchanges), {Nop, MoveLR},
                 some, {Plain}, {1, 2, 3})
      \cup Steps(FALSE, AsFirst(Branches) \cup AsSecond(Branches), {Nop},
                 {CHOOSE r \in some : TRUE}, AllFlags, {1, 2})
      \cup Steps(FALSE, AsPair({MoveLR} \cup Exchanges, Exchanges), {Nop, MoveLR},
                 some, {Plain}, {1, 2})
      \cup Steps(TRUE, AsFirst(Thumb \cup Suffixes) \cup AsSecond(Thumb \cup Suffixes), {Nop},
                 Registers, {Plain}, {1, 2, 3})
      \cup Steps(TRUE, AsFirst(ThumbBranches) \cup AsSecond(ThumbBranches), {Nop},
                 {CHOOSE r \in Registers : TRUE}, AllFlags, {1, 2})
      \cup Steps(TRUE, AsPair(Prefixes, Suffixes), {Nop},
                 Registers, {Plain}, {1, 2})

=============================================================================
