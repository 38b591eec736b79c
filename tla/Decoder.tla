------------------------------ MODULE Decoder ------------------------------
(***************************************************************************)
(* The instruction length decoder of the hook engine (src/hook.cpp:        *)
(* modrm_len and insn_len), and the lengths that the architecture gives.   *)
(* Code is a sequence of bytes; an operator that takes code p and an index *)
(* i reads the bytes from p[i] on.                                         *)
(***************************************************************************)
EXTENDS Integers, Sequences, FiniteSetsExt

Byte == 0 .. 255

LegacyPrefix == {\h26, \h2E, \h36, \h3E, \h64, \h65, \h66, \h67, \hF0, \hF2, \hF3}

mod(b) == b \div 64
reg(b) == (b \div 8) % 8
rm(b) == b % 8

\* The place behind the legacy prefixes of the code at i, which may have a REX
\* prefix, and the place of the opcode.
AfterPrefixes(p, i) == Min({j \in i .. Len(p) : p[j] \notin LegacyPrefix})
HasRex(p, i) == p[AfterPrefixes(p, i)] \in \h40 .. \h4F
RexW(p, i) == HasRex(p, i) /\ reg(p[AfterPrefixes(p, i)]) % 2 = 1
OpcodeAt(p, i) == AfterPrefixes(p, i) + (IF HasRex(p, i) THEN 1 ELSE 0)

\* ModRM, SIB and displacement.
modrm_len(p, i) ==
  IF mod(p[i]) = 3 THEN 1
  ELSE 1 + (IF rm(p[i]) = 4 THEN 1 ELSE 0)
         + CASE mod(p[i]) = 1 -> 1
             [] mod(p[i]) = 2 -> 4
             [] OTHER -> IF \/ rm(p[i]) = 5
                            \/ rm(p[i]) = 4 /\ rm(p[i + 1]) = 5
                         THEN 4 ELSE 0
-----------------------------------------------------------------------------
(***************************************************************************)
(* insn_len, by the kinds of operands it tells apart.                      *)
(***************************************************************************)
\* The eight arithmetic groups share their low three bits.
Arithmetic == {op \in 0 .. \h3D : op % 8 < 6}
NoOperand == (\h50 .. \h5F) \cup (\h90 .. \h9F) \cup (\hA4 .. \hA7) \cup (\hAA .. \hAF)
             \cup {\hC3, \hC9, \hCB, \hCC, \hCF} \cup (\hEC .. \hEF) \cup {\hF4, \hF5}
             \cup (\hF8 .. \hFD)
OneByte == {op \in Arithmetic : op % 8 = 4} \cup {\h6A} \cup (\h70 .. \h7F) \cup {\hA8}
           \cup (\hB0 .. \hB7) \cup {\hCD} \cup (\hE0 .. \hE7) \cup {\hEB}
\* A segment prefix behind REX counts as arithmetic.
FourBytes == {op \in Arithmetic : op % 8 = 5} \cup {\h26, \h2E, \h36}
             \cup {\h68, \hA9, \hE8, \hE9}
PlainModRM == {op \in Arithmetic : op % 8 < 4} \cup {\h63} \cup (\h84 .. \h8B)
              \cup {\h8D, \h8F} \cup (\hD0 .. \hD3) \cup (\hD8 .. \hDF) \cup {\hFE, \hFF}
ModRMByte == {\h6B, \h80, \h83, \hC0, \hC1, \hC6}
ModRMFour == {\h69, \h81, \hC7}

TwoByteNoOperand == {\h05, \h0B, \h0E, \h77} \cup (\hC8 .. \hCF)
TwoByteImm8 == (\h70 .. \h73) \cup {\hA4, \hAC, \hBA, \hC2, \hC4, \hC5, \hC6}

\* The test forms of the groups F6 and F7 have an immediate.
IsTest(p, i) == reg(p[i + 1]) \in {0, 1}

\* The bytes after the opcode at i; -1 for one that is not known.
operand_len(p, i, rex_w) ==
  LET op == p[i]  m == modrm_len(p, i + 1) IN
  CASE op \in NoOperand  -> 0
    [] op \in OneByte    -> 1
    [] op \in {\hC2, \hCA} -> 2
    [] op = \hC8         -> 3
    [] op \in FourBytes  -> 4
    [] op \in \hB8 .. \hBF -> IF rex_w THEN 8 ELSE 4
    [] op \in \hA0 .. \hA3 -> 8
    [] op \in PlainModRM -> m
    [] op \in ModRMByte  -> m + 1
    [] op \in ModRMFour  -> m + 4
    [] op = \hF6         -> m + (IF IsTest(p, i) THEN 1 ELSE 0)
    [] op = \hF7         -> m + (IF IsTest(p, i) THEN 4 ELSE 0)
    [] OTHER             -> -1

two_byte_len(p, i) ==
  LET op == p[i] IN
  CASE op \in TwoByteNoOperand -> 0
    [] op \in \h80 .. \h8F     -> 4
    [] OTHER -> modrm_len(p, i + 1) + (IF op \in TwoByteImm8 THEN 1 ELSE 0)

\* The length of the instruction at p[i], 0 if it is not known.
insn_len(p, i) ==
  LET o == OpcodeAt(p, i)
      operands == operand_len(p, o, RexW(p, i))
  IN IF p[o] = \h0F THEN o + 2 - i + two_byte_len(p, o + 1)
     ELSE IF operands = -1 THEN 0
     ELSE o + 1 - i + operands
-----------------------------------------------------------------------------
(***************************************************************************)
(* The architecture's own lengths: of one-byte opcodes and of those after  *)
(* 0F.  An opcode has a ModRM byte or not, and an immediate whose size may *)
(* depend on the operand and address size.                                 *)
(***************************************************************************)
HasModRM(op) == \/ op < \h40 /\ op % 8 < 4
                \/ op \in {\h63, \h69, \h6B} \cup (\h80 .. \h8F)
                       \cup {\hC0, \hC1, \hC6, \hC7} \cup (\hD0 .. \hD3)
                       \cup (\hD8 .. \hDF) \cup {\hF6, \hF7, \hFE, \hFF}

\* z: two bytes or four, by the operand size.
Immediate(op, z, rexW, addr32, test) ==
  CASE op < \h40 /\ op % 8 = 4 -> 1
    [] op < \h40 /\ op % 8 = 5 -> z
    [] op \in {\h68, \h69, \h81, \hA9, \hC7} -> z
    [] op \in {\h6A, \h6B, \h80, \h83, \hA8, \hC0, \hC1, \hC6, \hCD, \hEB} -> 1
    [] op \in (\h70 .. \h7F) \cup (\hB0 .. \hB7) \cup (\hE0 .. \hE7) -> 1
    [] op \in \hA0 .. \hA3 -> IF addr32 THEN 4 ELSE 8
    [] op \in \hB8 .. \hBF -> IF rexW THEN 8 ELSE z
    [] op \in {\hC2, \hCA} -> 2
    [] op = \hC8 -> 3
    [] op \in {\hE8, \hE9} -> 4
    [] op = \hF6 -> IF test THEN 1 ELSE 0
    [] op = \hF7 -> IF test THEN z ELSE 0
    [] OTHER -> 0

\* After 0F: opcodes without ModRM, with an immediate, and with a third byte.
Bare == (\h05 .. \h09) \cup {\h0B, \h0E} \cup (\h30 .. \h37) \cup {\h77}
        \cup {\hA0, \hA1, \hA2, \hA8, \hA9, \hAA} \cup (\hC8 .. \hCF)
WithByte == (\h70 .. \h73) \cup {\hA4, \hAC, \hBA, \hC2, \hC4, \hC5, \hC6}

\* Opcodes of 64-bit code with the layout above.
Defined == (0 .. 255) \ ({op \in 0 .. \h3F : op % 8 > 5} \cup (\h40 .. \h4F)
             \cup {\h60, \h61, \h62, \h82, \h9A, \hC4, \hC5, \hCE, \hD4, \hD5, \hD6, \hEA}
             \cup LegacyPrefix)
DefinedAfter0F == (0 .. 255) \ {\h04, \h0A, \h0C, \h0F, \h24, \h25, \h26, \h27, \h36, \h39,
                                \h3B, \h3C, \h3D, \h3E, \h3F, \h78, \h79, \hA6, \hA7}

\* ModRM and what it calls for.
Addressing(p, i) ==
  LET b == p[i]
      base == rm(p[i + 1])
  IN 1 + (IF mod(b) # 3 /\ rm(b) = 4 THEN 1 ELSE 0)
       + CASE mod(b) = 1 -> 1
           [] mod(b) = 2 \/ (mod(b) = 0 /\ (rm(b) = 5 \/ (rm(b) = 4 /\ base = 5))) -> 4
           [] OTHER -> 0

\* The code at i has a legacy prefix b.
Prefixed(p, i, b) == \E j \in i .. AfterPrefixes(p, i) - 1 : p[j] = b
ShortOperand(p, i) == Prefixed(p, i, \h66) /\ ~RexW(p, i)

\* What follows the second byte of an opcode, which is at i.
TwoByteTail(p, i) ==
  LET op == p[i] IN
  CASE op \in \h80 .. \h8F -> 4
    [] op \in Bare -> 0
    [] op = \h38 -> 1 + Addressing(p, i + 2)
    [] op = \h3A -> 2 + Addressing(p, i + 2)
    [] OTHER -> Addressing(p, i + 1) + (IF op \in WithByte THEN 1 ELSE 0)

TrueLen(p, i) ==
  LET o == OpcodeAt(p, i)
      z == IF ShortOperand(p, i) THEN 2 ELSE 4
      one == Immediate(p[o], z, RexW(p, i), Prefixed(p, i, \h67), reg(p[o + 1]) < 2)
               + (IF HasModRM(p[o]) THEN Addressing(p, o + 1) ELSE 0)
  IN IF p[o] = \h0F THEN o + 2 - i + TwoByteTail(p, o + 1) ELSE o + 1 - i + one
-----------------------------------------------------------------------------
(***************************************************************************)
(* What insn_len is right about.                                           *)
(***************************************************************************)
\* The code at i starts with an instruction of 64-bit code.
IsInstruction(p, i) ==
  LET o == OpcodeAt(p, i) IN
  p[o] \in Defined \/ (p[o] = \h0F /\ p[o + 1] \in DefinedAfter0F)

\* Opcodes whose immediate has the operand's size.
Sized(p, o) == \/ p[o] \in {op \in 0 .. \h3D : op % 8 = 5} \cup {\h68, \h69, \h81, \hA9, \hC7}
                          \cup (\hB8 .. \hBF)
               \/ p[o] = \hF7 /\ IsTest(p, o)

\* What insn_len gets wrong: 16-bit immediates, 32-bit addresses of moffs,
\* three byte opcodes, and two byte opcodes without ModRM that its list lacks.
Misread(p, i) ==
  LET o == OpcodeAt(p, i) IN
  \/ ShortOperand(p, i) /\ Sized(p, o)
  \/ Prefixed(p, i, \h67) /\ p[o] \in \hA0 .. \hA3
  \/ p[o] = \h0F /\ p[o + 1] \in {\h38, \h3A} \cup (Bare \ TwoByteNoOperand)

\* An instruction that insn_len does not misread, with its first bytes in p.
Readable(p, i) ==
  /\ \E j \in i .. Len(p) - 3 : p[j] \notin LegacyPrefix
  /\ IsInstruction(p, i) /\ ~Misread(p, i)
-----------------------------------------------------------------------------
(***************************************************************************)
(* The walk of install_inline over the first instructions of a body.       *)
(***************************************************************************)
\* The instructions found in the first upto bytes start at 0 and where the one
\* before ends, length[n] being the length read at byte n.  The walk ends at a
\* length of 0.
Starts(length, upto) ==
  LET steps == {<<n, n + length[n + 1]>> : n \in 0 .. upto - 1}
      follows(S) == \A s \in steps : s[1] \in S /\ s[2] < upto => s[2] \in S
      walks == {S \in SUBSET (0 .. upto - 1) : 0 \in S /\ follows(S)}
  IN {n \in 0 .. upto - 1 : \A S \in walks : n \in S}

EndsBy(length, upto) == {n + length[n + 1] : n \in Starts(length, upto)} \ {0}

TrueLengths(p, upto) == [n \in 1 .. upto |-> TrueLen(p, n)]
ReadLengths(p, upto) == [n \in 1 .. upto |-> insn_len(p, n)]
TrueEnds(p, upto) == EndsBy(TrueLengths(p, upto), upto)
ReadEnds(p, upto) == EndsBy(ReadLengths(p, upto), upto)
=============================================================================
