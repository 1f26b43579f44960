------------------------------ MODULE Redcode ------------------------------
(***************************************************************************)
(* The Redcode machine word of redcode.rs: opcodes, modifiers, addressing  *)
(* modes, the instruction that fills one cell of the core, and an          *)
(* assembled warrior.  Numbers are normalized to 0 .. CoreSize-1.  The     *)
(* textual forms (parse, name, symbol, Display) are left out.              *)
(***************************************************************************)
EXTENDS Integers, Sequences

CONSTANTS
  CoreSize,   \* cells in the core, `-s`
  MaxLength,  \* instructions in a warrior, `-l`
  Pins,       \* the PIN numbers warriors may declare
  NoPin       \* a warrior without a PIN line

\* Config::check: two warriors at least one cell apart, 16-bit addresses.
ASSUME CoreSizeAssumption == CoreSize \in Nat /\ 2 <= CoreSize /\ CoreSize <= 65535
ASSUME MaxLengthAssumption == MaxLength \in Nat \ {0}
ASSUME PinAssumption == NoPin \notin Pins

Addr == 0 .. CoreSize - 1

Opcodes == {"DAT", "MOV", "ADD", "SUB", "MUL", "DIV", "MOD", "JMP", "JMZ", "JMN",
            "DJN", "SPL", "SLT", "CMP", "SEQ", "SNE", "NOP", "LDP", "STP"}

Modifiers == {"A", "B", "AB", "BA", "F", "X", "I"}

Modes == {"Immediate", "Direct", "AIndirect", "BIndirect",
          "APredec", "BPredec", "APostinc", "BPostinc"}

Instruction == [op: Opcodes, mod: Modifiers, am: Modes, a: Addr, bm: Modes, b: Addr]

EMPTY == [op |-> "DAT", mod |-> "F", am |-> "Direct", a |-> 0, bm |-> "Direct", b |-> 0]

Warrior == [code: Seq(Instruction), start: Addr, pin: Pins \cup {NoPin}]

-----------------------------------------------------------------------------
\* Config::pspace_size: the core over its largest divisor not above 16.
PspaceDivisor ==
  CHOOSE i \in 1 .. 16 : /\ CoreSize % i = 0
                         /\ \A j \in 1 .. 16 : CoreSize % j = 0 => j <= i
PspaceSize == CoreSize \div PspaceDivisor
=============================================================================
