----------------------------- MODULE RegisterBank -----------------------------
(***************************************************************************)
(* The register bank of the monitor in the device                          *)
(* (src/rtl/yifpga_debug/yifpga_monitor_reg_bank.v): which requests it     *)
(* takes, what it answers, what a register holds afterwards, and how a     *)
(* register changes with no request at all.  A value is a set of bits.     *)
(* The viewer asks for known registers, four bytes wide, so that BAD_ADDR  *)
(* and BAD_LEN have no place here; a reset of the device is left out.      *)
(***************************************************************************)
EXTENDS Naturals, FiniteSets

CONSTANTS Addr,          \* registers
          Bit,           \* bits of a register
          Writable,      \* is_writable
          Trigger,       \* is_trigger: reads as zero, a write is a pulse
          W1C,           \* is_w1c: inputs set a bit, a write of one clears it
          Live,          \* the bits of each register read from an input of the bank
          CAPTURE_DEPTH, \* la_capture_depth, which bounds the pre-trigger depth
          BadValues,     \* BAD_VALUE: register, value it would take, capture depth
          ResetBank      \* the registers at first

Value == SUBSET Bit

ASSUME BankAssumption ==
    /\ IsFiniteSet(Addr)
    /\ Writable \subseteq Addr /\ Trigger \subseteq Writable /\ W1C \subseteq Writable \ Trigger
    /\ Live \in [Addr -> Value]
    /\ CAPTURE_DEPTH \in Addr
    /\ BadValues \subseteq Addr \X Value \X Value
    /\ ResetBank \in [Addr -> Value]
    /\ \A a \in Trigger : Live[a] = {} /\ ResetBank[a] = {}

OldValue(bank, a) == IF a \in Trigger THEN {} ELSE bank[a]

Merged(old, r) == (old \ r.mask) \cup (r.value \cap r.mask)

\* status is OK: neither DENIED nor BAD_VALUE
Accepts(bank, r) ==
    \/ r.op = "read"
    \/ /\ r.addr \in Writable
       /\ <<r.addr, Merged(OldValue(bank, r.addr), r), bank[CAPTURE_DEPTH]>> \notin BadValues

NewValue(bank, r) ==
    CASE r.addr \in W1C     -> OldValue(bank, r.addr) \ r.value
      [] r.addr \in Trigger -> {}
      [] OTHER              -> Merged(OldValue(bank, r.addr), r)

TakesWrite(bank, r) == r.op = "write" /\ Accepts(bank, r)

\* resp_new_value of a write, resp_rdata of a read
AnswerTo(bank, r) == IF TakesWrite(bank, r) THEN NewValue(bank, r) ELSE OldValue(bank, r.addr)

\* A bit read from an input has nowhere to be stored.
BankAfter(bank, r) ==
    IF TakesWrite(bank, r)
    THEN [bank EXCEPT ![r.addr] = (NewValue(bank, r) \ Live[r.addr]) \cup (@ \cap Live[r.addr])]
    ELSE bank

\* Register a goes from one value to the other without a write: its live bits as
\* they like, a W1C bit only from clear to set.
Drifts(a, from, to) ==
    IF a \in W1C THEN from \ Live[a] \subseteq to ELSE from \ Live[a] = to \ Live[a]
=============================================================================
