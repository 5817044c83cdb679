------------------------------ MODULE FileSpec ------------------------------
(***************************************************************************)
(* What read, write, lseek and open with O_TRUNC or O_CREAT promise of the *)
(* files of the simple file system, one call at a time: a file is a size   *)
(* and its bytes, those beyond the size included, and no call touches the  *)
(* bytes of another file.                                                  *)
(*                                                                         *)
(* A write stores its bytes one part at a time and returns how many it     *)
(* stored.  A change of size does not clear what it hides: a byte beyond   *)
(* the size keeps its last value or becomes 0, and shows again when the    *)
(* file grows.  The kernel may panic in a call, and then nothing follows.   *)
(***************************************************************************)
EXTENDS Integers, Sequences

CONSTANTS File, Value, Position
VARIABLES size, byte, busy, reply

vars == <<size, byte, busy, reply>>

Idle == [op |-> "idle"]
Halted == [op |-> "halted"]
IoCall == [op : {"read", "write"}, f : File, off : Nat, len : Nat, v : Value]
TruncateCall == [op : {"truncate"}, f : File, len : Nat]

Init ==
  /\ size = [f \in File |-> 0]
  /\ byte = [f \in File |-> [p \in Position |-> 0]]
  /\ busy = Idle
  /\ reply = <<>>

Start ==
  /\ busy = Idle
  /\ busy' \in IoCall \union TruncateCall
  /\ UNCHANGED <<size, byte, reply>>

\* A write stores its value in some of the positions it was called for.
Store ==
  /\ busy.op = "write"
  /\ \E S \in SUBSET {p \in Position : busy.off <= p /\ p < busy.off + busy.len} :
       byte' = [byte EXCEPT ![busy.f] =
                  [p \in Position |-> IF p \in S THEN busy.v ELSE byte[busy.f][p]]]
  /\ UNCHANGED <<size, busy, reply>>

\* A truncate clears some of the positions at and after the new size.
Clear ==
  /\ busy.op = "truncate"
  /\ \E S \in SUBSET {p \in Position : busy.len <= p} :
       byte' = [byte EXCEPT ![busy.f] =
                  [p \in Position |-> IF p \in S THEN 0 ELSE byte[busy.f][p]]]
  /\ UNCHANGED <<size, busy, reply>>

\* A read hands out bytes from its position on, all below the size, and returns.
ReadBytes ==
  /\ busy.op = "read" /\ reply = <<>>
  /\ \E n \in 1 .. busy.len :
       /\ busy.off + n <= size[busy.f]
       /\ reply' = [k \in 1 .. n |-> byte[busy.f][busy.off + k - 1]]
  /\ UNCHANGED <<size, byte, busy>>

ReadReturns ==
  /\ busy.op = "read"
  /\ reply' = <<>>
  /\ busy' = Idle
  /\ UNCHANGED <<size, byte>>

\* A write that returns n has stored n bytes and moved the size past them.
WriteReturns ==
  /\ busy.op = "write"
  /\ \E n \in 0 .. busy.len :
       /\ \A k \in 0 .. n - 1 : byte[busy.f][busy.off + k] = busy.v
       /\ size' = [size EXCEPT ![busy.f] = IF busy.off + n > @ THEN busy.off + n ELSE @]
  /\ busy' = Idle
  /\ UNCHANGED <<byte, reply>>

\* A truncate gives the file its new size, unless it fails and leaves the old one.
Resize ==
  /\ busy.op = "truncate"
  /\ size' = [size EXCEPT ![busy.f] = busy.len]
  /\ UNCHANGED <<byte, busy, reply>>

TruncateReturns ==
  /\ busy.op = "truncate"
  /\ busy' = Idle
  /\ UNCHANGED <<size, byte, reply>>

Returns == ReadReturns \/ WriteReturns \/ TruncateReturns

Halt ==
  /\ busy' = Halted
  /\ reply' = <<>>
  /\ UNCHANGED <<size, byte>>

Next == Start \/ Store \/ Clear \/ ReadBytes \/ Resize \/ Returns \/ Halt

Spec == Init /\ [][Next]_vars
=============================================================================
