----------------------------- MODULE ByteStream -----------------------------
(***************************************************************************)
(* What a reader of a file on the mount is promised, whatever goes on      *)
(* behind it: bytes in order from where it asked for them, the end of the  *)
(* file only at its end, an error only when the last of the servers that   *)
(* hold the file has failed too.                                           *)
(***************************************************************************)
EXTENDS Integers

CONSTANTS
  Size,     \* length of the file
  NCopies   \* servers that hold it

VARIABLES
  offset,   \* where the next read starts
  out,      \* what the last call returned
  copy      \* the server that is read from

vars == <<offset, out, copy>>

Nothing == [kind |-> "nothing"]
Eof     == [kind |-> "eof"]
Failure == [kind |-> "failure"]
Bytes(at, n) == [kind |-> "bytes", at |-> at, n |-> n]

Init == offset = 0 /\ out = Nothing /\ copy = 0

Seek ==
  /\ offset' \in Nat
  /\ out' = Nothing
  /\ UNCHANGED copy

\* A read starts ...
Call ==
  /\ out' = Nothing
  /\ UNCHANGED <<offset, copy>>

\* ... and returns.
ReturnBytes ==
  /\ offset' > offset /\ offset' <= Size
  /\ out' = Bytes(offset, offset' - offset)
  /\ UNCHANGED copy

ReturnEof ==
  /\ offset >= Size
  /\ out' = Eof
  /\ UNCHANGED <<offset, copy>>

ReturnFailure ==
  /\ offset < Size /\ copy = NCopies - 1
  /\ out' = Failure
  /\ UNCHANGED <<offset, copy>>

\* The copies are tried one after the other, never back.
HandOver ==
  /\ copy + 1 < NCopies
  /\ copy' = copy + 1
  /\ UNCHANGED <<offset, out>>

Next == Seek \/ Call \/ ReturnBytes \/ ReturnEof \/ ReturnFailure \/ HandOver

Spec == Init /\ [][Next]_vars
=============================================================================
