----------------------------- MODULE DriverOps -----------------------------
(***************************************************************************)
(* The computations of aesd-char-driver/main.c that do not depend on who    *)
(* runs them: where a write is cut, and where a seek command leads.         *)
(***************************************************************************)
EXTENDS CircularBuffer

CONSTANT NL  \* the newline

EINVAL == -22

(* The search for the newline, and append_index.  Faulty variant: what      *)
(* follows the newline is taken as well.                                    *)
NewlineFound(data) == \E i \in 1 .. Len(data) : data[i] = NL

AppendIndexWhole(data) == Len(data)

AppendIndex(data) ==
  IF NewlineFound(data)
  THEN CHOOSE i \in 1 .. Len(data) :
         data[i] = NL /\ \A k \in 1 .. (i - 1) : data[k] # NL
  ELSE Len(data)

(* The bytes in the array's slots below slot i: updated_fpos_offset. *)
BytesBelow(b, i) ==
  LET bytes[k \in 0 .. MAX_OPS] ==
        IF k = 0 THEN 0 ELSE bytes[k - 1] + b.entry[k - 1].size
  IN  bytes[i]

(* aesd_adjust_file_offset: the position a seek to (write_cmd,              *)
(* write_cmd_offset) sets, or EINVAL.  Faulty variant: the offset may be    *)
(* the size of the command.                                                 *)
AdjustedOffsetClosed(b, write_cmd, write_cmd_offset) ==
  IF write_cmd >= MAX_OPS THEN EINVAL
  ELSE IF write_cmd_offset > b.entry[write_cmd].size THEN EINVAL
  ELSE BytesBelow(b, write_cmd) + write_cmd_offset

AdjustedOffset(b, write_cmd, write_cmd_offset) ==
  IF write_cmd >= MAX_OPS THEN EINVAL
  ELSE IF write_cmd_offset >= b.entry[write_cmd].size THEN EINVAL
  ELSE BytesBelow(b, write_cmd) + write_cmd_offset
=============================================================================
