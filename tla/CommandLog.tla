----------------------------- MODULE CommandLog -----------------------------
(***************************************************************************)
(* What /dev/aesdchar promises, without its memory, its lock or its        *)
(* indices: the newest Capacity newline-terminated commands, oldest first,  *)
(* and the bytes written since the last newline.                            *)
(***************************************************************************)
EXTENDS Integers, Sequences

CONSTANTS
  Capacity,  \* the number of commands kept
  Payloads,  \* the byte sequences a write may hand over
  NL         \* the newline byte

VARIABLES
  log,       \* the commands, oldest first
  partial    \* the unterminated tail

vars == <<log, partial>>

-----------------------------------------------------------------------------

HasNewline(data) == \E i \in 1 .. Len(data) : data[i] = NL

(* The number of bytes one write takes: up to and including the first       *)
(* newline; what follows it is left for the writer to write again.          *)
AcceptedLen(data) ==
  IF HasNewline(data)
  THEN CHOOSE i \in 1 .. Len(data) :
         data[i] = NL /\ \A k \in 1 .. (i - 1) : data[k] # NL
  ELSE Len(data)

Accepted(data) == SubSeq(data, 1, AcceptedLen(data))

(* The log after one more command. *)
Keep(commands, command) ==
  IF Len(commands) < Capacity
  THEN Append(commands, command)
  ELSE Append(Tail(commands), command)

-----------------------------------------------------------------------------

Init == log = <<>> /\ partial = <<>>

Extend(data) ==
  /\ ~ HasNewline(data)
  /\ partial' = partial \o data
  /\ UNCHANGED log

Terminate(data) ==
  /\ HasNewline(data)
  /\ log' = Keep(log, partial \o Accepted(data))
  /\ partial' = <<>>

(* The module is unloaded: nothing survives. *)
Forget == log' = <<>> /\ partial' = <<>>

Next ==
  \/ \E data \in Payloads : Extend(data) \/ Terminate(data)
  \/ Forget

Spec == Init /\ [][Next]_vars
=============================================================================
