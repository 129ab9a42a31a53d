--------------------------- MODULE MCSocketServer ---------------------------
(***************************************************************************)
(* The instances of SocketServer that TLC checks.                          *)
(***************************************************************************)
EXTENDS SocketServer

CONSTANT a  \* a byte that is not the newline

Plain(data) == [seek |-> NoSeek, data |-> data]

Seek(write_cmd, write_cmd_offset) ==
  [seek |-> <<write_cmd, write_cmd_offset>>, data |-> <<NL>>]

(* A line; a line in two chunks; seeks to a byte that may or may not be     *)
(* there yet.                                                               *)
WholeRequests ==
  {<<Plain(<<a, NL>>)>>, <<Plain(<<a>>), Plain(<<NL>>)>>, <<Seek(0, 1)>>,
   <<Seek(1, 0)>>}

(* The device is new, or holds commands of another run of the server.       *)
Filled(commands) ==
  FoldLeft(LAMBDA b, line : AddEntry(b, [buffptr |-> line, size |-> Len(line)]),
           InitBuffer, commands)

Empty == {InitBuffer}

SomeHeld ==
  {Filled(<<>>), Filled(<<<<a, a, NL>>>>), Filled(<<<<a, NL>>, <<a, a, NL>>>>)}

Lines == {<<Plain(<<a, NL>>)>>, <<Plain(<<a>>), Plain(<<NL>>)>>}

(* A line, a seek, and a seek whose arguments sscanf cannot read. *)
MixedRequests ==
  {<<Plain(<<a, NL>>)>>, <<Seek(0, 1)>>,
   <<[seek |-> GARBLED, data |-> <<NL>>]>>}

SomeSeekValues == {<<0, 0>>, <<0, 1>>, <<3, 0>>}
=============================================================================
