---------------------------- MODULE MCCharDriver ----------------------------
(***************************************************************************)
(* The instances of CharDriver that TLC checks.                            *)
(***************************************************************************)
EXTENDS CharDriver

CONSTANT a  \* a byte that is not the newline

(* Nothing; a piece of a command; the end of one; a command, with bytes     *)
(* after its newline or without.                                            *)
AllPayloads == {<<>>, <<a>>, <<a, NL, a>>}
Pieces      == {<<>>, <<a>>, <<NL>>}
Lines       == {<<NL>>, <<a, NL>>}
Mixed       == {<<a>>, <<NL>>, <<a, NL>>}

(* Every whence, in and out of range. *)
SomeSeeks == {<<0, SEEK_SET>>, <<3, SEEK_SET>>, <<-1, SEEK_CUR>>,
              <<1, SEEK_CUR>>, <<-1, SEEK_END>>, <<0, 3>>}
OneSeek   == {<<1, SEEK_SET>>}

(* The commands and offsets around the limits of MAX_OPS = 2. *)
SomeCommands == (0 .. 2) \X (0 .. 2)
OneCommand   == {<<0, 0>>}

Symmetry == Permutations(Threads) \union Permutations(Blocks)
            \union Permutations(Files)
=============================================================================
