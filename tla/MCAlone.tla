------------------------------ MODULE MCAlone ------------------------------
(***************************************************************************)
(* The instances TLC checks of the parts that are checked by themselves:    *)
(* the circular buffer as its unit test uses it, the two examples and the   *)
(* finder application.  They have nothing to do with each other: a          *)
(* behaviour is one of one part, and the others stay as they are at the     *)
(* start, where none of their fair steps is possible.                       *)
(***************************************************************************)
EXTENDS CircularBufferUse, Threading, SystemCalls, FinderApp

CONSTANTS a, b, special  \* characters, the last one special to grep

PlainStrings == {<<a>>, <<b, b>>}

SomeStrings == PlainStrings \union {<<special>>}

VARIABLE part

vars == <<part, useVars, threadVars, callVars, finderVars>>

Init ==
  /\ part \in {"buffer", "threading", "systemcalls", "finder-app"}
  /\ UseInit /\ ThreadingInit /\ CallsInit /\ FinderInit

Next ==
  /\ \/ /\ part = "buffer" /\ UseNext
        /\ UNCHANGED <<threadVars, callVars, finderVars>>
     \/ /\ part = "threading" /\ ThreadingNext
        /\ UNCHANGED <<useVars, callVars, finderVars>>
     \/ /\ part = "systemcalls" /\ CallsNext
        /\ UNCHANGED <<useVars, threadVars, finderVars>>
     \/ /\ part = "finder-app" /\ FinderNext
        /\ UNCHANGED <<useVars, threadVars, callVars>>
  /\ UNCHANGED part

Spec == Init /\ [][Next]_vars /\ ThreadingFairness /\ CallsFairness
=============================================================================
