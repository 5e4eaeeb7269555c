----------------------------- MODULE MCDispatch -----------------------------
(* The instances of Dispatch that TLC checks.                              *)
EXTENDS Dispatch, TLC

CONSTANTS a, b

TwoChans == {a, b}
AllOrNone == {{}, TwoChans}
NoneSync == {{}}
InOrder == (a :> 1) @@ (b :> 2)
SyncOnly == {"sync"}
AsyncOnly == {"async"}
=============================================================================
