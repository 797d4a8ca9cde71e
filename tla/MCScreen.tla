------------------------------ MODULE MCScreen ------------------------------
(***************************************************************************)
(* Instances of Screen for TLC.  The grid of the program is 80x30 or 80x14;*)
(* 3x2 and 2x1 have every boundary: a first, a middle and a last column, a *)
(* region of one line and of two, a pair that fits and one that does not.  *)
(* `fuel' bounds the number of control functions in a behaviour (MaxOps);  *)
(* rendering is free, so that every short program is seen with a repaint   *)
(* at every possible point.                                                *)
(***************************************************************************)
EXTENDS Screen

CONSTANT MaxOps

VARIABLE fuel

MCInit == Init /\ fuel = MaxOps

Op == PrintChar \/ Move \/ LineEdit \/ CharEdit \/ Page \/ Regrid
      \/ (\E r0 \in Row, c0 \in Col : \E r1 \in r0 .. rows, c1 \in c0 .. cols :
             MarkRegion(r0, c0, r1, c1))

MCNext ==
    \/ fuel > 0 /\ fuel' = fuel - 1 /\ Op
    \/ RenderDirty /\ UNCHANGED fuel

MCSpec == MCInit /\ [][MCNext]_<<vars, fuel>>

MCSizes == {<<3, 2>>, <<2, 1>>}
MCInitialSize == <<3, 2>>
=============================================================================
