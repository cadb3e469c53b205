------------------------------ MODULE MCRedraw ------------------------------
(* Model checking of what redraws the screen: Window moves what can stay,  *)
(* and ShowMeLoops marks and finds the columns to paint in every row of a  *)
(* few columns.  A behaviour is one or the other, named by part.           *)
EXTENDS Window, ShowMeLoops

VARIABLE part

RedrawInit ==
    /\ part \in {"window", "columns"}
    /\ Init
    /\ IF part = "columns" THEN LoopInit
       ELSE /\ op = "none" /\ b = 0 /\ n = 0 /\ row0 = {} /\ row = {}
            /\ at = "done" /\ col = 0 /\ left = 0 /\ drawn = {}

RedrawVars == <<part, vars, loopVars>>
WindowStep == part = "window" /\ Next /\ UNCHANGED <<part, loopVars>>
ColumnStep == part = "columns" /\ LoopNext /\ UNCHANGED <<part, vars>>
Returned == part = "columns" /\ at = "done" /\ UNCHANGED RedrawVars

RedrawNext == WindowStep \/ ColumnStep \/ Returned

\* The loops run on one thread and nothing preempts them for good.
RedrawSpec == RedrawInit /\ [][RedrawNext]_RedrawVars /\ WF_RedrawVars(ColumnStep)
=============================================================================
