----------------------------- MODULE MCNcQhPbs ------------------------------
(* A recording of three frames, two of them of one second; positions and     *)
(* speeds include the 0 that the code takes for "no request".                *)
EXTENDS NcQhPbs

MCSecondOf == <<1, 1, 2>>

MCValues == [k \in Cmd |-> CASE k = "pos" -> {0, 1, 3}
                             [] k = "speed" -> {0, 2}
                             [] OTHER -> {1}]
=============================================================================
