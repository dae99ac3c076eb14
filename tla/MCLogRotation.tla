---------------------------- MODULE MCLogRotation ----------------------------
(* Two files kept. On the first day numbers go to 4, which is written .10  *)
(* in base 4 and so sorts before .2 and .3; the second day has one file    *)
(* and a numbered one.                                                     *)
EXTENDS LogRotation

MCMaxGen == <<4, 1>>
=============================================================================
