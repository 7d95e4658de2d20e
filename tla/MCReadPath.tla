------------------------------ MODULE MCReadPath ------------------------------
(* Instances of ReadPath for TLC.  A text ranks first what shares its value,*)
(* and an exact match before that.                                          *)
EXTENDS ReadPath, MCWritePath

AboutAlpha == {<<team, alpha>>}

AboutBoth == {<<team, alpha>>, <<home, beta>>}
==============================================================================
