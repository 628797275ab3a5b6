---------------------------- MODULE MCZuulStatus ----------------------------
(* Changes 1 and 12, the number of the one beginning that of the other,    *)
(* and 2.                                                                  *)
EXTENDS ZuulStatus

MCChanges == {<<1>>, <<1, 2>>, <<2>>}
=============================================================================
