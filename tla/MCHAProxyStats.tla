--------------------------- MODULE MCHAProxyStats ---------------------------
(* A frontend and a backend: haproxy has "ereq" for the one and "econ" for *)
(* the other.  A gauge is the last column that matters, as in its table.   *)
EXTENDS HAProxyStats

Table == <<"ereq", "econ", "ttime", "hanafail">>
Counted == <<"ereq", "econ">>
Empty == {<<1, "econ">>, <<2, "ereq">>}
=============================================================================
