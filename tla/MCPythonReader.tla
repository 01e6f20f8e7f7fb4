--------------------------- MODULE MCPythonReader ---------------------------
(* Instances of PythonReader: bags of up to four records, some of them equal. *)
(* With SizeModulus = 16, two slices [::4] of one record make a step of 0.    *)
EXTENDS PythonReader

MCBags == {<<>>, <<"a">>, <<"a", "b", "a">>, <<"a", "b", "c", "b">>}
MCBounds == {-5, -2, 0, 1, 3, 6}
MCSteps == {-2, -1, 1, 2, 3, 4}
=============================================================================
