--------------------------- MODULE MCClientScreens ---------------------------
(***************************************************************************)
(* Model checking of ClientScreens: two users, the second of whom has a    *)
(* space in the first name, so that the row's text does not lead back to   *)
(* the row.                                                                *)
(***************************************************************************)
EXTENDS ClientScreens

CONSTANTS a, b

MCPeople == {a, b}
MCName == [u \in MCPeople |-> IF u = a THEN <<"Ann", "Lee">> ELSE <<"Mary Jo", "Lee">>]
MCSplit == [u \in MCPeople |-> IF u = a THEN <<"Ann", "Lee">> ELSE <<"Mary", "Jo">>]
=============================================================================
