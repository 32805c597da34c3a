------------------------------- MODULE MCPanels -------------------------------
(* Model values for checking Panels: two stops, two routes and a bus.          *)
EXTENDS Panels

CONSTANTS s1, s2, r1, r2, b1

MCSubjects == {s1, s2, r1, r2, b1}
MCTypeOf   == s1 :> "stop" @@ s2 :> "stop" @@ r1 :> "route" @@ r2 :> "route" @@ b1 :> "bus"
MCArriving == s1 :> r1 @@ s2 :> r2
=============================================================================
