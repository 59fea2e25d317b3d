----------------------------- MODULE MCCavForward -----------------------------
(* Instance of CavForward: points that end a plan, that have one zero       *)
(* coordinate, and that are not zero but so small that Scale makes them so. *)
EXTENDS CavForward

MCRawPoints == {<<0, 0>>, <<0, 20>>, <<1, 1>>}

=============================================================================
