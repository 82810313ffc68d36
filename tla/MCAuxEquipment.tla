--------------------------- MODULE MCAuxEquipment ---------------------------
(* AuxEquipment for TLC: one hydraulic drive, one winch. *)
EXTENDS AuxEquipment

MCPresses ==
  { {},
    {<<"vrt", "pos">>},
    {<<"vrt", "pos">>, <<"vrt", "neg">>},
    {<<"vrt", "neg">>, <<"win", "pos">>, ModeButton} }
=============================================================================
