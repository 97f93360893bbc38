------------------------------ MODULE ServicesMC ------------------------------
(***************************************************************************)
(* A calendar of fourteen short months, so that every clamping happens.    *)
(***************************************************************************)
EXTENDS Services

MCFirstDay == <<0, 9, 14, 22, 29, 38, 44, 53, 61, 66, 75, 82, 91, 100, 109>>
=============================================================================
