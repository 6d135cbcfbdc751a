------------------------------ MODULE MCMapView ------------------------------
(* Two overviews of a wildfire with a domain layer, and one of a landslide   *)
(* that was reported without coordinates and carries none.                   *)
EXTENDS MapView

CONSTANTS fire, slide, fire1, fire2, slide1, fireline

MCEventOf == [o \in Overview |-> IF o = slide1 THEN slide ELSE fire]
MCLayersOf == [o \in Overview |-> IF o = slide1 THEN {} ELSE {fireline}]
==============================================================================
