-------------------------- MODULE MCFindIncidents --------------------------
(* Up to four beliefs of two types, at three places of which two are equally *)
(* far from the third, at NaN or at no place.                               *)
EXTENDS FindIncidents

MCTypes  == {"fire", "smoke"}
MCPlaces == {0, 1, 2}
=============================================================================
