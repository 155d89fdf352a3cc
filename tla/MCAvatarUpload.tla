--------------------------- MODULE MCAvatarUpload ---------------------------
(* Values for the constants of AvatarUpload. *)
EXTENDS AvatarUpload

CONSTANTS p1, p2, jpg, png, c1, c2

NoFaults == {}
=============================================================================
