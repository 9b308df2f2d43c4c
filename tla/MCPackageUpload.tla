--------------------------- MODULE MCPackageUpload ---------------------------
(* Model checking of PackageUpload.                                        *)
EXTENDS PackageUpload, TLC
=============================================================================
