---------------------------- MODULE MCInstaller -----------------------------
(* Model checking of Installer.                                            *)
EXTENDS Installer, TLC
=============================================================================
