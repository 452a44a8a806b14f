------------------------ MODULE MCShellRevalidation ------------------------
(* The instances of ShellRevalidation that TLC checks.                     *)
EXTENDS ShellRevalidation
=============================================================================
