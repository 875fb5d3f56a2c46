--------------------------- MODULE MCWindowsWrite ---------------------------
(***************************************************************************)
(* WindowsWrite has no parameters: the parts of the drive are those that   *)
(* the code tells apart.  Each host, and a drive that loses any one part.  *)
(***************************************************************************)
EXTENDS WindowsWrite
=============================================================================
