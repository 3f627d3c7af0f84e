--------------------------- MODULE MCInstallScripts ---------------------------
(***************************************************************************)
(* The shipped packages, and every package of up to three scripts.         *)
(***************************************************************************)
EXTENDS InstallScripts

MCArchives ==
  Shipped \cup {Of(k, s) : k \in {"deb", "rpm"}, s \in UNION {[1 .. n -> Actions] : n \in 0 .. 3}}
=============================================================================
