------------------------------ MODULE MCAptCache ------------------------------
(***************************************************************************)
(* A bullseye build and a jammy build on one engine: the base image of     *)
(* each, what make does on it, the fpm container (one for both, with the   *)
(* volumes of bullseye), and the packaging of the bullseye build.          *)
(***************************************************************************)
EXTENDS AptCache, TLC

MCExecs    == {"bullseye", "make", "fpm", "package", "jammy"}
MCInstalls == {"bullseye", "fpm", "jammy"}
MCNeeds ==
  [e \in MCExecs |-> CASE e = "make"    -> {"bullseye"}
                       [] e = "package" -> {"make", "fpm"}
                       [] OTHER         -> {}]
MCVolumes == {"bullseye-apt-cache", "bullseye-apt-lib-cache",
              "jammy-apt-cache", "jammy-apt-lib-cache"}
MCCache == [e \in MCExecs |-> IF e = "jammy" THEN "jammy-apt-cache" ELSE "bullseye-apt-cache"]
MCLib == [e \in MCExecs |-> IF e = "jammy" THEN "jammy-apt-lib-cache" ELSE "bullseye-apt-lib-cache"]
=============================================================================
