------------------------------ MODULE MCBundles ------------------------------
(* Instances of Bundles: one package, and specs that differ in one field or  *)
(* in several; another commit, or a fork, of one of them for every kind of   *)
(* package.                                                                  *)
EXTENDS Bundles

Upstream ==
  [pkg: {"moby-cli"}, distro: {"jammy", "buster", "rhel9", "windows", "unknown"},
   arch: {<<>>, <<"amd64">>, <<"arm64">>, <<"arm", "/", "v7">>, <<"arm", "v7">>},
   repo: {"upstream"}, commit: {"c1"}, tag: {"1.0", "1.1"}, revision: {"1", "2"}]

Others ==
  [pkg: {"moby-cli"}, distro: {"jammy", "rhel9", "windows"}, arch: {<<"amd64">>},
   repo: {"upstream", "fork"}, commit: {"c2"}, tag: {"1.0"}, revision: {"1"}]

MCSpecs == Upstream \cup Others

MCDefaults == {<<"linux", "amd64">>, <<"linux", "arm", "/", "v7">>}
=============================================================================
