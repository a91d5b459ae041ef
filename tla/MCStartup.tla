------------------------------- MODULE MCStartup -------------------------------
(* The start-up of the controller for TLC: the command lines it is given.    *)
EXTENDS Startup

Arg(flag, value) == [flag |-> flag, value |-> value]

KnownProviders == {<<"ingress-nginx">>}

(* Mappings as a values file spells them: with blanks, twice, with a part    *)
(* missing, with a separator too many.                                       *)
Mappings ==
  { Arg("external", <<"web", "=", "infra", "/", "shared">>),
    Arg("external", <<" ", "web", " ", "=", " ", "infra", "/", "other", " ">>),
    Arg("external", <<"api", "=", "infra", "=", "x", "/", "shared">>),
    Arg("external", <<"web", "=", "infra", "/", " ">>),
    Arg("external", <<"web", "=", "infra", "/", "shared", "/", "x">>),
    Arg("external", <<" ">>),
    Arg("managed",  <<"web", "=", "nginx">>),
    Arg("managed",  <<"web", " ", "=", "nginx", "=", "x">>),
    Arg("managed",  <<"api", "=">>),
    Arg("managed",  <<"web">>) }

Settings ==
  { << >>,
    << Arg("mode", <<"ingressclass">>) >>,
    << Arg("mode", <<"class">>) >>,
    << Arg("provider", <<"ingress-nginx">>) >>,
    << Arg("provider", <<"haproxy">>) >>,
    << Arg("version", << >>) >> }

Lines ==
  { s \o m : s \in Settings,
             m \in {<< >>} \cup [1..1 -> Mappings] \cup [1..2 -> Mappings] }
    \cup { << Arg("managed", <<"web", "=", "nginx">>), Arg("managed", <<"web", "=", "envoy">>),
              Arg("managed", <<"web", "=", "nginx">>) >> }

NoEnv == << >>
=============================================================================
