------------------------------ MODULE MCNames -------------------------------
(***************************************************************************)
(* The values of Names's constants for TLC: names up to three pieces.      *)
(***************************************************************************)
EXTENDS Names

AllKinds == {"Deployment", "ConfigMap", "Service", "ScraperConfig"}

\* x, x-deployment, x-deployment-deployment, xy and y-service: a suffix only at
\* the end, or not at all.
PlainNames ==
  {<<"x">>, <<"x", "Deployment">>, <<"x", "Deployment", "Deployment">>,
   <<"x", "y">>, <<"y", "Service">>}

\* x and x-service-y.
SuffixInside == {<<"x">>, <<"x", "Service", "y">>}

\* A Deployment named like a configuration, and a ConfigMap like no other.
ForeignObjects ==
  {[kind |-> "Deployment", name |-> <<"x">>], [kind |-> "ConfigMap", name |-> <<"y">>]}

=============================================================================
