-------------------------- MODULE MCPluginRegistry --------------------------
(* Two plugins that compete for a scheme, and a scheme that none of them     *)
(* has, used by two goroutines with plugins that call back.                  *)
EXTENDS PluginRegistry, TLC

CONSTANTS c1, c2, p1, p2, s1, s2

MCCallers == {c1, c2}
MCPlugins == {p1, p2}
MCSchemes == {s1, s2}
MCSchemeOf == p1 :> s1 @@ p2 :> s1
=============================================================================
