---------------------------- MODULE MCSessionLaunch ----------------------------
(* Instances of SessionLaunch for TLC.                                      *)
EXTENDS SessionLaunch, TLC

CONSTANTS a, b, s1, s2

(* Two turns in two sessions                                               *)
Apart == (a :> s1) @@ (b :> s2)
(* Two turns in one session: the next prompt, or a second client           *)
Together == (a :> s1) @@ (b :> s1)

=============================================================================
