------------------------------ MODULE MCStartup ------------------------------
(***************************************************************************)
(* A rolling release: two replicas of which the newer knows one user more  *)
(* and another profile of the first, and a third with a malformed profile. *)
(***************************************************************************)
EXTENDS Startup, TLC

CONSTANTS api1, api2, api3, alice, bob, first, second, corrected, bad

Releases ==
    (api1 :> (alice :> first))
        @@ (api2 :> (alice :> second @@ bob :> first))
        @@ (api3 :> (alice :> second @@ bob :> bad))

=============================================================================
