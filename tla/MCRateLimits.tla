---------------------------- MODULE MCRateLimits ----------------------------
(***************************************************************************)
(* Three requests of one address: to an open route, with a header that is  *)
(* refused, and reads and writes of a user whose own limits are lower.     *)
(***************************************************************************)
EXTENDS RateLimits, TLC

CONSTANTS address, alice, aliceToken, otherToken, basic

Carrying(header, write) ==
    [address |-> address, header |-> header, protected |-> TRUE, write |-> write]

TestInputs ==
    {[Carrying(None, FALSE) EXCEPT !.protected = FALSE],
     Carrying(otherToken, FALSE), Carrying(basic, TRUE),
     Carrying(aliceToken, FALSE), Carrying(aliceToken, TRUE)}

Tokens == aliceToken :> alice

Limits == ("ip" :> 2) @@ ("user-read" :> 1) @@ ("user-write" :> 1)

RequestSymmetry == Permutations(Requests)

=============================================================================
