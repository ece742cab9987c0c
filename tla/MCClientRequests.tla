---------------------------- MODULE MCClientRequests ----------------------------
(* Bounded instances of ClientRequests.                                    *)
EXTENDS ClientRequests

CONSTANTS r1, r2, r3

ThreeRequests == {r1, r2, r3}
TwoRequests   == {r1, r2}

\* One request is chunked, the others are not.
OneChunked == {r1}
=============================================================================
