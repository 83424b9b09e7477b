---------------------------- MODULE MCAsyncCurl ----------------------------
EXTENDS AsyncCurl, TLC

CONSTANTS r1, r2, r3, h1, h2

\* Two requests share a host, which has no connection while the third has one.
HostsOfThree == r1 :> h1 @@ r2 :> h1 @@ r3 :> h2
=============================================================================
