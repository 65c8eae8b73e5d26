--------------------------- MODULE MCQuicThreads ---------------------------
(***************************************************************************)
(* Small instances of QuicThreads: the application threads considered      *)
(* together.                                                               *)
(***************************************************************************)
EXTENDS QuicThreads

OneItem == <<"s">>
TwoItems == <<"s", "t">>

Mixed == {{"r1", "p1", "free"}, {"r1", "r2", "h1"}, {"j1", "j2", "free"}}
Polling == {{"p1", "h1"}}
=============================================================================
