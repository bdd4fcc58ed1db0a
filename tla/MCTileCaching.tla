---------------------------- MODULE MCTileCaching ----------------------------
(* Instances of TileCaching for TLC. *)
EXTENDS TileCaching, TLC

CONSTANTS a, b, c, r1, r2, r3

\* One tile at a time, as an image or as JSON.
MCSingleJobs == {j \in Job : j.tiles = {j.index}}
\* A JSON tile, and the others as images.
MCImageOrJson == {j \in MCSingleJobs : j.stream <=> j.index = a}
\* A JSON tile, an image, and two tiles of which one is read as an image.
MCMixedJobs == {[tiles |-> {a}, index |-> a, stream |-> TRUE],
                [tiles |-> {a, b}, index |-> b, stream |-> FALSE]} \cup
               {j \in MCSingleJobs : j.index = c /\ ~j.stream}
MCRequestsAlike == Permutations(Requests)
=============================================================================
