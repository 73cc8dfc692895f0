---------------------------- MODULE MCDownloader ----------------------------
(* Instances of Downloader for TLC: two endpoints, chunk size 2.          *)
EXTENDS Downloader, TLC

CONSTANTS e1, e2

MCEndpoints == {e1, e2}

\* Both endpoints may fail, corrupt or serve any request.
MCBehaviourFlaky == [e \in MCEndpoints |-> "flaky"]
\* Both endpoints serve the manifest correctly.
MCBehaviourHonest == [e \in MCEndpoints |-> "honest"]
\* Spec scenario 4: one endpoint answers every range request with a 500.
MCBehaviourOneFailing == (e1 :> "honest") @@ (e2 :> "failing")
\* One endpoint advertises the manifest and never answers a range request.
MCBehaviourOneStalling == (e1 :> "honest") @@ (e2 :> "stalling")

\* A 3-byte file (chunks [0,1] and [2,2]) and a 1-byte file: sizes that are
\* not multiples of the chunk size.
MCFileSizesOffBoundary == <<3, 1>>
\* Spec scenario 2: a file of exactly two chunks.
MCFileSizesExact == <<4>>

(* An off-boundary chunk file followed by an exact-multiple one: the     *)
(* spawn loop panics on the second after the first is downloaded.         *)
MCFileSizesMixed == <<3, 4>>
=============================================================================
