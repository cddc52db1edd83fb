--------------------------- MODULE MCOfflineFeed ---------------------------
(* Instances of the offline feed for the model checker. *)
EXTENDS OfflineFeedProperties, TLC

\* Runs are interchangeable: nothing compares or orders them.
RunSymmetry == Permutations(Runs)

\* Posts are numbered in the order of publication, the seeds first.
OnePost == {1}
TwoPosts == {1, 2}
ThreePosts == {1, 2, 3}

=============================================================================
