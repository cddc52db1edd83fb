---------------------------- MODULE MCImageCache ----------------------------
(* Instances of the image cache for the model checker. *)
EXTENDS ImageCacheProperties

\* One image is twice as large as the others.
Sizes == [k \in Keys |-> IF k = 2 THEN 2 ELSE 1]

=============================================================================
