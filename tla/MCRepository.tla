---------------------------- MODULE MCRepository ----------------------------
(* The local repository on three chunks and two or three restore points.   *)
EXTENDS RepositoryInv, FiniteSetsExt, TLC

CONSTANTS ca, cb, cc

(* Chunk cb is larger than the others together, so losing cb makes a pack  *)
(* mostly dead and losing ca or cc does not.                               *)
MCSize == (ca :> 1) @@ (cb :> 3) @@ (cc :> 1)
MCBytes(S) == MapThenSumSet(LAMBDA x : MCSize[x], S)

MCTrees == {<<ca, cb>>, <<ca, cc>>, <<cb, cc>>}
MCTreesSmall == {<<ca, cb>>, <<ca>>}

(* Packs that no manifest needs are deleted in the end, all of them, by    *)
(* CollectGarbageWith, whatever crashes, half done deletions and failed    *)
(* collections came before, unless new restore points make them live.      *)
DeadPacksReclaimed ==
  (\E k \in idxFile : DeadPack(k)) ~>
    ~(\E k \in idxFile : DeadPack(k))
=============================================================================
