--------------------------------- MODULE MCHost ----------------------------------
(***************************************************************************)
(* The programs beside the Store for TLC: two package versions for each    *)
(* set-up, of which the matrices of the second one nest one agent deeper,  *)
(* two model/effort pairs, and two texts.                                  *)
(***************************************************************************)
EXTENDS Host, TLC

MCDepthOf == "1" :> 2 @@ "2" :> 3

MCUserDepth ==
    {None} \cup [type : {"decimal", "padded", "number", "word"}, value : {7}]

MCBounds == {[commands |-> 4, mishaps |-> 1], [commands |-> 2, mishaps |-> 2]}
=============================================================================
