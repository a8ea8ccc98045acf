---------------------------- MODULE MCIndexRefresh ----------------------------
(***************************************************************************)
(* Two processes over two files for TLC: two reads of the index, or one of *)
(* the files.  At first there is a current index or one of an older schema *)
(* (one that is missing is treated like the latter).                       *)
(***************************************************************************)
EXTENDS IndexRefresh, TLC

CONSTANTS p1, p2

MCFiles == <<"casefile.toml", "record.md">>

AtFirst(datum, legacy) ==
  [id |-> 0, legacy |-> legacy, rev |-> [f \in File |-> 1], data |-> [f \in File |-> datum]]

MCIndex0 == {AtFirst(1, FALSE), AtFirst(0, TRUE)}

MCCost == [index |-> 1, files |-> 2]

Symmetry == Permutations(Process)
=============================================================================
