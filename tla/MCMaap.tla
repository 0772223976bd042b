------------------------------- MODULE MCMaap -------------------------------
(* Small instances of Maap for TLC.                                        *)
EXTENDS Maap, TLC

(* The pool is the addresses 10 .. 10+RangeLen-1, our MAC address is 5.    *)
MC_Packets ==
    [type : PktTypes, SA : {3, 7}, start : {10}, count : {1, 3}]
MC_Attempts == {0, 10}
MC_LivePackets == [type : {"PROBE", "ANNOUNCE"}, SA : {3}, start : {10}, count : {1}]
(* A block of two addresses, of which only the second is in the pool.      *)
MC_StraddlingPackets == [type : {"PROBE"}, SA : {3}, start : {9}, count : {2}]
MC_Symmetry == Permutations(Ptr) \cup Permutations(Sender)
=============================================================================
