------------------------------- MODULE MCMvrp -------------------------------
(* Small instances of Mvrp for model checking.                             *)
EXTENDS Mvrp, TLC

About(event, v) == [event |-> event, vid |-> v]

(* A frame with no items, LeaveAlls alone and in front of an event, every  *)
(* event about every VID.                                                  *)
MC_Frames ==
    {<<>>, <<LeaveAll>>, <<LeaveAll, LeaveAll>>}
    \cup {<<About(event, v)>> : event \in RxEvents, v \in Vid}
    \cup {<<LeaveAll, About(event, v)>> : event \in {"RJOININ", "RJOINMT"}, v \in Vid}

MC_LiveFrames ==
    {<<LeaveAll>>} \cup {<<About(event, v)>> : event \in {"RJOININ", "RLV"}, v \in Vid}

(* Peers that only join and leave.                                         *)
MC_Flapping == {<<About(event, v)>> : event \in {"RJOININ", "RLV"}, v \in Vid}
=============================================================================
