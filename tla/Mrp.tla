-------------------------------- MODULE Mrp ---------------------------------
(***************************************************************************)
(* The state machines of the Multiple Registration Protocol, as mrpd runs  *)
(* them for every attribute: daemons/mrpd/mrp.c.  The applicant decides    *)
(* what is sent about an attribute, the registrar remembers whether it is  *)
(* registered, and the LeaveAll machine of an application makes everybody  *)
(* declare everything again.  MMRP, MVRP and MSRP share them.              *)
(***************************************************************************)
EXTENDS Integers

CONSTANT p2pmac      \* operPointToPointMAC, the command line option -p

ASSUME P2pmacAssumption == p2pmac \in BOOLEAN

ApplicantStates == {"VO", "VP", "VN", "AN", "AA", "QA", "LA", "AO", "QO", "AP", "QP", "LO"}
RegistrarStates == {"IN", "LV", "MT"}

LocalEvents == {"NEW", "JOIN", "LV"}
RxEvents    == {"RNEW", "RJOININ", "RIN", "RJOINMT", "RMT", "RLV"}

-----------------------------------------------------------------------------
(* The next state of the applicant, for each kind of event.                *)

OnNew(s) == IF s = "AN" THEN "AN" ELSE "VN"

OnJoin(s) ==
    CASE s \in {"LO", "VO"} -> "VP"
      [] s = "LA" -> "AA"
      [] s = "AO" -> "AP"
      [] s = "QO" -> "QP"
      [] OTHER -> s

OnLeave(s) ==
    CASE s \in {"VN", "AN", "AA", "QA"} -> "LA"
      [] s = "VP" -> "VO"
      [] s = "AP" -> "AO"
      [] s = "QP" -> "QO"
      [] OTHER -> s

(* Mutant: one In is taken for a declaration.                              *)
OnTxLeaveAllQuiet(s) ==
    CASE s \in {"VO", "LA", "AO", "QO"} -> "LO"
      [] s = "VN" -> "AN"
      [] s \in {"VP", "AN", "QP", "AP", "AA"} -> "QA"
      [] OTHER -> s

OnTxLeaveAll(s) ==
    CASE s \in {"VO", "LA", "AO", "QO"} -> "LO"
      [] s = "VP" -> "AA"
      [] s = "VN" -> "AN"
      [] s \in {"AN", "QP", "AP", "AA"} -> "QA"
      [] OTHER -> s

OnTx(s, registrar_is_IN) ==
    CASE s = "VP" -> "AA"
      [] s = "VN" -> "AN"
      [] s = "AN" -> IF registrar_is_IN THEN "QA" ELSE "AA"
      [] s \in {"AP", "AA"} -> "QA"
      [] s \in {"LA", "LO"} -> "VO"
      [] OTHER -> s

OnRxJoinIn(s) ==
    CASE s = "VO" /\ ~p2pmac -> "AO"
      [] s = "VP" /\ ~p2pmac -> "AP"
      [] s = "AA" -> "QA"
      [] s = "AO" -> "QO"
      [] s = "AP" -> "QP"
      [] OTHER -> s

OnRxIn(s) == IF s = "AA" /\ p2pmac THEN "QA" ELSE s

(* JoinEmpty and Empty.                                                    *)
OnRxEmpty(s) ==
    CASE s = "QA" -> "AA"
      [] s = "QO" -> "AO"
      [] s = "QP" -> "AP"
      [] s = "LO" -> "VO"
      [] OTHER -> s

(* Mutants: passive declarations are forgotten; so is a withdrawal.        *)
OnRxLeaveForgets(s) ==
    CASE s \in {"VO", "AO", "QO", "AP", "QP"} -> "LO"
      [] s = "AN" -> "VN"
      [] s \in {"QA", "AA"} -> "VP"
      [] OTHER -> s

OnRxLeaveAbandons(s) ==
    CASE s \in {"VO", "AO", "QO", "LA"} -> "LO"
      [] s = "AN" -> "VN"
      [] s \in {"QA", "AA", "AP", "QP"} -> "VP"
      [] OTHER -> s

(* Leave and LeaveAll.                                                     *)
OnRxLeave(s) ==
    CASE s \in {"VO", "AO", "QO"} -> "LO"
      [] s = "AN" -> "VN"
      [] s \in {"QA", "AA", "AP", "QP"} -> "VP"
      [] OTHER -> s

OnPeriodic(s) ==
    CASE s = "QA" -> "AA"
      [] s = "QP" -> "AP"
      [] OTHER -> s

mrp_applicant_fsm(s, event, registrar_is_IN) ==
    CASE event = "NEW" -> OnNew(s)
      [] event = "JOIN" -> OnJoin(s)
      [] event = "LV" -> OnLeave(s)
      [] event = "TXLA" -> OnTxLeaveAll(s)
      [] event = "TX" -> OnTx(s, registrar_is_IN)
      [] event = "RJOININ" -> OnRxJoinIn(s)
      [] event = "RIN" -> OnRxIn(s)
      [] event \in {"RJOINMT", "RMT"} -> OnRxEmpty(s)
      [] event \in {"RLV", "RLA"} -> OnRxLeave(s)
      [] event = "PERIODIC" -> OnPeriodic(s)
      [] OTHER -> s

(* Mutant: an observer is sent like a member.                              *)
SndmsgOfObserver(s, event) ==
    CASE s \in {"VN", "AN"} -> "NEW"
      [] s \in {"AP", "AA", "QA", "AO", "QO", "VP"} -> "JOIN"
      [] s = "QP" /\ event = "TXLA" -> "JOIN"
      [] s = "LA" /\ event = "TX" -> "LV"
      [] OTHER -> "IN"

(* sndmsg: what the applicant sends when it takes a TX or TXLA in state s. *)
Sndmsg(s, event) ==
    CASE s \in {"VN", "AN"} -> "NEW"
      [] s \in {"AP", "AA", "QA"} -> "JOIN"
      [] s = "QP" /\ event = "TXLA" -> "JOIN"
      [] s = "VP" /\ event = "TX" -> "JOIN"
      [] s = "LA" /\ event = "TX" -> "LV"
      [] OTHER -> "IN"

(* encode = MRP_ENCODE_YES; otherwise it is sent only inside a vector that *)
(* is sent anyhow.                                                         *)
Required(s, event) ==
    IF event = "TX" THEN s \in {"VP", "VN", "AN", "AP", "AA", "LA", "LO"}
                    ELSE s \in {"VP", "VN", "AN", "QP", "AP", "AA", "QA"}

mrp_applicant_state_transition_implies_tx(old, new) ==
    old # new /\ new \in {"VP", "VN", "AN", "AA", "LA"}

-----------------------------------------------------------------------------
(* The registrar: its next state, what the clients are notified of, and    *)
(* whether it starts the leave timer.                                      *)
mrp_registrar_fsm(s, event) ==
    CASE event = "BEGIN" -> "MT"
      [] event \in {"RLV", "TXLA", "RLA"} -> IF s = "IN" THEN "LV" ELSE s
      [] event \in {"RNEW", "RJOININ", "RJOINMT"} -> "IN"
      [] event = "LVTIMER" -> IF s = "LV" THEN "MT" ELSE s
      [] OTHER -> s

(* Mutant: a Join in the LV state is not reported.                         *)
NotifyOnlyFromEmpty(s, event) ==
    CASE event = "RLV" -> "LV"
      [] event = "LVTIMER" /\ s = "LV" -> "LV"
      [] event = "RNEW" -> "NEW"
      [] event \in {"RJOININ", "RJOINMT"} /\ s = "MT" -> "JOIN"
      [] OTHER -> "NONE"

Notify(s, event) ==
    CASE event = "RLV" -> "LV"
      [] event = "LVTIMER" /\ s = "LV" -> "LV"
      [] event = "RNEW" -> "NEW"
      [] event \in {"RJOININ", "RJOINMT"} /\ s # "IN" -> "JOIN"
      [] OTHER -> "NONE"

(* Mutant: LeaveAlls do not start the timer.                               *)
StartsOnLeaveOnly(s, event) == event = "RLV" /\ s = "IN"

StartsLeaveTimer(s, event) == event \in {"RLV", "TXLA", "RLA"} /\ s = "IN"

-----------------------------------------------------------------------------
(* mrp_lvatimer_fsm: the state of the LeaveAll machine and whether it asks *)
(* for a LeaveAll to be sent.  BEGIN, LVATIMER and RLA also (re)start the  *)
(* LeaveAll timer.                                                         *)
mrp_lvatimer_fsm(state, event) ==
    [state |-> IF event = "LVATIMER" THEN "ACTIVE" ELSE "PASSIVE",
     tx    |-> event = "TX" /\ state = "ACTIVE"]

(* The timers.  An unarmed timer is OFF; an armed one counts the ticks to  *)
(* its expiry and stays at 0, ready for select(), until it is set again.   *)
OFF == -1
Running(t) == t # OFF
(* Mutant: a running join timer is started again.                          *)
JoinTimerRestarted(t, time) == time
mrp_jointimer_start(t, time) == IF Running(t) THEN t ELSE time
mrp_lvtimer_start(starts, t, time) == IF starts THEN time ELSE t
=============================================================================
