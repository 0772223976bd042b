----------------------------- MODULE MvrpProofs -----------------------------
(***************************************************************************)
(* Proofs about the MVRP participant, for every set of VIDs, every set of  *)
(* frames and all timer values.                                            *)
(***************************************************************************)
EXTENDS Mvrp, SequenceTheorems, TLAPS

-----------------------------------------------------------------------------
(* The applicant.                                                          *)

(* The applicant machine has no state but its twelve.                      *)
LEMMA ApplicantType ==
    ASSUME NEW s \in ApplicantStates, NEW event, NEW in
    PROVE  mrp_applicant_fsm(s, event, in) \in ApplicantStates
<1> USE DEF ApplicantStates
<1>1. /\ OnNew(s) \in ApplicantStates /\ OnJoin(s) \in ApplicantStates
      /\ OnLeave(s) \in ApplicantStates
  BY DEF OnNew, OnJoin, OnLeave
<1>2. OnTxLeaveAll(s) \in ApplicantStates /\ OnTx(s, in) \in ApplicantStates
  BY DEF OnTxLeaveAll, OnTx
<1>3. /\ OnRxJoinIn(s) \in ApplicantStates /\ OnRxIn(s) \in ApplicantStates
      /\ OnRxEmpty(s) \in ApplicantStates
  BY DEF OnRxJoinIn, OnRxIn, OnRxEmpty
<1>4. OnRxLeave(s) \in ApplicantStates /\ OnPeriodic(s) \in ApplicantStates
  BY DEF OnRxLeave, OnPeriodic
<1> HIDE DEF ApplicantStates
<1> QED BY <1>1, <1>2, <1>3, <1>4 DEF mrp_applicant_fsm

OtherEvents == RxEvents \cup {"TX", "TXLA", "RLA", "PERIODIC"}

(* Only a client makes an applicant declare its attribute or stop doing so. *)
LEMMA ApplicantKeepsDeclaration ==
    ASSUME NEW s \in ApplicantStates, NEW event \in OtherEvents, NEW in
    PROVE  mrp_applicant_fsm(s, event, in) \in Declaring <=> s \in Declaring
<1> USE DEF ApplicantStates, Declaring
<1>1. /\ OnTxLeaveAll(s) \in Declaring <=> s \in Declaring
      /\ OnTx(s, in) \in Declaring <=> s \in Declaring
  BY DEF OnTxLeaveAll, OnTx
<1>2. /\ OnRxJoinIn(s) \in Declaring <=> s \in Declaring
      /\ OnRxIn(s) \in Declaring <=> s \in Declaring
      /\ OnRxEmpty(s) \in Declaring <=> s \in Declaring
  BY DEF OnRxJoinIn, OnRxIn, OnRxEmpty
<1>3. /\ OnRxLeave(s) \in Declaring <=> s \in Declaring
      /\ OnPeriodic(s) \in Declaring <=> s \in Declaring
  BY DEF OnRxLeave, OnPeriodic
<1> HIDE DEF ApplicantStates, Declaring
<1> QED BY <1>1, <1>2, <1>3 DEF mrp_applicant_fsm, OtherEvents, RxEvents

(* A client does.                                                          *)
LEMMA ApplicantFollowsClient ==
    ASSUME NEW s \in ApplicantStates, NEW event \in LocalEvents, NEW in
    PROVE  mrp_applicant_fsm(s, event, in) \in Declaring <=> event # "LV"
<1>1. OnNew(s) \in Declaring /\ OnJoin(s) \in Declaring /\ OnLeave(s) \notin Declaring
  BY DEF ApplicantStates, Declaring, OnNew, OnJoin, OnLeave
<1> QED BY <1>1 DEF mrp_applicant_fsm, LocalEvents

(* How an applicant falls quiet, event by event.                           *)
LEMMA ApplicantFallsQuiet ==
    ASSUME NEW s \in ApplicantStates, NEW event \in LocalEvents \cup OtherEvents, NEW in,
           mrp_applicant_fsm(s, event, in) \in Quiet
    PROVE  /\ event \notin {"RJOINMT", "RMT", "RLV", "RLA"}
           /\ s \in Quiet \/ event \in {"RJOININ", "RIN", "TX", "TXLA"}
<1> USE DEF ApplicantStates, Quiet
<1>1. /\ OnNew(s) \in Quiet => s \in Quiet
      /\ OnJoin(s) \in Quiet => s \in Quiet
      /\ OnLeave(s) \in Quiet => s \in Quiet
      /\ OnPeriodic(s) \in Quiet => s \in Quiet
  BY DEF OnNew, OnJoin, OnLeave, OnPeriodic
<1>2. OnRxEmpty(s) \notin Quiet /\ OnRxLeave(s) \notin Quiet
  BY DEF OnRxEmpty, OnRxLeave
<1> HIDE DEF ApplicantStates, Quiet
<1> QED BY <1>1, <1>2 DEF mrp_applicant_fsm, LocalEvents, OtherEvents, RxEvents

(* An applicant that falls quiet by sending has sent a Join or a New.      *)
LEMMA ApplicantSends ==
    ASSUME NEW s \in ApplicantStates, NEW event \in {"TX", "TXLA"}, NEW in
    PROVE  /\ Sndmsg(s, event) \in {"NEW", "JOIN", "LV", "IN"}
           /\ Sndmsg(s, event) \in {"NEW", "JOIN"} => s \in Declaring
           /\ s \in Quiet => Sndmsg(s, event) # "LV"
           /\ mrp_applicant_fsm(s, event, in) \in Quiet /\ (s \notin Quiet \/ event = "TXLA") =>
                  Required(s, event) /\ Sndmsg(s, event) \in {"NEW", "JOIN"}
<1> USE DEF ApplicantStates, Sndmsg, Quiet, Required
<1>1. /\ Sndmsg(s, event) \in {"NEW", "JOIN", "LV", "IN"}
      /\ Sndmsg(s, event) \in {"NEW", "JOIN"} => s \in Declaring
      /\ s \in Quiet => Sndmsg(s, event) # "LV"
  BY DEF Declaring
<1>2. OnTx(s, in) \in Quiet /\ s \notin Quiet =>
          Required(s, "TX") /\ Sndmsg(s, "TX") \in {"NEW", "JOIN"}
  BY DEF OnTx
<1>3. OnTxLeaveAll(s) \in Quiet => Required(s, "TXLA") /\ Sndmsg(s, "TXLA") \in {"NEW", "JOIN"}
  BY DEF OnTxLeaveAll
<1>4. /\ mrp_applicant_fsm(s, "TX", in) = OnTx(s, in)
      /\ mrp_applicant_fsm(s, "TXLA", in) = OnTxLeaveAll(s)
  BY DEF mrp_applicant_fsm
<1> HIDE DEF ApplicantStates, Sndmsg, Quiet, Required
<1> QED BY <1>1, <1>2, <1>3, <1>4

-----------------------------------------------------------------------------
(* The registrar.                                                          *)

RegEvents == RxEvents \cup {"BEGIN", "TXLA", "RLA", "LVTIMER"}

(* The registrar machine has three states, and it enters LV only with the  *)
(* leave timer started.                                                    *)
LEMMA RegistrarFacts ==
    ASSUME NEW s \in RegistrarStates, NEW event \in RegEvents
    PROVE  /\ mrp_registrar_fsm(s, event) \in RegistrarStates
           /\ mrp_registrar_fsm(s, event) = "LV" => s = "LV" \/ StartsLeaveTimer(s, event)
           /\ Notify(s, event) \in {"NEW", "JOIN", "LV", "NONE"}
  BY DEF RegistrarStates, RegEvents, RxEvents, mrp_registrar_fsm, StartsLeaveTimer, Notify

(* What the clients are notified of by the registrar is the state that it  *)
(* enters, and silence means that nothing they know of has changed.        *)
LEMMA RegistrarNotifies ==
    ASSUME NEW s \in RegistrarStates, NEW event \in RegEvents \ {"BEGIN"}
    PROVE  /\ Notify(s, event) \in {"NEW", "JOIN"} => mrp_registrar_fsm(s, event) = "IN"
           /\ Notify(s, event) = "LV" => mrp_registrar_fsm(s, event) # "IN"
           /\ Notify(s, event) = "NONE" =>
                /\ mrp_registrar_fsm(s, event) = "IN" <=> s = "IN" /\ event \notin {"TXLA", "RLA"}
                /\ mrp_registrar_fsm(s, event) \in {"IN", "LV"} <=> s \in {"IN", "LV"}
  BY DEF RegistrarStates, RegEvents, RxEvents, mrp_registrar_fsm, Notify

-----------------------------------------------------------------------------
(* One VID.                                                                *)

Reports == {"NEW", "JOIN", "LV"}

(* The invariants of one VID: its attribute a, the last notification t     *)
(* about it, whether it is declared (d) and heard (h), the leave timer lv. *)
VidOK(a, t, d, h, lv) ==
    /\ a # NULL /\ a.reg = "LV" => lv # OFF
    /\ d <=> a # NULL /\ a.app \in Declaring
    /\ a # NULL /\ a.reg = "IN" => t # "LV"
    /\ t = "JOIN" => a # NULL /\ a.reg \in {"IN", "LV"}
    /\ t = "NEW" => d \/ (a # NULL /\ a.reg \in {"IN", "LV"})
    /\ a # NULL /\ a.app \in Quiet => h

(* The fields of an attribute, and what is not an attribute.               *)
LEMMA AttributeFacts ==
    /\ \A a \in Attribute : a.app \in ApplicantStates /\ a.reg \in RegistrarStates
    /\ \A a \in ApplicantStates, r \in RegistrarStates : [app |-> a, reg |-> r] \in Attribute
    /\ NULL \notin Attribute
    /\ mvrp_alloc \in Attribute
  BY MvrpAssumption DEF Attribute, mvrp_alloc, ApplicantStates, RegistrarStates

(* An attribute that is freed is neither declared nor registered.          *)
LEMMA ReclaimFacts ==
    ASSUME NEW a \in Attribute, Reclaimable(a)
    PROVE  a.app \notin Declaring /\ a.reg = "MT"
  BY DEF Reclaimable, Declaring

(* The registrar event made from an event of a client or a peer.           *)
LEMMA RemapFacts ==
    ASSUME NEW event \in LocalEvents \cup RxEvents, NEW reg
    PROVE  Remap(event, reg) \in RegEvents /\ (event # "NEW" => Remap(event, reg) # "BEGIN")
  BY DEF Remap, LocalEvents, RxEvents, RegEvents

(* mvrp_event keeps the invariants of the VID it is about.                 *)
LEMMA EventKeepsVid ==
    ASSUME NEW old \in Attribute \cup {NULL}, NEW t \in Reports,
           NEW d \in BOOLEAN, NEW h \in BOOLEAN, NEW lv \in Nat \cup {OFF},
           NEW event \in LocalEvents \cup RxEvents,
           VidOK(old, t, d, h, lv)
    PROVE  LET a   == Lookup(old)
               new == Applied(a, event)
               t2  == IF Reclaimable(new) THEN "LV" ELSE Told(t, NotifyOf(a, event))
               d2  == IF event \in LocalEvents THEN event # "LV" ELSE d
               h2  == IF event \in RxEvents THEN Hearing(h, event) ELSE h
               lv2 == mrp_lvtimer_start(StartsLeaveTimer(a.reg, Remap(event, a.reg)), lv, LeaveTime)
           IN  /\ new \in Attribute
               /\ t2 \in Reports
               /\ lv2 \in Nat \cup {OFF}
               /\ lv # OFF => lv2 # OFF
               /\ VidOK(mvrp_conditional_reclaim(new), t2, d2, h2, lv2)
<1> DEFINE a   == Lookup(old)
           new == Applied(a, event)
           t2  == IF Reclaimable(new) THEN "LV" ELSE Told(t, NotifyOf(a, event))
           d2  == IF event \in LocalEvents THEN event # "LV" ELSE d
           h2  == IF event \in RxEvents THEN Hearing(h, event) ELSE h
           ev  == Remap(event, a.reg)
           lv2 == mrp_lvtimer_start(StartsLeaveTimer(a.reg, ev), lv, LeaveTime)
           in  == (a.reg = "IN")
<1> HIDE DEF a, new, t2, d2, h2, ev, lv2, in
<1>1. a \in Attribute /\ a.app \in ApplicantStates /\ a.reg \in RegistrarStates
  BY AttributeFacts DEF a, Lookup
<1>2. ev \in RegEvents /\ (event # "NEW" => ev # "BEGIN")
  BY RemapFacts DEF ev
<1>3. new = [app |-> mrp_applicant_fsm(a.app, event, in), reg |-> mrp_registrar_fsm(a.reg, ev)]
  BY DEF new, Applied, ev, in
<1>4. /\ new.app = mrp_applicant_fsm(a.app, event, in)
      /\ new.reg = mrp_registrar_fsm(a.reg, ev)
  BY <1>3
<1>5. new \in Attribute
  BY <1>1, <1>2, <1>3, ApplicantType, RegistrarFacts, AttributeFacts
<1>6. lv2 \in Nat \cup {OFF} /\ (lv # OFF => lv2 # OFF)
      /\ (StartsLeaveTimer(a.reg, ev) => lv2 # OFF)
  BY MvrpAssumption DEF lv2, mrp_lvtimer_start, OFF
<1>7. /\ a.app \in Declaring <=> d
      /\ a.reg = "LV" => lv # OFF
      /\ a.reg = "IN" => t # "LV"
      /\ t = "JOIN" => a.reg \in {"IN", "LV"}
      /\ t = "NEW" => d \/ a.reg \in {"IN", "LV"}
      /\ a.app \in Quiet => h
  BY AttributeFacts DEF a, Lookup, VidOK, mvrp_alloc, Declaring, Quiet
<1>8. new.app \in Declaring <=> d2
  BY <1>1, <1>4, <1>7, ApplicantFollowsClient, ApplicantKeepsDeclaration
     DEF d2, OtherEvents, LocalEvents, RxEvents
<1>9. new.app \in Quiet => h2
  <2>1. ASSUME new.app \in Quiet
        PROVE  /\ event \notin {"RJOINMT", "RMT", "RLV"}
               /\ h \/ event \in {"RJOININ", "RIN"}
    BY <2>1, <1>1, <1>4, <1>7, ApplicantFallsQuiet DEF OtherEvents, LocalEvents, RxEvents
  <2> QED BY <2>1 DEF h2, Hearing, RxEvents, LocalEvents
<1>10. new.reg = "LV" => lv2 # OFF
  BY <1>1, <1>2, <1>4, <1>6, <1>7, RegistrarFacts
<1>11. ~Reclaimable(new) => t2 = Told(t, NotifyOf(a, event))
  BY DEF t2
<1>12. t2 \in Reports
  BY <1>1, <1>2, RegistrarFacts DEF t2, Told, NotifyOf, Reports, ev
<1>13. ASSUME ~Reclaimable(new)
       PROVE  /\ new.reg = "IN" => t2 # "LV"
              /\ t2 = "JOIN" => new.reg \in {"IN", "LV"}
              /\ t2 = "NEW" => d2 \/ new.reg \in {"IN", "LV"}
  <2>1. CASE event = "NEW"
    BY <1>11, <1>13, <2>1 DEF Told, NotifyOf, d2, LocalEvents
  <2>2. CASE event # "NEW"
    <3>1. t2 = IF Notify(a.reg, ev) = "NONE" THEN t ELSE Notify(a.reg, ev)
      BY <1>11, <1>13, <2>2 DEF Told, NotifyOf, ev
    <3>2. event \in LocalEvents => ev \in {"RJOININ", "RJOINMT", "RLV"}
      BY <2>2 DEF ev, Remap, LocalEvents
    <3>3. ev \notin {"TXLA", "RLA"}
      BY DEF ev, Remap, LocalEvents, RxEvents
    <3>4. /\ Notify(a.reg, ev) \in {"NEW", "JOIN"} => new.reg = "IN"
          /\ Notify(a.reg, ev) = "LV" => new.reg # "IN"
          /\ Notify(a.reg, ev) = "NONE" =>
               /\ new.reg = "IN" <=> a.reg = "IN"
               /\ new.reg \in {"IN", "LV"} <=> a.reg \in {"IN", "LV"}
      BY <1>1, <1>2, <1>4, <2>2, <3>3, RegistrarNotifies
    <3>5. Notify(a.reg, ev) \in {"NEW", "JOIN", "LV", "NONE"}
      BY <1>1, <1>2, RegistrarFacts
    <3>6. event = "LV" => Notify(a.reg, ev) = "LV"
      BY DEF ev, Remap, Notify
    <3>7. d /\ event # "LV" => d2
      BY DEF d2
    <3> QED BY <1>7, <3>1, <3>4, <3>5, <3>6, <3>7
  <2> QED BY <2>1, <2>2
<1>14. VidOK(mvrp_conditional_reclaim(new), t2, d2, h2, lv2)
  <2>1. CASE Reclaimable(new)
    <3>1. mvrp_conditional_reclaim(new) = NULL /\ t2 = "LV"
      BY <2>1 DEF mvrp_conditional_reclaim, t2
    <3>2. ~d2
      BY <1>5, <1>8, <2>1, ReclaimFacts
    <3> QED BY <3>1, <3>2 DEF VidOK
  <2>2. CASE ~Reclaimable(new)
    <3>1. mvrp_conditional_reclaim(new) = new /\ new # NULL
      BY <1>5, <2>2, AttributeFacts DEF mvrp_conditional_reclaim
    <3> QED BY <1>8, <1>9, <1>10, <1>13, <2>2, <3>1 DEF VidOK
  <2> QED BY <2>1, <2>2
<1> QED BY <1>5, <1>6, <1>12, <1>14 DEF a, new, t2, d2, h2, lv2, ev

-----------------------------------------------------------------------------
(* The invariant, for all VIDs.                                            *)

VidsOK == \A v \in Vid : VidOK(attrib[v], told[v], declared[v], heard[v], lv_timer)

Inv == TypeOK /\ VidsOK /\ OnlyDeclaredIsSent

(* VidsOK says what the invariants of Mvrp say.                            *)
LEMMA InvMeaning ==
    Inv => LeavingIsTimed /\ DeclarationKept /\ ClientsAreRight /\ QuietIsHeard
<1> SUFFICES ASSUME Inv
             PROVE  LeavingIsTimed /\ DeclarationKept /\ ClientsAreRight /\ QuietIsHeard
  OBVIOUS
<1>1. ASSUME NEW v \in Vid
      PROVE  /\ attrib[v] \in Attribute \cup {NULL}
             /\ VidOK(attrib[v], told[v], declared[v], heard[v], lv_timer)
  BY DEF Inv, TypeOK, VidsOK
<1>2. ASSUME NEW v \in Vid
      PROVE  v \in Known <=> attrib[v] # NULL
  BY DEF Known
<1>3. ASSUME NEW v \in Vid, v \in Known
      PROVE  attrib[v].app \in ApplicantStates /\ attrib[v].reg \in RegistrarStates
  BY <1>1, <1>2, <1>3, AttributeFacts
<1>4. LeavingIsTimed
  BY <1>1, <1>2 DEF LeavingIsTimed, Is, VidOK
<1>5. DeclarationKept
  BY <1>1, <1>2, <1>3 DEF DeclarationKept, Is, VidOK
<1>6. ClientsAreRight
  BY <1>1, <1>2, <1>3 DEF ClientsAreRight, Is, VidOK
<1>7. QuietIsHeard
  BY <1>1, <1>2 DEF QuietIsHeard, Is, VidOK
<1> QED BY <1>4, <1>5, <1>6, <1>7

(* A timer that is started, or goes on, is a timer.                        *)
LEMMA TimerFacts ==
    /\ OFF \notin Nat
    /\ \A t \in Nat \cup {OFF} : /\ Count(t) \in Nat \cup {OFF}
                                 /\ t # OFF => Count(t) \in Nat /\ Count(t) # OFF
                                 /\ mrp_jointimer_start(t, JoinTime) \in Nat \cup {OFF}
  BY MvrpAssumption DEF OFF, Count, mrp_jointimer_start, Running

(* The invariant holds at the start.                                       *)
LEMMA InitInv == Init => Inv
<1> SUFFICES ASSUME Init PROVE Inv
  OBVIOUS
<1>1. TypeOK
  <2>1. /\ attrib \in [Vid -> Attribute \cup {NULL}]
        /\ told \in [Vid -> {"NEW", "JOIN", "LV"}]
        /\ declared \in [Vid -> BOOLEAN] /\ heard \in [Vid -> BOOLEAN]
    BY DEF Init
  <2>2. /\ join_timer \in Nat \cup {OFF} /\ lv_timer \in Nat \cup {OFF}
        /\ lva_timer \in Nat /\ periodic_timer \in Nat /\ gc_timer \in Nat
    BY MvrpAssumption DEF Init
  <2>3. sel \subseteq DOMAIN Order /\ saw_vlan_lva \in BOOLEAN /\ pdu \in Pdu \cup {NULL}
    BY DEF Init
  <2>4. rx \in Seq(Item)
    BY DEF Init
  <2> QED BY <2>1, <2>2, <2>3, <2>4 DEF TypeOK
<1>2. VidsOK
  BY DEF Init, VidsOK, VidOK
<1>3. OnlyDeclaredIsSent
  BY DEF Init, OnlyDeclaredIsSent
<1> QED BY <1>1, <1>2, <1>3 DEF Inv

-----------------------------------------------------------------------------
(* The steps that leave the attributes alone.                              *)

(* A step that sends nothing and changes no VID keeps the invariant if it  *)
(* keeps the types of the rest and does not stop the leave timer.          *)
LEMMA QuietStep ==
    ASSUME Inv, TypeOK', pdu' = NULL, UNCHANGED <<attrib, told, declared, heard>>,
           lv_timer # OFF => lv_timer' # OFF
    PROVE  Inv'
<1>1. VidsOK'
  BY DEF Inv, VidsOK, VidOK
<1>2. OnlyDeclaredIsSent'
  BY DEF OnlyDeclaredIsSent
<1> QED BY <1>1, <1>2 DEF Inv

(* Time may pass.                                                          *)
LEMMA TickStep == ASSUME Inv, Tick PROVE Inv'
<1>1. TypeOK'
  <2>1. /\ join_timer' \in Nat \cup {OFF} /\ lv_timer' \in Nat \cup {OFF}
        /\ lva_timer' \in Nat /\ periodic_timer' \in Nat /\ gc_timer' \in Nat
    BY TimerFacts DEF Inv, TypeOK, Tick
  <2> QED BY <2>1 DEF Inv, TypeOK, Tick, frame
<1>2. lv_timer # OFF => lv_timer' # OFF
  BY TimerFacts DEF Inv, TypeOK, Tick
<1> QED BY <1>1, <1>2, QuietStep DEF Tick

(* The next item of a frame is a LeaveAll or an event about a VID.         *)
LEMMA FrameFacts ==
    ASSUME rx \in Seq(Item), rx # <<>>
    PROVE  /\ Tail(rx) \in Seq(Item)
           /\ Head(rx) # LeaveAll => Head(rx).event \in RxEvents /\ Head(rx).vid \in Vid
<1>1. Tail(rx) \in Seq(Item) /\ Head(rx) \in Item
  BY HeadTailProperties
<1> QED BY <1>1 DEF Item

(* select(), a command that changes nothing, the start of a frame and a    *)
(* repeated LeaveAll keep the invariant.                                   *)
LEMMA ControlSteps ==
    ASSUME Inv, \/ Select \/ OtherCommand \/ SkipLeaveAll
                \/ \E f \in Frames : mvrp_recv_msg(f)
    PROVE  Inv'
<1>1. UNCHANGED <<attrib, timers, told, declared, heard>> /\ pdu' = NULL
  BY DEF Select, OtherCommand, SkipLeaveAll, mvrp_recv_msg
<1>2. sel' \subseteq DOMAIN Order
  <2>1. CASE Select
    <3>1. {"ctl", "net"} \subseteq DOMAIN Order
      BY DEF Order
    <3> QED BY <2>1, <3>1 DEF Select
  <2>2. CASE ~Select
    BY <2>2 DEF Inv, TypeOK, OtherCommand, SkipLeaveAll, mvrp_recv_msg, Turn
  <2> QED BY <2>1, <2>2
<1>3. rx' \in Seq(Item) /\ saw_vlan_lva' \in BOOLEAN
  <2>1. CASE Select \/ OtherCommand
    BY <2>1 DEF Inv, TypeOK, Select, OtherCommand, frame
  <2>2. CASE SkipLeaveAll
    <3>1. rx \in Seq(Item) /\ saw_vlan_lva \in BOOLEAN
      BY DEF Inv, TypeOK
    <3>2. rx # <<>> /\ rx' = Tail(rx) /\ UNCHANGED saw_vlan_lva
      BY <2>2 DEF SkipLeaveAll
    <3> QED BY <3>1, <3>2, FrameFacts
  <2>3. CASE \E f \in Frames : mvrp_recv_msg(f)
    <3>1. Frames \subseteq Seq(Item)
      BY MvrpAssumption
    <3>2. rx' \in Frames /\ saw_vlan_lva' = FALSE
      BY <2>3 DEF mvrp_recv_msg
    <3> QED BY <3>1, <3>2
  <2> QED BY <2>1, <2>2, <2>3
<1>4. TypeOK'
  BY <1>1, <1>2, <1>3 DEF Inv, TypeOK, timers
<1> QED BY <1>1, <1>4, QuietStep DEF timers

-----------------------------------------------------------------------------
(* The steps that apply an event to one VID.                               *)

(* The types of what is kept about one VID.                                *)
LEMMA VidTypes ==
    ASSUME Inv, NEW v \in Vid
    PROVE  /\ attrib[v] \in Attribute \cup {NULL} /\ told[v] \in Reports
           /\ declared[v] \in BOOLEAN /\ heard[v] \in BOOLEAN
           /\ lv_timer \in Nat \cup {OFF}
           /\ VidOK(attrib[v], told[v], declared[v], heard[v], lv_timer)
  BY DEF Inv, TypeOK, VidsOK, Reports

(* mvrp_event keeps the invariants of every VID.                           *)
LEMMA EventStep ==
    ASSUME Inv, NEW v \in Vid, NEW event \in LocalEvents \cup RxEvents, mvrp_event(event, v),
           declared' = IF event \in LocalEvents THEN [declared EXCEPT ![v] = event # "LV"]
                                                ELSE declared,
           heard' = IF event \in RxEvents THEN [heard EXCEPT ![v] = Hearing(@, event)]
                                          ELSE heard
    PROVE  /\ attrib' \in [Vid -> Attribute \cup {NULL}]
           /\ told' \in [Vid -> {"NEW", "JOIN", "LV"}]
           /\ declared' \in [Vid -> BOOLEAN] /\ heard' \in [Vid -> BOOLEAN]
           /\ join_timer' \in Nat \cup {OFF} /\ lv_timer' \in Nat \cup {OFF}
           /\ VidsOK'
<1> DEFINE d2 == IF event \in LocalEvents THEN event # "LV" ELSE declared[v]
           h2 == IF event \in RxEvents THEN Hearing(heard[v], event) ELSE heard[v]
<1>1. /\ attrib \in [Vid -> Attribute \cup {NULL}] /\ told \in [Vid -> Reports]
      /\ declared \in [Vid -> BOOLEAN] /\ heard \in [Vid -> BOOLEAN]
  BY DEF Inv, TypeOK, Reports
<1>2. /\ declared' \in [Vid -> BOOLEAN] /\ declared'[v] = d2
      /\ \A u \in Vid : u # v => declared'[u] = declared[u]
  BY <1>1
<1>3. h2 \in BOOLEAN
  BY <1>1 DEF Hearing
<1>4. /\ heard' \in [Vid -> BOOLEAN] /\ heard'[v] = h2
      /\ \A u \in Vid : u # v => heard'[u] = heard[u]
  BY <1>1, <1>3
<1>5. join_timer' \in Nat \cup {OFF}
  BY TimerFacts DEF Inv, TypeOK, mvrp_event
<1>6. /\ attrib' \in [Vid -> Attribute \cup {NULL}]
      /\ told' \in [Vid -> Reports]
      /\ lv_timer' \in Nat \cup {OFF}
      /\ lv_timer # OFF => lv_timer' # OFF
      /\ \A u \in Vid : u # v => attrib'[u] = attrib[u] /\ told'[u] = told[u]
      /\ VidOK(attrib'[v], told'[v], d2, h2, lv_timer')
  <2>1. CASE Ignored(attrib[v], event)
    <3>1. UNCHANGED <<attrib, told, lv_timer>>
      BY <2>1 DEF mvrp_event
    <3>2. d2 = declared[v] /\ attrib[v] = NULL
      BY <2>1 DEF Ignored, LocalEvents
    <3>3. VidOK(attrib[v], told[v], d2, h2, lv_timer)
      BY <3>2, VidTypes DEF VidOK
    <3> HIDE DEF d2, h2
    <3> QED BY <1>1, <3>1, <3>3, VidTypes
  <2>2. CASE ~Ignored(attrib[v], event)
    <3> DEFINE a   == Lookup(attrib[v])
               new == Applied(a, event)
               t2  == IF Reclaimable(new) THEN "LV" ELSE Told(told[v], NotifyOf(a, event))
               lv2 == mrp_lvtimer_start(StartsLeaveTimer(a.reg, Remap(event, a.reg)),
                                        lv_timer, LeaveTime)
    <3>1. /\ attrib' = [attrib EXCEPT ![v] = mvrp_conditional_reclaim(new)]
          /\ told' = [told EXCEPT ![v] = t2]
          /\ lv_timer' = lv2
      BY <2>2 DEF mvrp_event
    <3>2. /\ new \in Attribute /\ t2 \in Reports /\ lv2 \in Nat \cup {OFF}
          /\ lv_timer # OFF => lv2 # OFF
          /\ VidOK(mvrp_conditional_reclaim(new), t2, d2, h2, lv2)
      <4>1. /\ attrib[v] \in Attribute \cup {NULL} /\ told[v] \in Reports
            /\ declared[v] \in BOOLEAN /\ heard[v] \in BOOLEAN
            /\ lv_timer \in Nat \cup {OFF}
            /\ VidOK(attrib[v], told[v], declared[v], heard[v], lv_timer)
        BY VidTypes
      <4> QED BY <4>1, EventKeepsVid
    <3> HIDE DEF new, t2, lv2, d2, h2
    <3>3. mvrp_conditional_reclaim(new) \in Attribute \cup {NULL}
      BY <3>2 DEF mvrp_conditional_reclaim
    <3> QED BY <1>1, <3>1, <3>2, <3>3
  <2> QED BY <2>1, <2>2
<1>7. VidsOK'
  <2> SUFFICES ASSUME NEW u \in Vid
               PROVE  VidOK(attrib'[u], told'[u], declared'[u], heard'[u], lv_timer')
    BY DEF VidsOK
  <2> HIDE DEF d2, h2
  <2>1. CASE u = v
    BY <1>2, <1>4, <1>6, <2>1
  <2>2. CASE u # v
    <3>1. VidOK(attrib[u], told[u], declared[u], heard[u], lv_timer)
      BY VidTypes
    <3>2. VidOK(attrib[u], told[u], declared[u], heard[u], lv_timer')
      BY <1>6, <3>1 DEF VidOK
    <3> QED BY <1>2, <1>4, <1>6, <2>2, <3>2
  <2> QED BY <2>1, <2>2
<1> QED BY <1>2, <1>4, <1>5, <1>6, <1>7 DEF Reports

(* A step that sends nothing keeps the invariant if it keeps the types and *)
(* what is kept about the VIDs.                                            *)
LEMMA SilentStep ==
    ASSUME TypeOK', VidsOK', pdu' = NULL
    PROVE  Inv'
  BY DEF Inv, OnlyDeclaredIsSent

(* A command of a client keeps the invariant.                              *)
LEMMA CommandStep ==
    ASSUME Inv, NEW v \in Vid, NEW event \in LocalEvents, Command(v, event)
    PROVE  Inv'
<1>1. event \notin RxEvents
  BY DEF LocalEvents, RxEvents
<1>2. /\ mvrp_event(event, v)
      /\ declared' = IF event \in LocalEvents THEN [declared EXCEPT ![v] = event # "LV"]
                                              ELSE declared
      /\ heard' = IF event \in RxEvents THEN [heard EXCEPT ![v] = Hearing(@, event)]
                                        ELSE heard
      /\ UNCHANGED <<lva_timer, periodic_timer, gc_timer, rx, saw_vlan_lva>>
      /\ sel' \subseteq sel
  BY <1>1 DEF Command, frame, Turn
<1>3. /\ attrib' \in [Vid -> Attribute \cup {NULL}]
      /\ told' \in [Vid -> {"NEW", "JOIN", "LV"}]
      /\ declared' \in [Vid -> BOOLEAN] /\ heard' \in [Vid -> BOOLEAN]
      /\ join_timer' \in Nat \cup {OFF} /\ lv_timer' \in Nat \cup {OFF}
      /\ VidsOK'
  BY <1>2, EventStep
<1>4. pdu' = NULL
  BY <1>2 DEF mvrp_event
<1>5. TypeOK'
  BY <1>2, <1>3, <1>4 DEF Inv, TypeOK
<1> QED BY <1>3, <1>4, <1>5, SilentStep

(* An event about a VID in a frame keeps the invariant.                    *)
LEMMA ReceiveEventStep == ASSUME Inv, ReceiveEvent PROVE Inv'
<1> DEFINE event == Head(rx).event
           v     == Head(rx).vid
<1>1. /\ rx \in Seq(Item) /\ rx # <<>> /\ Head(rx) # LeaveAll
      /\ rx' = Tail(rx)
  BY DEF Inv, TypeOK, ReceiveEvent
<1>2. event \in RxEvents /\ v \in Vid /\ rx' \in Seq(Item)
  BY <1>1, FrameFacts
<1>3. event \notin LocalEvents
  BY <1>2 DEF LocalEvents, RxEvents
<1>4. /\ mvrp_event(event, v)
      /\ heard' = [heard EXCEPT ![v] = Hearing(@, event)]
      /\ UNCHANGED <<lva_timer, periodic_timer, gc_timer, sel, saw_vlan_lva, declared>>
  BY DEF ReceiveEvent
<1> HIDE DEF event, v
<1>5. /\ attrib' \in [Vid -> Attribute \cup {NULL}]
      /\ told' \in [Vid -> {"NEW", "JOIN", "LV"}]
      /\ declared' \in [Vid -> BOOLEAN] /\ heard' \in [Vid -> BOOLEAN]
      /\ join_timer' \in Nat \cup {OFF} /\ lv_timer' \in Nat \cup {OFF}
      /\ VidsOK'
  BY <1>2, <1>3, <1>4, EventStep
<1>6. pdu' = NULL
  BY <1>4 DEF mvrp_event
<1>7. TypeOK'
  BY <1>2, <1>4, <1>5, <1>6 DEF Inv, TypeOK
<1> QED BY <1>5, <1>6, <1>7, SilentStep

-----------------------------------------------------------------------------
(* The steps that change every attribute: first one VID.                   *)

(* A LeaveAll, received or sent, keeps the invariants of a VID, given that *)
(* the leave timer runs if the registrar starts to leave, and that a quiet *)
(* applicant has been heard.                                               *)
LEMMA LeaveAllKeepsVid ==
    ASSUME NEW a \in Attribute, NEW t \in Reports, NEW d \in BOOLEAN, NEW h \in BOOLEAN, NEW lv,
           NEW event \in {"RLA", "TXLA"}, NEW h2 \in BOOLEAN, NEW lv2,
           VidOK(a, t, d, h, lv),
           lv # OFF \/ StartsLeaveTimer(a.reg, event) => lv2 # OFF,
           mrp_applicant_fsm(a.app, event, a.reg = "IN") \in Quiet => h2
    PROVE  /\ Applied(a, event) \in Attribute
           /\ VidOK(Applied(a, event), t, d, h2, lv2)
<1> DEFINE new == Applied(a, event)
<1>1. a.app \in ApplicantStates /\ a.reg \in RegistrarStates /\ a # NULL
  BY AttributeFacts
<1>2. Remap(event, a.reg) = event
  BY DEF Remap
<1>3. /\ new = [app |-> mrp_applicant_fsm(a.app, event, a.reg = "IN"),
                reg |-> mrp_registrar_fsm(a.reg, event)]
  BY <1>2 DEF Applied
<1>4. /\ new.app = mrp_applicant_fsm(a.app, event, a.reg = "IN")
      /\ new.reg = mrp_registrar_fsm(a.reg, event)
  BY <1>3
<1> HIDE DEF new
<1>5. event \in RegEvents /\ event \in OtherEvents
  BY DEF RegEvents, OtherEvents
<1>6. new \in Attribute
  BY <1>1, <1>3, <1>5, ApplicantType, RegistrarFacts, AttributeFacts
<1>7. new.app \in Declaring <=> a.app \in Declaring
  BY <1>1, <1>4, <1>5, ApplicantKeepsDeclaration
<1>8. /\ new.reg # "IN"
      /\ new.reg = "LV" => a.reg = "LV" \/ StartsLeaveTimer(a.reg, event)
      /\ a.reg \in {"IN", "LV"} => new.reg \in {"IN", "LV"}
  BY <1>1, <1>4 DEF RegistrarStates, mrp_registrar_fsm, StartsLeaveTimer
<1>9. new # NULL
  BY <1>6, AttributeFacts
<1>10. VidOK(new, t, d, h2, lv2)
  BY <1>1, <1>4, <1>7, <1>8, <1>9 DEF VidOK
<1> QED BY <1>6, <1>10 DEF new

(* So does a step of the applicant alone to a state s.                     *)
LEMMA ApplicantKeepsVid ==
    ASSUME NEW a \in Attribute, NEW t \in Reports, NEW d \in BOOLEAN, NEW h \in BOOLEAN, NEW lv,
           NEW s \in ApplicantStates, NEW h2 \in BOOLEAN,
           VidOK(a, t, d, h, lv),
           s \in Declaring <=> a.app \in Declaring,
           s \in Quiet => h2
    PROVE  /\ [a EXCEPT !.app = s] \in Attribute
           /\ VidOK([a EXCEPT !.app = s], t, d, h2, lv)
<1> DEFINE new == [a EXCEPT !.app = s]
<1>1. new \in Attribute /\ new.app = s /\ new.reg = a.reg
  BY DEF Attribute
<1> HIDE DEF new
<1>2. new # NULL /\ a # NULL
  BY <1>1, AttributeFacts
<1>3. VidOK(new, t, d, h2, lv)
  BY <1>1, <1>2 DEF VidOK
<1> QED BY <1>1, <1>3 DEF new

(* The end of the leave time stops the leave timer, and no registrar is    *)
(* leaving then.                                                           *)
LEMMA LvTimerKeepsVid ==
    ASSUME NEW a \in Attribute, NEW t \in Reports, NEW d \in BOOLEAN, NEW h \in BOOLEAN, NEW lv,
           VidOK(a, t, d, h, lv)
    PROVE  LET new == [a EXCEPT !.reg = mrp_registrar_fsm(a.reg, "LVTIMER")]
               t2  == IF Reclaimable(new) THEN "LV" ELSE Told(t, Notify(a.reg, "LVTIMER"))
           IN  new \in Attribute /\ t2 \in Reports
               /\ VidOK(mvrp_conditional_reclaim(new), t2, d, h, OFF)
<1> DEFINE r   == mrp_registrar_fsm(a.reg, "LVTIMER")
           n   == Notify(a.reg, "LVTIMER")
           new == [a EXCEPT !.reg = r]
           t2  == IF Reclaimable(new) THEN "LV" ELSE Told(t, n)
<1>1. a.app \in ApplicantStates /\ a.reg \in RegistrarStates /\ a # NULL
  BY AttributeFacts
<1>2. /\ r \in RegistrarStates /\ r # "LV"
      /\ r = "IN" <=> a.reg = "IN"
      /\ a.reg # "LV" => r = a.reg
      /\ n = IF a.reg = "LV" THEN "LV" ELSE "NONE"
  BY <1>1 DEF RegistrarStates, mrp_registrar_fsm, Notify
<1> HIDE DEF r, n
<1>3. new \in Attribute /\ new.reg = r /\ new.app = a.app
  BY <1>2 DEF Attribute
<1> HIDE DEF new
<1>4. t2 \in Reports
  BY <1>2 DEF Told, Reports
<1>5. VidOK(mvrp_conditional_reclaim(new), t2, d, h, OFF)
  <2>1. CASE Reclaimable(new)
    <3>1. mvrp_conditional_reclaim(new) = NULL /\ t2 = "LV"
      BY <2>1 DEF mvrp_conditional_reclaim
    <3>2. a.app \notin Declaring
      BY <1>3, <2>1, ReclaimFacts
    <3>3. ~d
      BY <1>1, <3>2 DEF VidOK
    <3> QED BY <3>1, <3>3 DEF VidOK
  <2>2. CASE ~Reclaimable(new)
    <3>1. mvrp_conditional_reclaim(new) = new /\ new # NULL
      BY <1>3, <2>2, AttributeFacts DEF mvrp_conditional_reclaim
    <3>2. t2 = IF a.reg = "LV" THEN "LV" ELSE t
      BY <1>2, <2>2 DEF Told
    <3> QED BY <1>1, <1>2, <1>3, <3>1, <3>2 DEF VidOK, RegistrarStates
  <2> QED BY <2>1, <2>2
<1> QED BY <1>3, <1>4, <1>5 DEF new, r, n

(* The garbage collector frees only what is neither declared nor           *)
(* registered.                                                             *)
LEMMA ReclaimKeepsVid ==
    ASSUME NEW a \in Attribute, NEW t \in Reports, NEW d \in BOOLEAN, NEW h \in BOOLEAN, NEW lv,
           VidOK(a, t, d, h, lv)
    PROVE  VidOK(mvrp_conditional_reclaim(a), IF Reclaimable(a) THEN "LV" ELSE t, d, h, lv)
<1>1. CASE Reclaimable(a)
  <2>1. ~d
    BY <1>1, ReclaimFacts, AttributeFacts DEF VidOK
  <2> QED BY <1>1, <2>1 DEF VidOK, mvrp_conditional_reclaim
<1>2. CASE ~Reclaimable(a)
  BY <1>2 DEF mvrp_conditional_reclaim
<1> QED BY <1>1, <1>2

-----------------------------------------------------------------------------
(* What is sent.                                                           *)

(* What is sent about an attribute.                                        *)
LEMMA EncodeFacts ==
    ASSUME NEW m \in {"NEW", "JOIN", "LV", "IN"}, NEW r
    PROVE  /\ Encode(m, r) \in Messages
           /\ Encode(m, r) \in {"NEW", "JOININ", "JOINMT"} <=> m \in {"NEW", "JOIN"}
           /\ Encode(m, r) = "LV" <=> m = "LV"
  BY DEF Encode, Messages

(* An attribute that must be sent is sent.                                 *)
LEMMA RequiredIsSent ==
    ASSUME NEW event, NEW v \in Known, Required(attrib[v].app, event)
    PROVE  v \in Vectorized(event)
<1>1. v \in Int
  BY MvrpAssumption DEF Known
<1>2. v .. v = {v} /\ v <= v
  BY <1>1
<1> QED BY <1>2 DEF Vectorized

(* p is what mvrp_txpdu sends on event, with the messages msg.             *)
Formed(event, msg, p) ==
    /\ msg = [v \in Vid |-> msg[v]]
    /\ \A v \in Vid : IF v \in Vectorized(event)
                      THEN \E r : msg[v] = Encode(Sndmsg(attrib[v].app, event), r)
                      ELSE msg[v] = NULL
    /\ p = IF Vectorized(event) = {} /\ event = "TX" THEN NULL
           ELSE [lva |-> event = "TXLA", msg |-> msg]

(* p declares only what a client has declared, an applicant that is quiet  *)
(* after it has been heard, and a Leave that is due is in it.              *)
Sound(event, p) ==
    /\ p \in Pdu \cup {NULL}
    /\ p # NULL => \A v \in Vid : p.msg[v] \in {"NEW", "JOININ", "JOINMT"} => declared[v]
    /\ \A v \in Vid : Sending(heard[v], p, v) \in BOOLEAN
    /\ \A v \in Known : \A in :
          mrp_applicant_fsm(attrib[v].app, event, in) \in Quiet => Sending(heard[v], p, v)
    /\ \A v \in Known : attrib[v].app = "LA" => p # NULL /\ (p.lva \/ p.msg[v] = "LV")

(* What is sent is sound.                                                  *)
LEMMA PduFacts ==
    ASSUME Inv, NEW event \in {"TX", "TXLA"}, NEW msg, NEW p, Formed(event, msg, p)
    PROVE  Sound(event, p)
<1>f. /\ msg = [v \in Vid |-> msg[v]]
      /\ \A v \in Vid : IF v \in Vectorized(event)
                        THEN \E r : msg[v] = Encode(Sndmsg(attrib[v].app, event), r)
                        ELSE msg[v] = NULL
      /\ p = IF Vectorized(event) = {} /\ event = "TX" THEN NULL
             ELSE [lva |-> event = "TXLA", msg |-> msg]
  BY DEF Formed
<1>1. ASSUME NEW v \in Known
      PROVE  /\ v \in Vid /\ attrib[v] \in Attribute /\ attrib[v].app \in ApplicantStates
             /\ Sndmsg(attrib[v].app, event) \in {"NEW", "JOIN", "LV", "IN"}
  <2>1. v \in Vid /\ attrib[v] \in Attribute
    BY VidTypes DEF Known
  <2>2. attrib[v].app \in ApplicantStates
    BY <2>1, AttributeFacts
  <2> QED BY <2>1, <2>2, ApplicantSends
<1>2. Vectorized(event) \subseteq Known
  BY DEF Vectorized
<1>3. ASSUME NEW v \in Vectorized(event)
      PROVE  /\ msg[v] \in Messages
             /\ msg[v] \in {"NEW", "JOININ", "JOINMT"} <=>
                   Sndmsg(attrib[v].app, event) \in {"NEW", "JOIN"}
             /\ msg[v] = "LV" <=> Sndmsg(attrib[v].app, event) = "LV"
  <2>1. v \in Vid /\ Sndmsg(attrib[v].app, event) \in {"NEW", "JOIN", "LV", "IN"}
    BY <1>1, <1>2
  <2>2. PICK r : msg[v] = Encode(Sndmsg(attrib[v].app, event), r)
    BY <1>f, <2>1
  <2> QED BY <2>1, <2>2, EncodeFacts
<1>4. ASSUME NEW v \in Vid, v \notin Vectorized(event)
      PROVE  msg[v] = NULL
  BY <1>f, <1>4
<1>5. NULL \notin Messages /\ NULL \notin Pdu
  BY MvrpAssumption
<1>6. msg \in [Vid -> Messages \cup {NULL}]
  <2>1. \A v \in Vid : msg[v] \in Messages \cup {NULL}
    BY <1>3, <1>4
  <2> QED BY <1>f, <2>1
<1> DEFINE sent == [lva |-> event = "TXLA", msg |-> msg]
<1>7. sent \in Pdu /\ sent.msg = msg /\ sent.lva = (event = "TXLA")
  BY <1>6 DEF Pdu
<1> HIDE DEF sent
<1>8. /\ p = NULL \/ p = sent
      /\ p = NULL => Vectorized(event) = {} /\ event = "TX"
  BY <1>f, <1>5, <1>7 DEF sent
<1>9. p \in Pdu \cup {NULL}
  BY <1>7, <1>8
<1>10. ASSUME NEW v \in Vid, p # NULL, p.msg[v] \in {"NEW", "JOININ", "JOINMT"}
       PROVE  declared[v]
  <2>1. msg[v] \in {"NEW", "JOININ", "JOINMT"}
    BY <1>7, <1>8, <1>10
  <2>2. v \in Vectorized(event)
    BY <2>1, <1>4, <1>5 DEF Messages
  <2>3. attrib[v].app \in Declaring
    BY <1>1, <1>2, <1>3, <2>1, <2>2, ApplicantSends
  <2>4. attrib[v] # NULL
    BY <1>2, <2>2 DEF Known
  <2> QED BY <2>3, <2>4 DEF Inv, VidsOK, VidOK
<1>11. ASSUME NEW v \in Vid
       PROVE  Sending(heard[v], p, v) \in BOOLEAN
  <2>1. heard[v] \in BOOLEAN
    BY VidTypes
  <2> QED BY <2>1 DEF Sending
<1>12. ASSUME NEW v \in Known, NEW in,
              mrp_applicant_fsm(attrib[v].app, event, in) \in Quiet
       PROVE  Sending(heard[v], p, v)
  <2>1. CASE attrib[v].app \notin Quiet \/ event = "TXLA"
    <3>1. /\ Required(attrib[v].app, event)
          /\ Sndmsg(attrib[v].app, event) \in {"NEW", "JOIN"}
      BY <1>1, <1>12, <2>1, ApplicantSends
    <3>2. v \in Vectorized(event)
      BY <3>1, RequiredIsSent
    <3>3. p # NULL /\ p.msg[v] \in {"NEW", "JOININ", "JOINMT"}
      BY <1>3, <1>5, <1>7, <1>8, <3>1, <3>2
    <3> QED BY <3>3 DEF Sending
  <2>2. CASE attrib[v].app \in Quiet /\ event = "TX"
    <3>1. heard[v]
      BY <1>1, <2>2, VidTypes DEF VidOK, Known
    <3>2. Sndmsg(attrib[v].app, event) # "LV"
      BY <1>1, <2>2, ApplicantSends
    <3>3. msg[v] # "LV"
      BY <1>1, <1>3, <1>4, <1>5, <3>2 DEF Messages
    <3> QED BY <1>7, <1>8, <2>2, <3>1, <3>3 DEF Sending
  <2> QED BY <2>1, <2>2
<1>13. ASSUME NEW v \in Known, attrib[v].app = "LA"
       PROVE  p # NULL /\ (p.lva \/ p.msg[v] = "LV")
  <2>1. CASE event = "TXLA"
    BY <1>5, <1>7, <1>8, <2>1
  <2>2. CASE event = "TX"
    <3>1. Required(attrib[v].app, event) /\ Sndmsg(attrib[v].app, event) = "LV"
      BY <1>13, <2>2 DEF Required, Sndmsg
    <3>2. v \in Vectorized(event)
      BY <3>1, RequiredIsSent
    <3> QED BY <1>3, <1>7, <1>8, <3>1, <3>2
  <2> QED BY <2>1, <2>2
<1> QED BY <1>9, <1>10, <1>11, <1>12, <1>13 DEF Sound

-----------------------------------------------------------------------------
(* The steps that change every attribute.                                  *)

(* A LeaveAll that is received keeps the invariant.                        *)
LEMMA ReceiveLeaveAllStep == ASSUME Inv, ReceiveLeaveAll PROVE Inv'
<1>1. /\ attrib' = [v \in Vid |-> IF attrib[v] = NULL THEN NULL ELSE Applied(attrib[v], "RLA")]
      /\ heard' = [v \in Vid |-> FALSE]
      /\ UNCHANGED <<periodic_timer, gc_timer, sel, told, declared>>
      /\ pdu' = NULL /\ saw_vlan_lva' = TRUE
  BY DEF ReceiveLeaveAll, ForAll
<1>2. /\ lv_timer' \in Nat \cup {OFF}
      /\ lv_timer # OFF => lv_timer' # OFF
      /\ \A v \in Known : StartsLeaveTimer(attrib[v].reg, "RLA") => lv_timer' # OFF
  BY MvrpAssumption, TimerFacts DEF ReceiveLeaveAll, mrp_lvtimer_start, Inv, TypeOK
<1>3. join_timer' \in Nat \cup {OFF} /\ lva_timer' \in Nat
  BY MvrpAssumption, TimerFacts DEF ReceiveLeaveAll, Inv, TypeOK
<1>4. rx' \in Seq(Item)
  <2>1. rx \in Seq(Item) /\ rx # <<>> /\ rx' = Tail(rx)
    BY DEF Inv, TypeOK, ReceiveLeaveAll
  <2> QED BY <2>1, FrameFacts
<1>5. ASSUME NEW v \in Vid
      PROVE  /\ attrib'[v] \in Attribute \cup {NULL}
             /\ VidOK(attrib'[v], told[v], declared[v], FALSE, lv_timer')
  <2>1. CASE attrib[v] = NULL
    BY <1>1, <2>1, VidTypes DEF VidOK
  <2>2. CASE attrib[v] # NULL
    <3>1. v \in Known /\ attrib[v] \in Attribute /\ attrib[v].app \in ApplicantStates
      BY <2>2, VidTypes, AttributeFacts DEF Known
    <3>2. mrp_applicant_fsm(attrib[v].app, "RLA", attrib[v].reg = "IN") \notin Quiet
      BY <3>1, ApplicantFallsQuiet DEF OtherEvents
    <3>3. /\ Applied(attrib[v], "RLA") \in Attribute
          /\ VidOK(Applied(attrib[v], "RLA"), told[v], declared[v], FALSE, lv_timer')
      <4>1. /\ told[v] \in Reports /\ declared[v] \in BOOLEAN /\ heard[v] \in BOOLEAN
            /\ VidOK(attrib[v], told[v], declared[v], heard[v], lv_timer)
        BY VidTypes
      <4>2. lv_timer # OFF \/ StartsLeaveTimer(attrib[v].reg, "RLA") => lv_timer' # OFF
        BY <1>2, <3>1
      <4> QED BY <3>1, <3>2, <4>1, <4>2, LeaveAllKeepsVid
    <3> QED BY <1>1, <2>2, <3>3
  <2> QED BY <2>1, <2>2
<1>6. attrib' \in [Vid -> Attribute \cup {NULL}] /\ heard' \in [Vid -> BOOLEAN]
  BY <1>1, <1>5
<1>7. VidsOK'
  BY <1>1, <1>5 DEF VidsOK
<1>8. TypeOK'
  BY <1>1, <1>2, <1>3, <1>4, <1>6 DEF Inv, TypeOK
<1> QED BY <1>1, <1>7, <1>8, SilentStep

(* The LeaveAll that the LeaveAll timer sends is sound.                    *)
LEMMA LvaTimerPdu == ASSUME Inv, LvaTimer PROVE Sound("TXLA", pdu')
<1> DEFINE reg == [v \in Known |-> mrp_registrar_fsm(attrib[v].reg, "TXLA")]
           msg == [v \in Vid |->
                     IF v \in Vectorized("TXLA")
                     THEN Encode(Sndmsg(attrib[v].app, "TXLA"), reg[v]) ELSE NULL]
<1>1. mrp_lvatimer_fsm(mrp_lvatimer_fsm("PASSIVE", "LVATIMER").state, "TX").tx = TRUE
  BY DEF mrp_lvatimer_fsm
<1>2. pdu' = [lva |-> TRUE, msg |-> msg]
  BY <1>1 DEF LvaTimer, mvrp_txpdu
<1> HIDE DEF reg
<1>3. /\ msg = [v \in Vid |-> msg[v]]
      /\ \A v \in Vid : IF v \in Vectorized("TXLA")
                        THEN \E r : msg[v] = Encode(Sndmsg(attrib[v].app, "TXLA"), r)
                        ELSE msg[v] = NULL
  OBVIOUS
<1> HIDE DEF msg
<1>4. Formed("TXLA", msg, pdu')
  BY <1>2, <1>3 DEF Formed
<1> QED BY <1>4, PduFacts

(* What the join timer sends is sound.                                     *)
LEMMA JoinTimerPdu == ASSUME Inv, JoinTimer PROVE Sound("TX", pdu')
<1> DEFINE reg == [v \in Known |-> attrib[v].reg]
           msg == [v \in Vid |->
                     IF v \in Vectorized("TX")
                     THEN Encode(Sndmsg(attrib[v].app, "TX"), reg[v]) ELSE NULL]
<1>1. pdu' = IF Vectorized("TX") = {} THEN NULL ELSE [lva |-> FALSE, msg |-> msg]
  BY DEF JoinTimer, mvrp_txpdu
<1> HIDE DEF reg
<1>2. /\ msg = [v \in Vid |-> msg[v]]
      /\ \A v \in Vid : IF v \in Vectorized("TX")
                        THEN \E r : msg[v] = Encode(Sndmsg(attrib[v].app, "TX"), r)
                        ELSE msg[v] = NULL
  OBVIOUS
<1> HIDE DEF msg
<1>3. Formed("TX", msg, pdu')
  BY <1>1, <1>2 DEF Formed
<1> QED BY <1>3, PduFacts

(* Sending a LeaveAll keeps the invariant.                                 *)
LEMMA LvaTimerStep == ASSUME Inv, LvaTimer PROVE Inv'
<1>1. /\ attrib' = [v \in Vid |-> IF attrib[v] = NULL THEN NULL ELSE Applied(attrib[v], "TXLA")]
      /\ heard' = [v \in Vid |-> Sending(heard[v], pdu', v)]
      /\ UNCHANGED <<periodic_timer, gc_timer, rx, saw_vlan_lva, told, declared>>
      /\ join_timer' = OFF
      /\ sel' \subseteq sel
  BY DEF LvaTimer, ForAll, frame, Turn
<1>2. /\ lv_timer' \in Nat \cup {OFF}
      /\ lv_timer # OFF => lv_timer' # OFF
      /\ \A v \in Known : StartsLeaveTimer(attrib[v].reg, "TXLA") => lv_timer' # OFF
  BY MvrpAssumption, TimerFacts DEF LvaTimer, mrp_lvtimer_start, Inv, TypeOK
<1>3. lva_timer' \in Nat
  BY MvrpAssumption DEF LvaTimer
<1>4. ASSUME NEW v \in Vid
      PROVE  /\ attrib'[v] \in Attribute \cup {NULL}
             /\ heard'[v] \in BOOLEAN
             /\ VidOK(attrib'[v], told[v], declared[v], heard'[v], lv_timer')
  <2>1. heard'[v] = Sending(heard[v], pdu', v) /\ heard'[v] \in BOOLEAN
    BY <1>1, LvaTimerPdu DEF Sound
  <2>2. CASE attrib[v] = NULL
    BY <1>1, <2>1, <2>2, VidTypes DEF VidOK
  <2>3. CASE attrib[v] # NULL
    <3>1. v \in Known /\ attrib[v] \in Attribute
      BY <2>3, VidTypes DEF Known
    <3>2. mrp_applicant_fsm(attrib[v].app, "TXLA", attrib[v].reg = "IN") \in Quiet => heard'[v]
      BY <2>1, <3>1, LvaTimerPdu DEF Sound
    <3>3. /\ Applied(attrib[v], "TXLA") \in Attribute
          /\ VidOK(Applied(attrib[v], "TXLA"), told[v], declared[v], heard'[v], lv_timer')
      <4>1. /\ told[v] \in Reports /\ declared[v] \in BOOLEAN /\ heard[v] \in BOOLEAN
            /\ VidOK(attrib[v], told[v], declared[v], heard[v], lv_timer)
        BY VidTypes
      <4>2. lv_timer # OFF \/ StartsLeaveTimer(attrib[v].reg, "TXLA") => lv_timer' # OFF
        BY <1>2, <3>1
      <4>3. heard'[v] \in BOOLEAN
        BY <2>1
      <4> QED BY <3>1, <3>2, <4>1, <4>2, <4>3, LeaveAllKeepsVid
    <3> QED BY <1>1, <2>1, <2>3, <3>3
  <2> QED BY <2>2, <2>3
<1>5. attrib' \in [Vid -> Attribute \cup {NULL}] /\ heard' \in [Vid -> BOOLEAN]
  BY <1>1, <1>4
<1>6. VidsOK'
  BY <1>1, <1>4 DEF VidsOK
<1>7. TypeOK'
  BY <1>1, <1>2, <1>3, <1>5, LvaTimerPdu DEF Inv, TypeOK, Sound
<1>8. OnlyDeclaredIsSent'
  BY <1>1, LvaTimerPdu DEF OnlyDeclaredIsSent, Sound
<1> QED BY <1>6, <1>7, <1>8 DEF Inv

(* Sending what is due keeps the invariant.                                *)
LEMMA JoinTimerStep == ASSUME Inv, JoinTimer PROVE Inv'
<1> DEFINE next(a) == mrp_applicant_fsm(a.app, "TX", a.reg = "IN")
<1>1. /\ attrib' = [v \in Vid |-> IF attrib[v] = NULL THEN NULL
                                  ELSE [attrib[v] EXCEPT !.app = next(attrib[v])]]
      /\ heard' = [v \in Vid |-> Sending(heard[v], pdu', v)]
      /\ UNCHANGED <<lv_timer, lva_timer, periodic_timer, gc_timer, rx, saw_vlan_lva,
                     told, declared>>
      /\ sel' \subseteq sel
  BY DEF JoinTimer, ForAll, frame, Turn
<1>2. join_timer' \in Nat \cup {OFF}
  BY TimerFacts DEF JoinTimer
<1>3. ASSUME NEW v \in Vid
      PROVE  /\ attrib'[v] \in Attribute \cup {NULL}
             /\ heard'[v] \in BOOLEAN
             /\ VidOK(attrib'[v], told[v], declared[v], heard'[v], lv_timer)
  <2>1. heard'[v] = Sending(heard[v], pdu', v) /\ heard'[v] \in BOOLEAN
    BY <1>1, JoinTimerPdu DEF Sound
  <2>2. CASE attrib[v] = NULL
    BY <1>1, <2>1, <2>2, VidTypes DEF VidOK
  <2>3. CASE attrib[v] # NULL
    <3>1. v \in Known /\ attrib[v] \in Attribute
      BY <2>3, VidTypes DEF Known
    <3>2. next(attrib[v]) \in Quiet => heard'[v]
      BY <2>1, <3>1, JoinTimerPdu DEF Sound
    <3>3. /\ [attrib[v] EXCEPT !.app = next(attrib[v])] \in Attribute
          /\ VidOK([attrib[v] EXCEPT !.app = next(attrib[v])], told[v], declared[v],
                   heard'[v], lv_timer)
      <4>1. /\ told[v] \in Reports /\ declared[v] \in BOOLEAN /\ heard[v] \in BOOLEAN
            /\ VidOK(attrib[v], told[v], declared[v], heard[v], lv_timer)
        BY VidTypes
      <4>2. heard'[v] \in BOOLEAN
        BY <2>1
      <4>3. attrib[v].app \in ApplicantStates
        BY <3>1, AttributeFacts
      <4>4. next(attrib[v]) \in ApplicantStates
        BY <4>3, ApplicantType
      <4>5. next(attrib[v]) \in Declaring <=> attrib[v].app \in Declaring
        BY <4>3, ApplicantKeepsDeclaration DEF OtherEvents
      <4> HIDE DEF next
      <4> QED BY <3>1, <3>2, <4>1, <4>2, <4>4, <4>5, ApplicantKeepsVid
    <3> QED BY <1>1, <2>1, <2>3, <3>3
  <2> QED BY <2>2, <2>3
<1>4. attrib' \in [Vid -> Attribute \cup {NULL}] /\ heard' \in [Vid -> BOOLEAN]
  BY <1>1, <1>3
<1>5. VidsOK'
  BY <1>1, <1>3 DEF VidsOK
<1>6. TypeOK'
  BY <1>1, <1>2, <1>4, JoinTimerPdu DEF Inv, TypeOK, Sound
<1>7. OnlyDeclaredIsSent'
  BY <1>1, JoinTimerPdu DEF OnlyDeclaredIsSent, Sound
<1> QED BY <1>5, <1>6, <1>7 DEF Inv

(* The end of the leave time keeps the invariant.                          *)
LEMMA LvTimerStep == ASSUME Inv, LvTimer PROVE Inv'
<1> DEFINE after(a) == [a EXCEPT !.reg = mrp_registrar_fsm(a.reg, "LVTIMER")]
           t2(v) == IF Reclaimable(after(attrib[v])) THEN "LV"
                    ELSE Told(told[v], Notify(attrib[v].reg, "LVTIMER"))
<1>1. /\ attrib' = [v \in Vid |-> IF attrib[v] = NULL THEN NULL
                                  ELSE mvrp_conditional_reclaim(after(attrib[v]))]
      /\ told' = [v \in Vid |-> IF attrib[v] = NULL THEN told[v] ELSE t2(v)]
      /\ UNCHANGED <<join_timer, lva_timer, periodic_timer, gc_timer, rx, saw_vlan_lva,
                     declared, heard>>
      /\ lv_timer' = OFF /\ pdu' = NULL
      /\ sel' \subseteq sel
  BY DEF LvTimer, ForAll, frame, Turn, Known
<1>2. ASSUME NEW v \in Vid
      PROVE  /\ attrib'[v] \in Attribute \cup {NULL}
             /\ told'[v] \in Reports
             /\ VidOK(attrib'[v], told'[v], declared[v], heard[v], OFF)
  <2>1. CASE attrib[v] = NULL
    BY <1>1, <2>1, VidTypes DEF VidOK
  <2>2. CASE attrib[v] # NULL
    <3>1. /\ attrib[v] \in Attribute /\ told[v] \in Reports
          /\ declared[v] \in BOOLEAN /\ heard[v] \in BOOLEAN
          /\ VidOK(attrib[v], told[v], declared[v], heard[v], lv_timer)
      BY <2>2, VidTypes
    <3>2. /\ after(attrib[v]) \in Attribute /\ t2(v) \in Reports
          /\ VidOK(mvrp_conditional_reclaim(after(attrib[v])), t2(v), declared[v], heard[v], OFF)
      BY <3>1, LvTimerKeepsVid
    <3> HIDE DEF after, t2
    <3> QED BY <1>1, <2>2, <3>2 DEF mvrp_conditional_reclaim
  <2> QED BY <2>1, <2>2
<1>3. attrib' \in [Vid -> Attribute \cup {NULL}] /\ told' \in [Vid -> Reports]
  BY <1>1, <1>2
<1>4. VidsOK'
  BY <1>1, <1>2 DEF VidsOK
<1>5. TypeOK'
  BY <1>1, <1>3 DEF Inv, TypeOK, Reports
<1> QED BY <1>1, <1>4, <1>5, SilentStep

(* The periodic event keeps the invariant.                                 *)
LEMMA PeriodicTimerStep == ASSUME Inv, PeriodicTimer PROVE Inv'
<1> DEFINE next(a) == mrp_applicant_fsm(a.app, "PERIODIC", FALSE)
<1>1. /\ attrib' = [v \in Vid |-> IF attrib[v] = NULL THEN NULL
                                  ELSE [attrib[v] EXCEPT !.app = next(attrib[v])]]
      /\ UNCHANGED <<lv_timer, lva_timer, gc_timer, rx, saw_vlan_lva, told, declared, heard>>
      /\ pdu' = NULL
      /\ sel' \subseteq sel
  BY DEF PeriodicTimer, ForAll, frame, Turn
<1>2. join_timer' \in Nat \cup {OFF} /\ periodic_timer' \in Nat
  BY TimerFacts, MvrpAssumption DEF PeriodicTimer, Inv, TypeOK
<1>3. ASSUME NEW v \in Vid
      PROVE  /\ attrib'[v] \in Attribute \cup {NULL}
             /\ VidOK(attrib'[v], told[v], declared[v], heard[v], lv_timer)
  <2>1. CASE attrib[v] = NULL
    BY <1>1, <2>1, VidTypes
  <2>2. CASE attrib[v] # NULL
    <3>1. /\ attrib[v] \in Attribute /\ told[v] \in Reports
          /\ declared[v] \in BOOLEAN /\ heard[v] \in BOOLEAN
          /\ VidOK(attrib[v], told[v], declared[v], heard[v], lv_timer)
      BY <2>2, VidTypes
    <3>2. attrib[v].app \in ApplicantStates
      BY <3>1, AttributeFacts
    <3>3. next(attrib[v]) \in ApplicantStates
      BY <3>2, ApplicantType
    <3>4. next(attrib[v]) \in Declaring <=> attrib[v].app \in Declaring
      BY <3>2, ApplicantKeepsDeclaration DEF OtherEvents
    <3>5. next(attrib[v]) \in Quiet => attrib[v].app \in Quiet
      BY <3>2 DEF mrp_applicant_fsm, OnPeriodic, Quiet, ApplicantStates
    <3>6. next(attrib[v]) \in Quiet => heard[v]
      BY <2>2, <3>1, <3>5 DEF VidOK
    <3> HIDE DEF next
    <3>7. /\ [attrib[v] EXCEPT !.app = next(attrib[v])] \in Attribute
          /\ VidOK([attrib[v] EXCEPT !.app = next(attrib[v])], told[v], declared[v],
                   heard[v], lv_timer)
      BY <3>1, <3>3, <3>4, <3>6, ApplicantKeepsVid
    <3> QED BY <1>1, <2>2, <3>7
  <2> QED BY <2>1, <2>2
<1>4. attrib' \in [Vid -> Attribute \cup {NULL}]
  BY <1>1, <1>3
<1>5. VidsOK'
  BY <1>1, <1>3 DEF VidsOK
<1>6. TypeOK'
  BY <1>1, <1>2, <1>4 DEF Inv, TypeOK
<1> QED BY <1>1, <1>5, <1>6, SilentStep

(* The garbage collector keeps the invariant.                              *)
LEMMA GcTimerStep == ASSUME Inv, GcTimer PROVE Inv'
<1>1. /\ attrib' = [v \in Vid |-> IF attrib[v] = NULL THEN NULL
                                  ELSE mvrp_conditional_reclaim(attrib[v])]
      /\ told' = [v \in Vid |-> IF attrib[v] # NULL /\ Reclaimable(attrib[v]) THEN "LV"
                                ELSE told[v]]
      /\ UNCHANGED <<join_timer, lv_timer, lva_timer, periodic_timer, rx, saw_vlan_lva,
                     declared, heard>>
      /\ pdu' = NULL
      /\ sel' \subseteq sel
  BY DEF GcTimer, ForAll, frame, Turn, Known
<1>2. gc_timer' \in Nat
  BY MvrpAssumption DEF GcTimer
<1>3. ASSUME NEW v \in Vid
      PROVE  /\ attrib'[v] \in Attribute \cup {NULL}
             /\ told'[v] \in Reports
             /\ VidOK(attrib'[v], told'[v], declared[v], heard[v], lv_timer)
  <2>1. CASE attrib[v] = NULL
    BY <1>1, <2>1, VidTypes
  <2>2. CASE attrib[v] # NULL
    <3>1. /\ attrib[v] \in Attribute /\ told[v] \in Reports
          /\ declared[v] \in BOOLEAN /\ heard[v] \in BOOLEAN
          /\ VidOK(attrib[v], told[v], declared[v], heard[v], lv_timer)
      BY <2>2, VidTypes
    <3>2. VidOK(mvrp_conditional_reclaim(attrib[v]),
                IF Reclaimable(attrib[v]) THEN "LV" ELSE told[v], declared[v], heard[v], lv_timer)
      BY <3>1, ReclaimKeepsVid
    <3>3. /\ attrib'[v] = mvrp_conditional_reclaim(attrib[v])
          /\ told'[v] = IF Reclaimable(attrib[v]) THEN "LV" ELSE told[v]
      BY <1>1, <2>2
    <3>4. attrib'[v] \in Attribute \cup {NULL} /\ told'[v] \in Reports
      BY <3>1, <3>3 DEF mvrp_conditional_reclaim, Reports
    <3> QED BY <3>2, <3>3, <3>4
  <2> QED BY <2>1, <2>2
<1>4. attrib' \in [Vid -> Attribute \cup {NULL}] /\ told' \in [Vid -> Reports]
  BY <1>1, <1>3
<1>5. VidsOK'
  BY <1>1, <1>3 DEF VidsOK
<1>6. TypeOK'
  BY <1>1, <1>2, <1>4 DEF Inv, TypeOK, Reports
<1> QED BY <1>1, <1>5, <1>6, SilentStep

-----------------------------------------------------------------------------
(* Every step keeps the invariant.                                         *)
LEMMA NextInv == Inv /\ [Next]_vars => Inv'
<1> SUFFICES ASSUME Inv, [Next]_vars PROVE Inv'
  OBVIOUS
<1>1. CASE UNCHANGED vars
  BY <1>1 DEF vars, timers, frame, Inv, TypeOK, VidsOK, VidOK, OnlyDeclaredIsSent
<1>2. CASE Tick
  BY <1>2, TickStep
<1>3. CASE \/ Select \/ OtherCommand \/ SkipLeaveAll
           \/ \E f \in Frames : mvrp_recv_msg(f)
  BY <1>3, ControlSteps
<1>4. CASE \E v \in Vid, event \in LocalEvents : Command(v, event)
  BY <1>4, CommandStep
<1>5. CASE ReceiveEvent
  BY <1>5, ReceiveEventStep
<1>6. CASE ReceiveLeaveAll
  BY <1>6, ReceiveLeaveAllStep
<1>7. CASE LvaTimer
  BY <1>7, LvaTimerStep
<1>8. CASE LvTimer
  BY <1>8, LvTimerStep
<1>9. CASE JoinTimer
  BY <1>9, JoinTimerStep
<1>10. CASE PeriodicTimer
  BY <1>10, PeriodicTimerStep
<1>11. CASE GcTimer
  BY <1>11, GcTimerStep
<1> QED BY <1>1, <1>2, <1>3, <1>4, <1>5, <1>6, <1>7, <1>8, <1>9, <1>10, <1>11 DEF Next, Serve

(* The inductive invariant holds always.                                   *)
THEOREM InvAlways == Spec => []Inv
  BY InitInv, NextInv, PTL DEF Spec

(* The fields of MVRP_db and the timers keep their types.                  *)
THEOREM TypesKept == Spec => []TypeOK
<1>1. Inv => TypeOK
  BY DEF Inv
<1> QED BY <1>1, InvAlways, PTL

(* No registrar is left in the LV state with the leave timer stopped.      *)
THEOREM LeavingAlwaysTimed == Spec => []LeavingIsTimed
  BY InvMeaning, InvAlways, PTL

(* An applicant declares a VID exactly as long as its clients want it.     *)
THEOREM DeclarationAlwaysKept == Spec => []DeclarationKept
  BY InvMeaning, InvAlways, PTL

(* What the clients were last notified of agrees with the registrar.       *)
THEOREM ClientsAlwaysRight == Spec => []ClientsAreRight
  BY InvMeaning, InvAlways, PTL

(* An applicant falls quiet only when its declaration has been heard.      *)
THEOREM QuietAlwaysHeard == Spec => []QuietIsHeard
  BY InvMeaning, InvAlways, PTL

(* No PDU declares what no client has declared.                            *)
THEOREM OnlyDeclaredAlwaysSent == Spec => []OnlyDeclaredIsSent
<1>1. Inv => OnlyDeclaredIsSent
  BY DEF Inv
<1> QED BY <1>1, InvAlways, PTL

-----------------------------------------------------------------------------
(* Withdrawals.                                                            *)

Withdrawing(v) == attrib[v] # NULL /\ attrib[v].app = "LA"

(* An applicant that is to send a Leave waits for it whatever peers say.   *)
LEMMA LeaveWaits ==
    ASSUME NEW event \in RxEvents \cup {"LV", "RLA", "PERIODIC"}, NEW in
    PROVE  mrp_applicant_fsm("LA", event, in) = "LA"
<1>1. /\ OnLeave("LA") = "LA" /\ OnRxLeave("LA") = "LA" /\ OnPeriodic("LA") = "LA"
      /\ OnRxJoinIn("LA") = "LA" /\ OnRxIn("LA") = "LA" /\ OnRxEmpty("LA") = "LA"
  BY DEF OnLeave, OnRxLeave, OnPeriodic, OnRxJoinIn, OnRxIn, OnRxEmpty
<1> QED BY <1>1 DEF mrp_applicant_fsm, RxEvents

(* An event about a VID ends its withdrawal only if a client wants it      *)
(* again.                                                                  *)
LEMMA EventWaits ==
    ASSUME Inv, NEW u \in Vid, NEW event \in LocalEvents \cup RxEvents, mvrp_event(event, u),
           NEW v \in Vid, Withdrawing(v)
    PROVE  Withdrawing(v)' \/ (u = v /\ event \in {"NEW", "JOIN"})
<1>1. CASE Ignored(attrib[u], event) \/ u # v
  <2>1. attrib'[v] = attrib[v]
    BY <1>1 DEF mvrp_event, Inv, TypeOK
  <2> QED BY <2>1 DEF Withdrawing
<1>2. CASE ~Ignored(attrib[u], event) /\ u = v /\ event \notin {"NEW", "JOIN"}
  <2> DEFINE new == Applied(attrib[v], event)
             in  == (attrib[v].reg = "IN")
  <2>1. attrib' = [attrib EXCEPT ![v] = mvrp_conditional_reclaim(new)]
    BY <1>2 DEF mvrp_event, Lookup, Withdrawing
  <2>2. new.app = mrp_applicant_fsm(attrib[v].app, event, in)
    BY DEF Applied
  <2>3. attrib[v] \in Attribute /\ attrib[v].reg \in RegistrarStates
    BY VidTypes, AttributeFacts DEF Withdrawing
  <2>4. new \in Attribute
    BY <2>3, ApplicantType, RegistrarFacts, RemapFacts, AttributeFacts DEF Applied
  <2> HIDE DEF new, in
  <2>5. new.app = "LA"
    BY <1>2, <2>2, LeaveWaits DEF Withdrawing, LocalEvents
  <2>6. mvrp_conditional_reclaim(new) = new /\ new # NULL
    BY <2>4, <2>5, AttributeFacts DEF mvrp_conditional_reclaim, Reclaimable
  <2>7. attrib'[v] = new
    BY <2>1, <2>6 DEF Inv, TypeOK
  <2> QED BY <2>5, <2>6, <2>7 DEF Withdrawing
<1> QED BY <1>1, <1>2

(* A step ends the withdrawal of a VID by sending it, or because a client  *)
(* wants the VID again.                                                    *)
LEMMA WithdrawalStep ==
    ASSUME Inv, Next, NEW v \in Vid, Withdrawing(v)
    PROVE  \/ Withdrawing(v)'
           \/ declared'[v]
           \/ pdu' # NULL /\ (pdu'.lva \/ pdu'.msg[v] = "LV")
<1>1. v \in Known /\ attrib[v] \in Attribute /\ attrib[v].app = "LA"
  BY VidTypes DEF Withdrawing, Known
<1>2. CASE UNCHANGED attrib
  BY <1>2 DEF Withdrawing
<1>3. ASSUME NEW u \in Vid, NEW event \in LocalEvents, Command(u, event)
      PROVE  Withdrawing(v)' \/ declared'[v]
  <2>1. mvrp_event(event, u) /\ declared' = [declared EXCEPT ![u] = event # "LV"]
    BY <1>3 DEF Command
  <2>2. Withdrawing(v)' \/ (u = v /\ event \in {"NEW", "JOIN"})
    BY <2>1, EventWaits
  <2> QED BY <2>1, <2>2 DEF Inv, TypeOK
<1>4. CASE ReceiveEvent
  <2>1. /\ rx \in Seq(Item) /\ rx # <<>> /\ Head(rx) # LeaveAll
        /\ mvrp_event(Head(rx).event, Head(rx).vid)
    BY <1>4 DEF Inv, TypeOK, ReceiveEvent
  <2>2. Head(rx).event \in RxEvents /\ Head(rx).vid \in Vid
    BY <2>1, FrameFacts
  <2>3. Head(rx).event \notin {"NEW", "JOIN"}
    BY <2>2 DEF RxEvents
  <2> QED BY <2>1, <2>2, <2>3, EventWaits
<1>5. CASE ReceiveLeaveAll
  <2>1. attrib'[v] = Applied(attrib[v], "RLA")
    BY <1>1, <1>5 DEF ReceiveLeaveAll, ForAll, Withdrawing
  <2>2. Applied(attrib[v], "RLA").app = "LA"
    BY <1>1, LeaveWaits DEF Applied
  <2>3. attrib'[v] # NULL
    <3>1. Applied(attrib[v], "RLA") \in Attribute
      <4>1. attrib[v].reg \in RegistrarStates
        BY <1>1, AttributeFacts
      <4>2. Remap("RLA", attrib[v].reg) \in RegEvents
        BY DEF Remap, RegEvents
      <4>3. "LA" \in ApplicantStates
        BY DEF ApplicantStates
      <4> QED BY <1>1, <4>1, <4>2, <4>3, ApplicantType, RegistrarFacts, AttributeFacts DEF Applied
    <3> QED BY <2>1, <3>1, AttributeFacts
  <2> QED BY <2>1, <2>2, <2>3 DEF Withdrawing
<1>6. CASE LvaTimer
  BY <1>1, <1>6, LvaTimerPdu DEF Sound
<1>7. CASE JoinTimer
  BY <1>1, <1>7, JoinTimerPdu DEF Sound
<1>8. CASE LvTimer
  <2> DEFINE new == [attrib[v] EXCEPT !.reg = mrp_registrar_fsm(attrib[v].reg, "LVTIMER")]
  <2>1. attrib'[v] = mvrp_conditional_reclaim(new)
    BY <1>1, <1>8 DEF LvTimer, ForAll, Withdrawing
  <2>2. attrib[v].reg \in RegistrarStates
    BY <1>1, AttributeFacts
  <2>3. mrp_registrar_fsm(attrib[v].reg, "LVTIMER") \in RegistrarStates
    BY <2>2, RegistrarFacts DEF RegEvents
  <2>4. new \in Attribute /\ new.app = "LA"
    BY <1>1, <2>3 DEF Attribute
  <2> HIDE DEF new
  <2> QED BY <2>1, <2>4, AttributeFacts DEF Withdrawing, mvrp_conditional_reclaim, Reclaimable
<1>9. CASE PeriodicTimer
  <2> DEFINE s == mrp_applicant_fsm(attrib[v].app, "PERIODIC", FALSE)
  <2>1. attrib'[v] = [attrib[v] EXCEPT !.app = s]
    BY <1>1, <1>9 DEF PeriodicTimer, ForAll, Withdrawing
  <2>2. s = "LA"
    BY <1>1 DEF mrp_applicant_fsm, OnPeriodic
  <2> HIDE DEF s
  <2>3. attrib'[v] \in Attribute /\ attrib'[v].app = "LA"
    BY <1>1, <2>1, <2>2 DEF Attribute, ApplicantStates
  <2> QED BY <2>3, AttributeFacts DEF Withdrawing
<1>10. CASE GcTimer
  <2>1. attrib'[v] = mvrp_conditional_reclaim(attrib[v])
    BY <1>1, <1>10 DEF GcTimer, ForAll, Withdrawing
  <2> QED BY <1>1, <2>1, AttributeFacts DEF Withdrawing, mvrp_conditional_reclaim, Reclaimable
<1> QED BY <1>2, <1>3, <1>4, <1>5, <1>6, <1>7, <1>8, <1>9, <1>10
        DEF Next, Serve, Tick, Select, OtherCommand, mvrp_recv_msg, SkipLeaveAll

(* A withdrawal is not forgotten: it is sent, or a LeaveAll is, or a       *)
(* client has asked for the VID again.                                     *)
THEOREM WithdrawalAlwaysSent == Spec => WithdrawalIsSent
<1> DEFINE A == \A v \in Vid :
                  Is(v, {"LA"}, RegistrarStates) /\ ~Is(v, {"LA"}, RegistrarStates)' =>
                     \/ declared'[v]
                     \/ pdu' # NULL /\ (pdu'.lva \/ pdu'.msg[v] = "LV")
<1>1. ASSUME Inv, NEW v \in Vid
      PROVE  Is(v, {"LA"}, RegistrarStates) <=> Withdrawing(v)
  BY <1>1, VidTypes, AttributeFacts DEF Is, Known, Withdrawing
<1>2. Inv /\ Inv' /\ [Next]_vars => [A]_vars
  <2> SUFFICES ASSUME Inv, Inv', Next, NEW v \in Vid,
                      Is(v, {"LA"}, RegistrarStates), ~Is(v, {"LA"}, RegistrarStates)'
               PROVE  \/ declared'[v]
                      \/ pdu' # NULL /\ (pdu'.lva \/ pdu'.msg[v] = "LV")
    OBVIOUS
  <2>1. Withdrawing(v)
    BY <1>1
  <2>2. Withdrawing(v)' => Is(v, {"LA"}, RegistrarStates)'
    <3>1. attrib'[v] \in Attribute \cup {NULL}
      BY DEF Inv, TypeOK
    <3> QED BY <3>1, AttributeFacts DEF Is, Known, Withdrawing
  <2> QED BY <2>1, <2>2, WithdrawalStep
<1> QED BY <1>2, InvAlways, PTL DEF Spec, WithdrawalIsSent
=============================================================================
