-------------------------------- MODULE Mvrp --------------------------------
(***************************************************************************)
(* The MVRP participant of mrpd and the select() loop that drives it:      *)
(* daemons/mrpd/mvrp.c and process_events of daemons/mrpd/mrpd.c.          *)
(*                                                                         *)
(* mrpd is a single thread.  One turn of its loop calls select() once and  *)
(* then serves, in a fixed order, every descriptor that was ready at that  *)
(* moment: sel is what is left of this snapshot.  The handlers start and   *)
(* stop the very timers that may still be waiting in the snapshot.         *)
(***************************************************************************)
EXTENDS Mrp, Sequences

CONSTANTS
    Vid,             \* VLAN identifiers that clients and peers speak about
    NULL,
    JoinTime,        \* MRP_JOINTIMER_VAL, in ticks
    LeaveTime,       \* MRP_LVTIMER_VAL
    LeaveAllTimes,   \* MRP_LVATIMER_VAL and a random part of it
    PeriodicTime,    \* the second of mrp_periodictimer_start
    GcTime,          \* the 30 seconds of gctimer_start
    Punctual,        \* whether the host lets mrpd serve a timer in the tick it expires
    Frames           \* MVRP frames that peers may send

Attribute == [app : ApplicantStates, reg : RegistrarStates]

(* A frame is the sequence of what mvrp_recv_msg finds in it: LeaveAll     *)
(* flags of vectors and events about VIDs.                                 *)
LeaveAll == [event |-> "RLA", vid |-> NULL]
Item     == [event : RxEvents, vid : Vid] \cup {LeaveAll}

Messages == {"NEW", "JOININ", "JOINMT", "IN", "MT", "LV"}
Pdu      == [lva : BOOLEAN, msg : [Vid -> Messages \cup {NULL}]]

ASSUME MvrpAssumption ==
    /\ Vid \subseteq 0 .. 4095
    /\ NULL \notin Vid \cup Attribute \cup Messages \cup Pdu
    /\ JoinTime \in Nat /\ LeaveTime \in Nat /\ PeriodicTime \in Nat /\ GcTime \in Nat
    /\ Punctual \in BOOLEAN
    /\ LeaveAllTimes \subseteq Nat /\ LeaveAllTimes # {}
    /\ Frames \subseteq Seq(Item)

VARIABLES
    attrib,        \* MVRP_db->attrib_list: what is kept about a VID, or NULL
    join_timer, lv_timer, lva_timer, periodic_timer, gc_timer,
    sel,           \* the descriptors of sel_fds that are still to be looked at
    rx,            \* what is left of the frame being parsed
    saw_vlan_lva,  \* whether a LeaveAll has been found in it
    pdu,           \* the PDU sent in the last step, or NULL
    told,          \* the last notification about a VID to the clients
    declared,      \* whether the last command about a VID was a declaration
    heard          \* whether the peers must know the declaration: see Hearing

timers == <<join_timer, lv_timer, lva_timer, periodic_timer, gc_timer>>
frame  == <<rx, saw_vlan_lva>>
vars   == <<attrib, timers, sel, frame, pdu, told, declared, heard>>

Known == {v \in Vid : attrib[v] # NULL}

-----------------------------------------------------------------------------
(* One attribute.                                                          *)

mvrp_alloc == [app |-> "VO", reg |-> "MT"]

(* The registrar event that stands for an event of a client or a peer.     *)
Remap(event, reg) ==
    CASE event = "NEW" -> "BEGIN"
      [] event = "JOIN" -> IF reg = "IN" THEN "RJOININ" ELSE "RJOINMT"
      [] event = "LV" -> "RLV"
      [] OTHER -> event

Applied(a, event) ==
    [app |-> mrp_applicant_fsm(a.app, event, a.reg = "IN"),
     reg |-> mrp_registrar_fsm(a.reg, Remap(event, a.reg))]

NotifyOf(a, event) ==
    IF event = "NEW" THEN "NEW" ELSE Notify(a.reg, Remap(event, a.reg))

(* mvrp_conditional_reclaim frees the attribute and reports that it left.  *)
Reclaimable(a) == a.reg = "MT" /\ a.app \in {"VO", "AO", "QO"}

mvrp_conditional_reclaim(a) == IF Reclaimable(a) THEN NULL ELSE a

(* The attribute that an event finds or adds.  An Empty of an unknown VID  *)
(* is ignored.                                                             *)
Lookup(a) == IF a = NULL THEN mvrp_alloc ELSE a
Ignored(a, event) == a = NULL /\ event = "RMT"

(* The new notification, if any, and otherwise the old one.                *)
Told(old, new) == IF new = "NONE" THEN old ELSE new

(* MVRP_db->attrib_list after the same change to every attribute in it.    *)
ForAll(Change(_)) == [v \in Vid |-> IF attrib[v] = NULL THEN NULL ELSE Change(attrib[v])]

-----------------------------------------------------------------------------
(* Transmission (mvrp_txpdu, mvrp_emit_vidvectors).                        *)

(* Mutant: the state of the registrar is not encoded.                      *)
EncodeRaw(sndmsg, reg) == sndmsg

(* What is sent for an attribute, given the state of its registrar.        *)
Encode(sndmsg, reg) ==
    CASE sndmsg = "IN" -> IF reg = "IN" THEN "IN" ELSE "MT"
      [] sndmsg = "JOIN" -> IF reg = "IN" THEN "JOININ" ELSE "JOINMT"
      [] OTHER -> sndmsg

(* The attributes sent: those that must be, and those that follow them     *)
(* without a gap and so fit into the same vector.                          *)
Vectorized(event) ==
    {v \in Known : \E u \in Known : /\ u <= v
                                    /\ Required(attrib[u].app, event)
                                    /\ u .. v \subseteq Known}

(* The PDU that event sends, where reg gives the state of the registrar    *)
(* at that time.  A LeaveAll is sent even with no attribute to send.       *)
mvrp_txpdu(event, lva, reg) ==
    LET V == Vectorized(event)
    IN  IF V = {} /\ ~lva THEN NULL
        ELSE [lva |-> lva,
              msg |-> [v \in Vid |->
                         IF v \in V THEN Encode(Sndmsg(attrib[v].app, event), reg[v]) ELSE NULL]]

(* heard[v] records that a Join of v was sent, or a JoinIn or an In of v   *)
(* heard, since anybody last withdrew v, asked for it or sent a LeaveAll.  *)
Hearing(old, event) ==
    CASE event \in {"RJOININ", "RIN"} -> TRUE
      [] event \in {"RJOINMT", "RMT", "RLV"} -> FALSE
      [] OTHER -> old

Sending(old, p, v) ==
    IF p = NULL THEN old
    ELSE IF p.msg[v] \in {"NEW", "JOININ", "JOINMT"} THEN TRUE
    ELSE old /\ ~p.lva /\ p.msg[v] # "LV"

-----------------------------------------------------------------------------
Init ==
    /\ attrib = [v \in Vid |-> NULL]
    /\ join_timer = OFF /\ lv_timer = OFF
    /\ lva_timer \in LeaveAllTimes
    /\ periodic_timer = PeriodicTime
    /\ gc_timer = GcTime
    /\ sel = {}
    /\ rx = <<>> /\ saw_vlan_lva = FALSE
    /\ pdu = NULL
    /\ told = [v \in Vid |-> "LV"]
    /\ declared = [v \in Vid |-> FALSE]
    /\ heard = [v \in Vid |-> FALSE]

(* The descriptors, in the order in which process_events looks at them.    *)
Order == [ctl |-> 1, net |-> 2, lva |-> 3, lv |-> 4, join |-> 5, periodic |-> 6, gc |-> 7]

Expired(d) ==
    \/ d = "lva" /\ lva_timer = 0
    \/ d = "lv" /\ lv_timer = 0
    \/ d = "join" /\ join_timer = 0
    \/ d = "periodic" /\ periodic_timer = 0
    \/ d = "gc" /\ gc_timer = 0

Count(t) == IF t > 0 THEN t - 1 ELSE t

Idle == sel = {} /\ rx = <<>>

(* Time passes between two turns of the loop.                              *)
Tick ==
    /\ Idle
    /\ Punctual => ~\E d \in DOMAIN Order : Expired(d)
    /\ join_timer' = Count(join_timer)
    /\ lv_timer' = Count(lv_timer)
    /\ lva_timer' = Count(lva_timer)
    /\ periodic_timer' = Count(periodic_timer)
    /\ gc_timer' = Count(gc_timer)
    /\ pdu' = NULL
    /\ UNCHANGED <<attrib, sel, frame, told, declared, heard>>

(* select() returns the expired timers and the sockets with input.         *)
Select ==
    /\ Idle
    /\ \E input \in SUBSET {"ctl", "net"} : sel' = {d \in DOMAIN Order : Expired(d)} \cup input
    /\ sel' # {}
    /\ pdu' = NULL
    /\ UNCHANGED <<attrib, timers, frame, told, declared, heard>>

(* The next descriptor of the snapshot is d.                               *)
Turn(d) ==
    /\ rx = <<>>
    /\ d \in sel
    /\ \A other \in sel : Order[d] <= Order[other]
    /\ sel' = sel \ {d}

-----------------------------------------------------------------------------
(* mvrp_event for an event of a client or a peer about v: the applicant    *)
(* and the registrar take it, the attribute may be freed, the clients are  *)
(* notified.                                                               *)
mvrp_event(event, v) ==
    LET a   == Lookup(attrib[v])
        new == Applied(a, event)
    IN  /\ join_timer' = mrp_jointimer_start(join_timer, JoinTime)
        /\ IF Ignored(attrib[v], event)
           THEN UNCHANGED <<attrib, told, lv_timer>>
           ELSE /\ attrib' = [attrib EXCEPT ![v] = mvrp_conditional_reclaim(new)]
                /\ told' = [told EXCEPT ![v] = IF Reclaimable(new) THEN "LV"
                                               ELSE Told(@, NotifyOf(a, event))]
                /\ lv_timer' = mrp_lvtimer_start(StartsLeaveTimer(a.reg, Remap(event, a.reg)),
                                                 lv_timer, LeaveTime)
        /\ pdu' = NULL

(* mvrp_recv_cmd: a client declares v (V++ is NEW, V+? is JOIN) or         *)
(* withdraws it (V--).                                                     *)
Command(v, event) ==
    /\ Turn("ctl")
    /\ mvrp_event(event, v)
    /\ declared' = [declared EXCEPT ![v] = event # "LV"]
    /\ UNCHANGED <<lva_timer, periodic_timer, gc_timer, frame, heard>>

(* A query, BYE, or a command that is refused.                             *)
OtherCommand ==
    /\ Turn("ctl")
    /\ pdu' = NULL
    /\ UNCHANGED <<attrib, timers, frame, told, declared, heard>>

(* mvrp_recv_msg.  A frame that is not for MVRP, or malformed from the     *)
(* start, has no items.                                                    *)
mvrp_recv_msg(f) ==
    /\ Turn("net")
    /\ rx' = f
    /\ saw_vlan_lva' = FALSE
    /\ pdu' = NULL
    /\ UNCHANGED <<attrib, timers, told, declared, heard>>

ReceiveEvent ==
    /\ rx # <<>> /\ Head(rx) # LeaveAll
    /\ rx' = Tail(rx)
    /\ mvrp_event(Head(rx).event, Head(rx).vid)
    /\ heard' = [heard EXCEPT ![Head(rx).vid] = Hearing(@, Head(rx).event)]
    /\ UNCHANGED <<lva_timer, periodic_timer, gc_timer, sel, saw_vlan_lva, declared>>

(* mvrp_event(MRP_EVENT_RLA), for the first LeaveAll of the frame.         *)
ReceiveLeaveAll ==
    /\ rx # <<>> /\ Head(rx) = LeaveAll /\ ~saw_vlan_lva
    /\ rx' = Tail(rx)
    /\ saw_vlan_lva' = TRUE
    /\ attrib' = ForAll(LAMBDA a : Applied(a, "RLA"))
    /\ join_timer' = mrp_jointimer_start(join_timer, JoinTime)
    /\ lv_timer' = mrp_lvtimer_start(\E v \in Known : StartsLeaveTimer(attrib[v].reg, "RLA"),
                                     lv_timer, LeaveTime)
    /\ lva_timer' \in LeaveAllTimes
    /\ heard' = [v \in Vid |-> FALSE]
    /\ pdu' = NULL
    /\ UNCHANGED <<periodic_timer, gc_timer, sel, told, declared>>

SkipLeaveAll ==
    /\ rx # <<>> /\ Head(rx) = LeaveAll /\ saw_vlan_lva
    /\ rx' = Tail(rx)
    /\ pdu' = NULL
    /\ UNCHANGED <<attrib, timers, sel, saw_vlan_lva, told, declared, heard>>

-----------------------------------------------------------------------------
(* The timers.                                                             *)

(* The LeaveAll machine wakes up and is asked at once whether to send.     *)
LvaTimer ==
    LET awake == mrp_lvatimer_fsm("PASSIVE", "LVATIMER")
    IN  /\ Turn("lva")
        /\ attrib' = ForAll(LAMBDA a : Applied(a, "TXLA"))
        /\ lv_timer' = mrp_lvtimer_start(\E v \in Known : StartsLeaveTimer(attrib[v].reg, "TXLA"),
                                         lv_timer, LeaveTime)
        /\ join_timer' = OFF
        /\ lva_timer' \in LeaveAllTimes
        /\ pdu' = mvrp_txpdu("TXLA", mrp_lvatimer_fsm(awake.state, "TX").tx,
                             [v \in Known |-> mrp_registrar_fsm(attrib[v].reg, "TXLA")])
        /\ heard' = [v \in Vid |-> Sending(heard[v], pdu', v)]
        /\ UNCHANGED <<periodic_timer, gc_timer, frame, told, declared>>

LvTimer ==
    LET after(a) == [a EXCEPT !.reg = mrp_registrar_fsm(@, "LVTIMER")]
    IN  /\ Turn("lv")
        /\ lv_timer' = OFF
        /\ attrib' = ForAll(LAMBDA a : mvrp_conditional_reclaim(after(a)))
        /\ told' = [v \in Vid |->
                      IF v \notin Known THEN told[v]
                      ELSE IF Reclaimable(after(attrib[v])) THEN "LV"
                      ELSE Told(told[v], Notify(attrib[v].reg, "LVTIMER"))]
        /\ pdu' = NULL
        /\ UNCHANGED <<join_timer, lva_timer, periodic_timer, gc_timer, frame, declared, heard>>

JoinTimer ==
    LET next(a) == mrp_applicant_fsm(a.app, "TX", a.reg = "IN")
    IN  /\ Turn("join")
        /\ attrib' = ForAll(LAMBDA a : [a EXCEPT !.app = next(a)])
        /\ pdu' = mvrp_txpdu("TX", FALSE, [v \in Known |-> attrib[v].reg])
        /\ join_timer' = IF \E v \in Known : mrp_applicant_state_transition_implies_tx(
                                                 attrib[v].app, next(attrib[v]))
                         THEN mrp_jointimer_start(OFF, JoinTime) ELSE OFF
        /\ heard' = [v \in Vid |-> Sending(heard[v], pdu', v)]
        /\ UNCHANGED <<lv_timer, lva_timer, periodic_timer, gc_timer, frame, told, declared>>

(* Mutant: no transmission is asked for.                                   *)
PeriodicWithoutTx ==
    /\ Turn("periodic")
    /\ periodic_timer' = PeriodicTime
    /\ attrib' = ForAll(LAMBDA a : [a EXCEPT !.app = mrp_applicant_fsm(@, "PERIODIC", FALSE)])
    /\ pdu' = NULL
    /\ UNCHANGED <<join_timer, lv_timer, lva_timer, gc_timer, frame, told, declared, heard>>

PeriodicTimer ==
    /\ Turn("periodic")
    /\ periodic_timer' = PeriodicTime
    /\ attrib' = ForAll(LAMBDA a : [a EXCEPT !.app = mrp_applicant_fsm(@, "PERIODIC", FALSE)])
    /\ join_timer' = IF Known = {} THEN join_timer ELSE mrp_jointimer_start(join_timer, JoinTime)
    /\ pdu' = NULL
    /\ UNCHANGED <<lv_timer, lva_timer, gc_timer, frame, told, declared, heard>>

(* mrpd_reclaim, the garbage collection.                                   *)
GcTimer ==
    /\ Turn("gc")
    /\ gc_timer' = GcTime
    /\ attrib' = ForAll(mvrp_conditional_reclaim)
    /\ told' = [v \in Vid |-> IF v \in Known /\ Reclaimable(attrib[v]) THEN "LV" ELSE told[v]]
    /\ pdu' = NULL
    /\ UNCHANGED <<join_timer, lv_timer, lva_timer, periodic_timer, frame, declared, heard>>

-----------------------------------------------------------------------------
Serve ==
    \/ OtherCommand
    \/ \E v \in Vid, event \in LocalEvents : Command(v, event)
    \/ \E f \in Frames : mvrp_recv_msg(f)
    \/ ReceiveEvent \/ ReceiveLeaveAll \/ SkipLeaveAll
    \/ LvaTimer \/ LvTimer \/ JoinTimer \/ PeriodicTimer \/ GcTimer

Next == Tick \/ Select \/ Serve

Spec == Init /\ [][Next]_vars

-----------------------------------------------------------------------------
(* Type correctness: what the fields of the database and the timers hold.  *)
TypeOK ==
    /\ attrib \in [Vid -> Attribute \cup {NULL}]
    /\ join_timer \in Nat \cup {OFF} /\ lv_timer \in Nat \cup {OFF}
    /\ lva_timer \in Nat /\ periodic_timer \in Nat /\ gc_timer \in Nat
    /\ sel \subseteq DOMAIN Order
    /\ rx \in Seq(Item) /\ saw_vlan_lva \in BOOLEAN
    /\ pdu \in Pdu \cup {NULL}
    /\ told \in [Vid -> {"NEW", "JOIN", "LV"}]
    /\ declared \in [Vid -> BOOLEAN] /\ heard \in [Vid -> BOOLEAN]

Is(v, A, R) == v \in Known /\ attrib[v].app \in A /\ attrib[v].reg \in R

Declaring == {"VP", "VN", "AN", "AA", "QA", "AP", "QP"}

(* The leave timer is shared by all registrars (mrp_registrar_fsm): it is  *)
(* never stopped while one of them is still leaving.                       *)
LeavingIsTimed == \A v \in Vid : Is(v, ApplicantStates, {"LV"}) => lv_timer # OFF

(* The applicant keeps what the clients asked for: whatever peers say and  *)
(* timers do, a VID is declared exactly when its last command was V++ or   *)
(* V+?, and its attribute is not freed before V--.                         *)
DeclarationKept == \A v \in Vid : declared[v] <=> Is(v, Declaring, RegistrarStates)

(* The last notification the clients got about a VID agrees with the       *)
(* registrar: VLE when it is gone, VJO or VNE while it is registered; a    *)
(* client's own V++ is also reported by VNE.                               *)
ClientsAreRight ==
    \A v \in Vid :
        /\ Is(v, ApplicantStates, {"IN"}) => told[v] # "LV"
        /\ told[v] = "JOIN" => Is(v, ApplicantStates, {"IN", "LV"})
        /\ told[v] = "NEW" => declared[v] \/ Is(v, ApplicantStates, {"IN", "LV"})

Quiet == {"QA", "QP", "QO"}

(* An applicant is quiet only when the peers have heard the declaration    *)
(* since anybody last made them forget it: in QA and QP it will not send   *)
(* by itself before the next periodic event, and a quiet observer (QO)     *)
(* becomes QP when a client joins, counting on what others have sent.      *)
QuietIsHeard == \A v \in Vid : Is(v, Quiet, RegistrarStates) => heard[v]

(* A PDU declares only what a client has declared, although mrpd fills its *)
(* vectors with VIDs that it need not send (mvrp_emit_vidvectors).         *)
OnlyDeclaredIsSent ==
    pdu # NULL => \A v \in Vid : pdu.msg[v] \in {"NEW", "JOININ", "JOINMT"} => declared[v]

(* A withdrawal is not forgotten: an applicant leaves the LA state only by *)
(* sending the Leave, by a LeaveAll of its own, or because a client wants  *)
(* the VID again.                                                          *)
WithdrawalIsSent ==
    [][\A v \in Vid : Is(v, {"LA"}, RegistrarStates) /\ ~Is(v, {"LA"}, RegistrarStates)' =>
          \/ declared'[v]
          \/ pdu' # NULL /\ (pdu'.lva \/ pdu'.msg[v] = "LV")]_vars

-----------------------------------------------------------------------------
(* The loop goes on whatever arrives, and time passes while it does.       *)
Fairness == WF_vars(Select) /\ WF_vars(Serve) /\ SF_vars(Tick)

FairSpec == Spec /\ Fairness

(* What a client declares reaches the peers, unless it is withdrawn before *)
(* that.  Sending a LeaveAll stops the join timer, and not every declared  *)
(* VID is declared again in it: the periodic timer must start the next     *)
(* transmission before the LeaveAll timer comes round again.               *)
DeclarationIsSent == \A v \in Vid : declared[v] ~> (heard[v] \/ ~declared[v])

(* A withdrawal does not stay unsent.                                      *)
WithdrawalEnds == \A v \in Vid : Is(v, {"LA"}, RegistrarStates) ~> ~Is(v, {"LA"}, RegistrarStates)

(* The leave timer "controls how long the Registrar state machine stays in *)
(* the LV state before transitioning to the MT state" (mrp.c): it has run  *)
(* out when the registrar gives an attribute up.                           *)
LeaveTimeIsKept ==
    [][\A v \in Vid : Is(v, ApplicantStates, {"LV"}) /\ ~Is(v, ApplicantStates, {"LV", "IN"})'
                      /\ told'[v] = "LV" => lv_timer = 0]_vars

(* ... and a registrar does not stay in the LV state for ever.             *)
LeavingEnds ==
    \A v \in Vid : Is(v, ApplicantStates, {"LV"}) ~> ~Is(v, ApplicantStates, {"LV"})
=============================================================================
