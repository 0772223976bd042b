----------------------------- MODULE MaapProofs -----------------------------
(***************************************************************************)
(* Proof that Consistent is an invariant of the MAAP daemon, for every     *)
(* pool, every bound and every sequence of commands, packets and timeouts. *)
(* There is one step lemma for each action of Maap.                        *)
(***************************************************************************)
EXTENDS MaapLemmas

(* The part of Consistent about the control state of the daemon, and the   *)
(* rest of it.                                                             *)
Control ==
    /\ timer \in Nat
    /\ pc \in PCs /\ ret \in {"top", "packets", "commands"}
    /\ pkt \in PktType \cup {NULL}
    /\ num_overlaps \in Nat
    /\ pc = "conflict" => pkt # NULL
    /\ pc = "stopped" => ~initialized

Rest ==
    /\ Control
    /\ initialized \in BOOLEAN
    /\ maxid \in 0 .. MaxId
    /\ ~initialized => Allocated = {} /\ ranges = {} /\ timer_queue = <<>>

Inv == Linked(range, ranges, timer_queue, maxid) /\ Rest

(* The invariant used in the proofs, written over one predicate of heap,   *)
(* tree and queue, is Consistent.                                          *)
LEMMA InvIsConsistent == Consistent <=> Inv
<1> USE ConstAssumption
<1>1. \A r \in Ptr : r \in Live <=> LiveAt(range, r)
  BY DEF Live, Allocated, LiveAt
<1>2. \A r \in Ptr : r \in Allocated <=> range[r] # NULL
  BY DEF Allocated
<1>3. Live \subseteq Ptr /\ Allocated \subseteq Ptr
  BY DEF Live, Allocated
<1>4. ASSUME Consistent PROVE Inv
  <2>1. \A r \in Ptr : LiveAt(range, r) =>
            range[r].interval \in Interval /\ NodeOf(range[r].interval, r) \in ranges
    <3> SUFFICES ASSUME NEW r \in Ptr, LiveAt(range, r)
                 PROVE  range[r].interval \in Interval /\ NodeOf(range[r].interval, r) \in ranges
      OBVIOUS
    <3>1. range[r] \in RangeObj
      BY <1>4 DEF Consistent, TypeOK, LiveAt
    <3>2. range[r].interval \in Interval \cup {NULL}
      BY <3>1 DEF RangeObj
    <3>3. range[r].interval # NULL /\ NodeOf(range[r].interval, r) \in ranges
      BY <1>1, <1>4 DEF Consistent, QueueTreeAgree
    <3> QED BY <3>2, <3>3
  <2>2. \A n \in ranges : n.data # NULL =>
            /\ n.data \in Ptr
            /\ LiveAt(range, n.data)
            /\ n = NodeOf(range[n.data].interval, n.data)
    BY <1>1, <1>3, <1>4 DEF Consistent, QueueTreeAgree
  <2>3. /\ range \in [Ptr -> RangeObj \cup {NULL}] /\ ranges \in SUBSET Node
        /\ timer_queue \in Seq(Ptr)
    BY <1>4 DEF Consistent, TypeOK
  <2>4. /\ Injective(timer_queue)
        /\ \A r \in Ptr : range[r] # NULL <=> In(r, timer_queue)
    BY <1>2, <1>4 DEF Consistent, QueueTreeAgree, Injective, In
  <2>5. \A r \in Ptr : range[r] # NULL => range[r].id <= maxid
    BY <1>2, <1>4 DEF Consistent
  <2>6. /\ \A n \in ranges : n.low <= n.high
        /\ \A a, b \in ranges : a # b => ~check_overlap(a, b)
    BY <1>4 DEF Consistent, Disjoint
  <2>7. \A r, s \in Ptr : LiveAt(range, r) /\ LiveAt(range, s) /\ range[r].id = range[s].id => r = s
    BY <1>1, <1>4 DEF Consistent, OneLiveRangePerId
  <2>8. Linked(range, ranges, timer_queue, maxid)
    BY <2>1, <2>2, <2>3, <2>4, <2>5, <2>6, <2>7 DEF Linked
  <2>9. Rest
    BY <1>4 DEF Consistent, TypeOK, Rest, Control
  <2> QED BY <2>8, <2>9 DEF Inv
<1>5. ASSUME Inv PROVE Consistent
  <2> USE <1>5 DEF Inv
  <2>1. TypeOK
    BY DEF Linked, Rest, Control, TypeOK
  <2>2. QueueTreeAgree
    <3>1. \A r \in Live : range[r].interval # NULL /\ NodeOf(range[r].interval, r) \in ranges
      BY <1>1, <1>3 DEF Linked
    <3>2. \A n \in ranges : n.data # NULL =>
            n.data \in Live /\ n = NodeOf(range[n.data].interval, n.data)
      BY <1>1 DEF Linked
    <3> QED BY <1>2, <3>1, <3>2 DEF Linked, QueueTreeAgree, Injective, In
  <2>3. Disjoint
    BY DEF Linked, Disjoint
  <2>4. OneLiveRangePerId
    BY <1>1, <1>3 DEF Linked, OneLiveRangePerId
  <2>5. \A r \in Allocated : range[r].id <= maxid
    BY <1>2, <1>3 DEF Linked
  <2> QED BY <2>1, <2>2, <2>3, <2>4, <2>5 DEF Rest, Control, Consistent
<1> QED BY <1>4, <1>5

(* The daemon starts with empty heap, tree and queue: the invariant holds. *)
LEMMA InitInv == Init => Inv
<1> SUFFICES ASSUME Init PROVE Inv
  OBVIOUS
<1> USE ConstAssumption DEF Init
<1>1. \A r \in Ptr : range[r] = NULL
  OBVIOUS
<1>2. Allocated = {}
  BY <1>1 DEF Allocated
<1>3. Linked(range, ranges, timer_queue, maxid)
  BY <1>1 DEF Linked, LiveAt, Injective, In
<1>4. maxid \in 0 .. MaxId /\ timer \in Nat /\ num_overlaps \in Nat
  OBVIOUS
<1>5. initialized \in BOOLEAN /\ ~initialized
  BY Zenon
<1>6. /\ pc \in PCs /\ ret \in {"top", "packets", "commands"}
      /\ pkt \in PktType \cup {NULL}
      /\ pc # "conflict" /\ pc # "stopped"
  BY DEF PCs
<1>7. Rest
  BY <1>2, <1>4, <1>5, <1>6 DEF Rest, Control
<1> QED BY <1>3, <1>7 DEF Inv

(* A step that touches neither the heap nor the tree, the queue and maxid  *)
(* keeps the invariant.                                                    *)
LEMMA KeepCoreLemma ==
    ASSUME Inv, UNCHANGED <<initialized, range, ranges, timer_queue, maxid>>, Control'
    PROVE  Inv'
<1>1. Linked(range', ranges', timer_queue', maxid')
  BY DEF Inv
<1>2. Allocated' = Allocated
  BY DEF Allocated
<1>3. (initialized \in BOOLEAN)' /\ (maxid \in 0 .. MaxId)'
  BY DEF Inv, Rest
<1>4. (~initialized)' => Allocated' = {} /\ ranges' = {} /\ timer_queue' = <<>>
  BY <1>2 DEF Inv, Rest
<1> QED BY <1>1, <1>3, <1>4 DEF Inv, Rest

(* For a step of an initialized server the invariant is that of its links  *)
(* and its control state.                                                  *)
LEMMA NewCoreLemma ==
    ASSUME initialized' = TRUE, Control', maxid' \in 0 .. MaxId,
           Linked(range', ranges', timer_queue', maxid')
    PROVE  Inv'
BY DEF Inv, Rest

(* start_timer sets the timer to a time: the Range at the head of the      *)
(* queue is allocated.                                                     *)
LEMMA StartTimerLemma ==
    ASSUME NEW h, NEW t, NEW q, NEW m, Linked(h, t, q, m), timer \in Nat
    PROVE  start_timer(h, q) \in Nat
<1>1. CASE q = <<>>
  BY <1>1 DEF start_timer
<1>2. CASE q # <<>>
  <2>1. Head(q) \in Ptr /\ 1 \in DOMAIN q /\ q[1] = Head(q)
    BY <1>2 DEF Linked
  <2>2. h[Head(q)] # NULL
    BY <2>1 DEF Linked, In
  <2>3. h[Head(q)] \in RangeObj
    BY <2>1, <2>2 DEF Linked
  <2>4. h[Head(q)].next_act_time \in Nat
    BY <2>3 DEF RangeObj
  <2> QED BY <1>2, <2>4 DEF start_timer
<1> QED BY <1>1, <1>2

(* A Range that is not in use has no node in the tree.                     *)
LEMMA UnlinkedLemma ==
    ASSUME NEW h, NEW t, NEW q, NEW m, Linked(h, t, q, m), NEW r \in Ptr, ~LiveAt(h, r)
    PROVE  remove_interval(t, r) = t
<1>1. \A n \in t : n.data # r
  BY ConstAssumption DEF Linked
<1> QED BY <1>1 DEF remove_interval

(* A Range that is not released holds a non-empty interval, and exists     *)
(* only in an initialized server.                                          *)
LEMMA LiveFactsLemma ==
    ASSUME Inv, NEW r \in Live
    PROVE  /\ r \in Ptr /\ LiveAt(range, r) /\ range[r] \in RangeObj
           /\ range[r].interval \in Interval /\ range[r].interval.low <= range[r].interval.high
           /\ Length(range[r].interval) \in Nat \ {0}
           /\ initialized
<1>1. r \in Ptr /\ LiveAt(range, r) /\ range[r] # NULL /\ r \in Allocated
  BY DEF Live, Allocated, LiveAt
<1>2. range[r] \in RangeObj
  BY <1>1 DEF Inv, Linked
<1>3. range[r].interval \in Interval /\ NodeOf(range[r].interval, r) \in ranges
  BY <1>1 DEF Inv, Linked
<1>4. range[r].interval.low <= range[r].interval.high
  BY <1>3 DEF Inv, Linked, NodeOf
<1>5. Length(range[r].interval) \in Nat \ {0}
  BY <1>3, <1>4, ConstAssumption DEF Length, Interval, Offsets
<1>6. initialized
  BY <1>1 DEF Inv, Rest
<1> QED BY <1>1, <1>2, <1>3, <1>4, <1>5, <1>6

-----------------------------------------------------------------------------
(* The steps of the main loop that only move control (sending, select()    *)
(* returning, the ends of the loops of maap_handle_packet and              *)
(* maap_handle_timer, a failed assert) keep the invariant.                 *)
LEMMA StepsThatKeepCore ==
    ASSUME Inv, \/ ServeQueues \/ EndOfTurn \/ EndPacket \/ Timeout \/ EndTimer \/ ConflictAborts
    PROVE  Inv'
<1> USE DEF PCs
<1>0. Control /\ timer \in Nat /\ Linked(range, ranges, timer_queue, maxid)
  BY DEF Inv, Rest, Control
<1>1. CASE ServeQueues
  <2>1. Control'
    BY <1>0, <1>1 DEF Control, ServeQueues
  <2> QED BY <1>1, <2>1, KeepCoreLemma DEF ServeQueues
<1>2. CASE EndOfTurn
  <2>1. Control'
    BY <1>0, <1>2 DEF Control, EndOfTurn
  <2> QED BY <1>2, <2>1, KeepCoreLemma DEF EndOfTurn
<1>3. CASE EndPacket
  <2>1. Control'
    BY <1>0, <1>3, StartTimerLemma DEF Control, EndPacket
  <2> QED BY <1>3, <2>1, KeepCoreLemma DEF EndPacket
<1>4. CASE Timeout
  <2>1. Control'
    BY <1>0, <1>4 DEF Control, Timeout
  <2> QED BY <1>4, <2>1, KeepCoreLemma DEF Timeout
<1>5. CASE EndTimer
  <2>1. Control'
    BY <1>0, <1>5, StartTimerLemma DEF Control, EndTimer
  <2> QED BY <1>5, <2>1, KeepCoreLemma DEF EndTimer
<1>6. CASE ConflictAborts
  <2>1. Control'
    BY <1>0, <1>6 DEF Control, ConflictAborts, Abort
  <2> QED BY <1>6, <2>1, KeepCoreLemma DEF ConflictAborts, Abort
<1> QED BY <1>1, <1>2, <1>3, <1>4, <1>5, <1>6

(* The passing of time keeps the invariant.                                *)
LEMMA TickStep == Inv /\ Tick => Inv'
<1> SUFFICES ASSUME Inv, Tick PROVE Inv'
  OBVIOUS
<1> USE ConstAssumption
<1>1. Linked(range, ranges, timer_queue, maxid)
  BY DEF Inv
<1>2. ASSUME NEW r \in Ptr
      PROVE  /\ range'[r] \in RangeObj \cup {NULL}
             /\ range'[r] = NULL <=> range[r] = NULL
             /\ range[r] # NULL => /\ range'[r].id = range[r].id
                                   /\ range'[r].interval = range[r].interval
                                   /\ range'[r].state = range[r].state
  <2>1. range'[r] = IF range[r] = NULL \/ range[r].next_act_time = 0 THEN range[r]
                    ELSE [range[r] EXCEPT !.next_act_time = @ - 1]
    BY DEF Tick
  <2>2. range[r] \in RangeObj \cup {NULL}
    BY <1>1 DEF Linked
  <2>3. CASE range[r] = NULL \/ range[r].next_act_time = 0
    BY <2>1, <2>2, <2>3
  <2>4. CASE ~(range[r] = NULL \/ range[r].next_act_time = 0)
    <3>1. [range[r] EXCEPT !.next_act_time = @ - 1] \in RangeObj
      BY <2>2, <2>4 DEF RangeObj
    <3> QED BY <2>1, <2>2, <2>4, <3>1 DEF RangeObj
  <2> QED BY <2>3, <2>4
<1>3. range' \in [Ptr -> RangeObj \cup {NULL}]
  <2>1. range' = [r \in Ptr |-> range'[r]]
    BY DEF Tick
  <2> QED BY <1>2, <2>1
<1>4. timer_queue \in Seq(Ptr) /\ Injective(timer_queue)
  BY <1>1 DEF Linked
<1>5. Linked(range', ranges, timer_queue, maxid)
  BY <1>1, <1>2, <1>3, <1>4, TouchLemma
<1>6. Allocated' = Allocated
  BY <1>2 DEF Allocated
<1>7. Control'
  BY DEF Inv, Rest, Control, Tick
<1> QED BY <1>5, <1>6, <1>7 DEF Inv, Rest, Tick

(* A failed assert() changes nothing that the invariant speaks about.      *)
LEMMA AbortStep == Inv /\ Abort => Inv'
<1> SUFFICES ASSUME Inv, Abort PROVE Inv'
  OBVIOUS
<1>1. Control'
  BY DEF Inv, Rest, Control, Abort, PCs
<1> QED BY <1>1, KeepCoreLemma DEF Abort

(* Serving a command leaves the control state well typed.                  *)
LEMMA CommandControlLemma ==
    ASSUME Inv, CommandTurn, timer' \in Nat
    PROVE  Control'
BY DEF Inv, Rest, Control, CommandTurn, PCs

(* A command that is only answered keeps the invariant.                    *)
LEMMA ReplyStep ==
    ASSUME Inv, CommandTurn, NEW note, Reply(note)
    PROVE  Inv'
<1>1. timer' \in Nat
  BY DEF Inv, Rest, Control, Reply
<1>2. Control'
  BY <1>1, CommandControlLemma
<1> QED BY <1>2, KeepCoreLemma DEF Reply

(* maap_init_client keeps the invariant: when it empties tree and queue    *)
(* there was nothing in them.                                              *)
LEMMA InitClientStep ==
    ASSUME Inv, NEW sender \in Sender, NEW matches \in BOOLEAN,
           maap_init_client(sender, matches)
    PROVE  Inv'
<1>1. CASE \E note : Reply(note)
  BY <1>1, ReplyStep DEF maap_init_client
<1>2. CASE ~ \E note : Reply(note)
  <2>1. /\ ~initialized /\ initialized' = TRUE
        /\ ranges' = {} /\ timer_queue' = <<>> /\ maxid' = 0
        /\ range' = range /\ timer' = timer
        /\ CommandTurn
    BY <1>2 DEF maap_init_client
  <2>2. \A r \in Ptr : range[r] = NULL
    BY <2>1 DEF Inv, Rest, Allocated
  <2>3. range \in [Ptr -> RangeObj \cup {NULL}]
    BY DEF Inv, Linked
  <2>4. Linked(range', ranges', timer_queue', maxid')
    BY <2>1, <2>2, <2>3 DEF Linked, LiveAt, Injective, In
  <2>5. timer' \in Nat
    BY <2>1 DEF Inv, Rest, Control
  <2>6. Control'
    BY <2>1, <2>5, CommandControlLemma
  <2>7. maxid' \in 0 .. MaxId
    BY <2>1, ConstAssumption
  <2> QED BY <2>1, <2>4, <2>6, <2>7, NewCoreLemma
<1> QED BY <1>1, <1>2

(* The Range that maap_reserve_range and a yield fill in is well formed.   *)
LEMMA NewRangeLemma ==
    ASSUME NEW id \in 1 .. MaxId, NEW iv \in Interval, NEW sender \in Sender,
           NEW delay \in ProbeDelays
    PROVE  NewRange(id, iv, sender, delay) \in RangeObj
<1>1. Retransmits \in 0 .. Retransmits /\ delay \in Nat
  BY ConstAssumption
<1> QED BY <1>1 DEF NewRange, RangeObj, States

(* maap_reserve_range keeps the invariant, in its four error cases, when   *)
(* assign_interval fails (with or without a leftover node) and when it     *)
(* succeeds.                                                               *)
LEMMA ReserveStep ==
    ASSUME Inv, NEW sender \in Sender, NEW base \in AttemptBases, NEW len \in Lengths,
           maap_reserve_range(sender, base, len)
    PROVE  Inv'
<1> USE ConstAssumption
<1>0. CommandTurn /\ base \in Nat /\ len \in Nat \ {0}
  BY DEF maap_reserve_range
<1>1. CASE \E note : Reply(note)
  BY <1>0, <1>1, ReplyStep
<1>2. CASE ~ \E note : Reply(note)
  <2>1. initialized /\ maxid < MaxId /\ maxid' = maxid + 1 /\ initialized' = initialized
    BY <1>2 DEF maap_reserve_range
  <2>2. PICK out \in assign_interval(base, len) :
          \/ /\ out.iv = NULL
             /\ ranges' = ranges \cup Leftover(out)
             /\ UNCHANGED <<range, timer_queue, timer, net>>
          \/ /\ out.iv # NULL
             /\ \E r \in Ptr \ Allocated, delay \in ProbeDelays :
                  Reserved(r, NewRange(maxid + 1, out.iv, sender, delay), ranges)
             /\ timer' = start_timer(range', timer_queue')
    BY <1>2 DEF maap_reserve_range
  <2>3. maxid \in Nat /\ maxid + 1 \in Nat /\ maxid <= maxid + 1 /\ maxid + 1 \in 1 .. MaxId
    BY <2>1 DEF Inv, Rest
  <2>4. Linked(range, ranges, timer_queue, maxid)
    BY DEF Inv
  <2>5. Linked(range, ranges, timer_queue, maxid')
    BY <2>1, <2>3, <2>4, MoreIdsLemma
  <2>6. initialized' = TRUE /\ maxid' \in 0 .. MaxId
    BY <2>1, <2>3 DEF Inv, Rest
  <2>t. timer \in Nat
    BY DEF Inv, Rest, Control
  <2>7. CASE out.iv = NULL
    <3>1. UNCHANGED <<range, timer_queue, timer>> /\ ranges' = ranges \cup Leftover(out)
      BY <2>2, <2>7
    <3>2. Linked(range', ranges', timer_queue', maxid')
      <4>1. CASE out.left = NULL
        BY <2>5, <3>1, <4>1 DEF Leftover
      <4>2. CASE out.left # NULL
        <5>1. /\ out.left \in Interval /\ out.left.low <= out.left.high
              /\ \A n \in ranges : ~check_overlap(n, out.left)
          BY <1>0, <4>2, AssignLemma
        <5>2. ranges' = ranges \cup {NodeOf(out.left, NULL)}
          BY <3>1, <4>2 DEF Leftover
        <5>3. Linked(range, ranges \cup {NodeOf(out.left, NULL)}, timer_queue, maxid')
          BY <2>5, <5>1, LeftoverLemma
        <5> QED BY <3>1, <5>2, <5>3
      <4> QED BY <4>1, <4>2
    <3>3. Control'
      BY <1>0, <2>t, <3>1, CommandControlLemma
    <3> QED BY <2>6, <3>2, <3>3, NewCoreLemma
  <2>8. CASE out.iv # NULL
    <3>1. PICK r \in Ptr \ Allocated, delay \in ProbeDelays :
            Reserved(r, NewRange(maxid + 1, out.iv, sender, delay), ranges)
      BY <2>2, <2>8
    <3> DEFINE rec == NewRange(maxid + 1, out.iv, sender, delay)
               heap == [range EXCEPT ![r] = rec]
               queue == schedule_timer(timer_queue, heap, r)
    <3>2. /\ out.iv \in Interval /\ out.iv.low <= out.iv.high
          /\ \A n \in ranges : ~check_overlap(n, out.iv)
      BY <1>0, <2>8, AssignLemma
    <3>3. rec \in RangeObj
      BY <2>3, <3>2, NewRangeLemma
    <3>4. rec.id = maxid' /\ rec.interval = out.iv /\ rec.state # "RELEASED"
      BY <2>1 DEF NewRange
    <3>5. range' = heap /\ timer_queue' = queue /\ ranges' = ranges \cup {NodeOf(out.iv, r)}
      BY <3>1, <3>4 DEF Reserved
    <3> HIDE DEF rec
    <3>6. r \in Ptr /\ range[r] = NULL /\ ~LiveAt(range, r)
      BY DEF Allocated, LiveAt
    <3>7. timer_queue \in Seq(Ptr) /\ Injective(timer_queue)
      BY <2>4 DEF Linked
    <3>8. /\ queue \in Seq(Ptr) /\ Injective(queue)
          /\ \A s \in Ptr : In(s, queue) <=> In(s, timer_queue) \/ s = r
      <4> HIDE DEF heap
      <4> QED BY <3>6, <3>7, ScheduleLemma
    <3>9. \A s \in Ptr : s # r /\ LiveAt(range, s) => range[s].id # rec.id
      <4> SUFFICES ASSUME NEW s \in Ptr, LiveAt(range, s) PROVE range[s].id # rec.id
        OBVIOUS
      <4>1. range[s] \in RangeObj /\ range[s].id <= maxid
        BY <2>4 DEF Linked, LiveAt
      <4>2. range[s].id \in Int
        BY <4>1 DEF RangeObj
      <4> QED BY <2>1, <2>3, <3>4, <4>1, <4>2
    <3>10. remove_interval(ranges, r) = ranges
      BY <2>4, <3>6, UnlinkedLemma
    <3> HIDE DEF queue
    <3>11. rec.id <= maxid'
      BY <2>1, <2>3, <3>4
    <3>12. Linked(heap, remove_interval(ranges, r) \cup {NodeOf(rec.interval, r)}, queue, maxid')
      <4> USE <2>5, <3>2, <3>3, <3>4, <3>6, <3>8, <3>9, <3>11
      <4> QED BY PlaceLemma
    <3>13. Linked(range', ranges', timer_queue', maxid')
      BY <3>4, <3>5, <3>10, <3>12
    <3>14. timer' \in Nat
      <4>1. timer' = start_timer(range', timer_queue')
        BY <2>2, <2>8
      <4> QED BY <2>t, <3>13, <4>1, StartTimerLemma
    <3>15. Control'
      BY <1>0, <3>14, CommandControlLemma
    <3> QED BY <2>6, <3>13, <3>15, NewCoreLemma
  <2> QED BY <2>7, <2>8
<1> QED BY <1>1, <1>2

(* maap_release_range keeps the invariant.                                 *)
LEMMA ReleaseStep ==
    ASSUME Inv, NEW sender \in Sender, NEW id \in 1 .. MaxId, maap_release_range(sender, id)
    PROVE  Inv'
<1>1. CASE CommandTurn /\ \E note : Reply(note)
  BY <1>1, ReplyStep
<1>2. CASE Abort
  BY <1>2, AbortStep
<1>3. CASE ~(CommandTurn /\ \E note : Reply(note)) /\ ~Abort
  <2>1. /\ CommandTurn /\ initialized
        /\ UNCHANGED <<initialized, timer_queue, timer, maxid, net>>
        /\ \E r \in Found(id, {"PROBING", "DEFENDING"}) :
             /\ ranges' = remove_interval(ranges, r)
             /\ range' = [range EXCEPT ![r] = Released(r)]
    BY <1>3 DEF maap_release_range
  <2>2. PICK r \in Found(id, {"PROBING", "DEFENDING"}) :
             /\ ranges' = remove_interval(ranges, r)
             /\ range' = [range EXCEPT ![r] = Released(r)]
    BY <2>1
  <2>3. r \in Live
    BY DEF Found, Live
  <2>4. r \in Ptr /\ LiveAt(range, r) /\ range[r] \in RangeObj
    BY <2>3, LiveFactsLemma
  <2>5. Released(r) \in RangeObj /\ Released(r).state = "RELEASED" /\ Released(r).id = range[r].id
    BY <2>4 DEF Released, RangeObj, States
  <2>6. Linked(range, ranges, timer_queue, maxid)
    BY DEF Inv
  <2>7. Linked(range', ranges', timer_queue', maxid')
    BY <2>1, <2>2, <2>4, <2>5, <2>6, DropLemma
  <2>8. timer' \in Nat /\ maxid' \in 0 .. MaxId
    BY <2>1 DEF Inv, Rest, Control
  <2>9. Control'
    BY <2>1, <2>8, CommandControlLemma
  <2>10. initialized' = TRUE
    BY <2>1 DEF Inv, Rest
  <2> QED BY <2>7, <2>8, <2>9, <2>10, NewCoreLemma
<1> QED BY <1>1, <1>2, <1>3

(* maap_range_status keeps the invariant.                                  *)
LEMMA StatusStep ==
    ASSUME Inv, NEW sender \in Sender, NEW id \in 1 .. MaxId, maap_range_status(sender, id)
    PROVE  Inv'
<1>1. CommandTurn /\ \E note : Reply(note)
  BY DEF maap_range_status
<1> QED BY <1>1, ReplyStep

-----------------------------------------------------------------------------
(* Flagging the Ranges that overlap a packet keeps the invariant.          *)
LEMMA BeginPacketStep ==
    ASSUME Inv, NEW p \in PktType, NEW from \in {"packets", "commands"}, initialized,
           BeginPacket(p, from)
    PROVE  Inv'
<1> USE ConstAssumption
<1>1. Linked(range, ranges, timer_queue, maxid)
  BY DEF Inv
<1>2. \A n \in Overlapped(p) : n.data \in Ptr /\ LiveAt(range, n.data)
  <2> TAKE n \in Overlapped(p)
  <2>1. n \in ranges /\ n.data # NULL
    BY DEF Overlapped, BeginPacket, Hit
  <2> QED BY <1>1, <2>1 DEF Linked
<1>3. \A r \in Hit(p) : r \in Ptr /\ range[r] # NULL
  BY <1>2 DEF Hit, LiveAt
<1>4. range' = [r \in Ptr |-> IF r \in Hit(p) THEN [range[r] EXCEPT !.overlapping = TRUE]
                              ELSE range[r]]
  BY DEF BeginPacket
<1>5. ASSUME NEW r \in Ptr
      PROVE  /\ range'[r] \in RangeObj \cup {NULL}
             /\ range'[r] = NULL <=> range[r] = NULL
             /\ range[r] # NULL => /\ range'[r].id = range[r].id
                                   /\ range'[r].interval = range[r].interval
                                   /\ range'[r].state = range[r].state
  <2>1. range[r] \in RangeObj \cup {NULL}
    BY <1>1 DEF Linked
  <2>2. CASE r \notin Hit(p)
    BY <1>4, <2>1, <2>2
  <2>3. CASE r \in Hit(p)
    <3>1. range[r] \in RangeObj
      BY <1>3, <2>1, <2>3
    <3>2. range'[r] = [range[r] EXCEPT !.overlapping = TRUE]
      BY <1>4, <2>3
    <3>3. [range[r] EXCEPT !.overlapping = TRUE] \in RangeObj
      BY <3>1 DEF RangeObj
    <3> QED BY <3>1, <3>2, <3>3 DEF RangeObj
  <2> QED BY <2>2, <2>3
<1>6. range' \in [Ptr -> RangeObj \cup {NULL}]
  BY <1>4, <1>5
<1>7. timer_queue \in Seq(Ptr) /\ Injective(timer_queue)
  BY <1>1 DEF Linked
<1>8. Linked(range', ranges, timer_queue, maxid)
  BY <1>1, <1>5, <1>6, <1>7, TouchLemma
<1>9. Linked(range', ranges', timer_queue', maxid')
  BY <1>8 DEF BeginPacket
<1>10. Cardinality(Hit(p)) \in Nat
  <2>1. IsFiniteSet(Hit(p))
    BY <1>3, FS_Subset
  <2> QED BY <2>1, FS_CardinalityType
<1>11. Control'
  BY <1>10 DEF Inv, Rest, Control, BeginPacket, PCs
<1>12. initialized' = TRUE /\ maxid' \in 0 .. MaxId
  BY DEF Inv, Rest, BeginPacket
<1> QED BY <1>9, <1>11, <1>12, NewCoreLemma

(* Receiving a packet keeps the invariant.                                 *)
LEMMA ReceivePacketStep ==
    ASSUME Inv, NEW p \in Packets, ReceivePacket(p)
    PROVE  Inv'
<1>1. p \in PktType /\ initialized
  BY ConstAssumption DEF ReceivePacket
<1>2. CASE Abort
  BY <1>2, AbortStep
<1>3. CASE BeginPacket(p, "packets")
  BY <1>1, <1>3, BeginPacketStep
<1> QED BY <1>2, <1>3 DEF ReceivePacket

(* maap_yield_range keeps the invariant.                                   *)
LEMMA YieldCommandStep ==
    ASSUME Inv, NEW sender \in Sender, NEW id \in 1 .. MaxId, maap_yield_range(sender, id)
    PROVE  Inv'
<1> USE ConstAssumption
<1>1. CASE CommandTurn /\ \E note : Reply(note)
  BY <1>1, ReplyStep
<1>2. CASE ~(CommandTurn /\ \E note : Reply(note))
  <2> DEFINE p(r) == [type |-> "ANNOUNCE", SA |-> ConflictMac,
                      start |-> AddressBase + range[r].interval.low,
                      count |-> range[r].interval.high - range[r].interval.low + 1]
  <2>1. initialized /\ \E r \in Found(id, {"DEFENDING"}) : BeginPacket(p(r), "commands")
    BY <1>2 DEF maap_yield_range
  <2>2. PICK r \in Found(id, {"DEFENDING"}) : BeginPacket(p(r), "commands")
    BY <2>1
  <2>3. r \in Live
    BY DEF Found, Live
  <2>4. /\ range[r].interval \in Interval
        /\ range[r].interval.low <= range[r].interval.high
    BY <2>3, LiveFactsLemma
  <2>5. p(r) \in PktType
    BY <2>4 DEF PktType, PktTypes, Interval, Offsets
  <2> HIDE DEF p
  <2> QED BY <2>1, <2>2, <2>5, BeginPacketStep
<1> QED BY <1>1, <1>2

-----------------------------------------------------------------------------
(* A conflict that a Range survives keeps the links.                       *)
LEMMA KeepRangeStep ==
    ASSUME Inv, NEW r \in Live, KeepRange(r), UNCHANGED maxid
    PROVE  Linked(range', ranges', timer_queue', maxid')
<1>1. Linked(range, ranges, timer_queue, maxid)
  BY DEF Inv
<1>2. /\ range' = [range EXCEPT ![r].overlapping = FALSE]
      /\ UNCHANGED <<ranges, timer_queue>>
  BY DEF KeepRange, Unflag
<1>3. r \in Ptr /\ range[r] \in RangeObj /\ range \in [Ptr -> RangeObj \cup {NULL}]
  BY <1>1, LiveFactsLemma DEF Linked
<1>4. [range[r] EXCEPT !.overlapping = FALSE] \in RangeObj
  BY <1>3 DEF RangeObj
<1>5. range' = [range EXCEPT ![r] = [range[r] EXCEPT !.overlapping = FALSE]]
  BY <1>2, <1>3
<1>6. range' \in [Ptr -> RangeObj \cup {NULL}]
  BY <1>3, <1>4, <1>5
<1>7. ASSUME NEW s \in Ptr
      PROVE  /\ range'[s] = NULL <=> range[s] = NULL
             /\ range[s] # NULL => /\ range'[s].id = range[s].id
                                   /\ range'[s].interval = range[s].interval
                                   /\ range'[s].state = range[s].state
  <2>1. CASE s # r
    BY <1>3, <1>5, <2>1
  <2>2. CASE s = r
    <3>1. range'[s] = [range[r] EXCEPT !.overlapping = FALSE]
      BY <1>3, <1>5, <2>2
    <3> QED BY <1>3, <1>4, <2>2, <3>1, ConstAssumption DEF RangeObj
  <2> QED BY <2>1, <2>2
<1>8. timer_queue \in Seq(Ptr) /\ Injective(timer_queue)
  BY <1>1 DEF Linked
<1>9. Linked(range', ranges, timer_queue, maxid)
  BY <1>1, <1>6, <1>7, <1>8, TouchLemma
<1> QED BY <1>2, <1>9

(* A Range that is given up is still a well formed object with its id.     *)
LEMMA GoneLemma ==
    ASSUME NEW rec \in RangeObj
    PROVE  LET gone == [[rec EXCEPT !.state = "RELEASED", !.interval = NULL]
                            EXCEPT !.overlapping = FALSE]
           IN  gone \in RangeObj /\ gone.state = "RELEASED" /\ gone.id = rec.id
BY DEF RangeObj, States

(* A Range that loses its probe, and moves or is released, keeps the       *)
(* links.                                                                  *)
LEMMA ProbeElsewhereStep ==
    ASSUME Inv, NEW r \in Live, ProbeElsewhere(r), UNCHANGED maxid
    PROVE  Linked(range', ranges', timer_queue', maxid')
<1> USE ConstAssumption
<1>1. Linked(range, ranges, timer_queue, maxid)
  BY DEF Inv
<1>2. /\ r \in Ptr /\ LiveAt(range, r) /\ range[r] \in RangeObj
      /\ Length(range[r].interval) \in Nat \ {0}
  BY LiveFactsLemma
<1> DEFINE rec(iv, delay) == [range[r] EXCEPT !.interval = iv, !.counter = Retransmits,
                                  !.overlapping = FALSE, !.next_act_time = delay]
           gone == [Released(r) EXCEPT !.overlapping = FALSE]
<1>3. PICK out \in assign_interval(0, Length(range[r].interval)) :
         \/ /\ out.iv # NULL
            /\ \E delay \in ProbeDelays :
                 Reserved(r, rec(out.iv, delay), remove_interval(ranges, r))
         \/ /\ ranges' = remove_interval(ranges, r)
            /\ range' = [range EXCEPT ![r] = gone]
            /\ UNCHANGED timer_queue
  BY DEF ProbeElsewhere
<1>4. ASSUME out.iv # NULL, NEW delay \in ProbeDelays,
             Reserved(r, rec(out.iv, delay), remove_interval(ranges, r))
      PROVE  Linked(range', ranges', timer_queue', maxid')
  <2> DEFINE new == rec(out.iv, delay)
             heap == [range EXCEPT ![r] = new]
             queue == schedule_timer(timer_queue, heap, r)
  <2>1. /\ out.iv \in Interval /\ out.iv.low <= out.iv.high
        /\ \A n \in ranges : ~check_overlap(n, out.iv)
    BY <1>2, <1>4, AssignLemma
  <2>2. /\ new \in RangeObj /\ new.id = range[r].id /\ new.state = range[r].state
        /\ new.interval = out.iv
    <3>1. Retransmits \in 0 .. Retransmits /\ delay \in Nat
      OBVIOUS
    <3> DEFINE old == range[r]
    <3>2. old \in RangeObj
      BY <1>2
    <3>3. new = [old EXCEPT !.interval = out.iv, !.counter = Retransmits,
                            !.overlapping = FALSE, !.next_act_time = delay]
      OBVIOUS
    <3> HIDE DEF old, new
    <3>4. /\ new \in RangeObj /\ new.id = old.id /\ new.state = old.state
          /\ new.interval = out.iv
      BY <2>1, <3>1, <3>2, <3>3 DEF RangeObj
    <3> QED BY <3>4 DEF old
  <2>3. new.state # "RELEASED" /\ new.id <= maxid
    BY <1>1, <1>2, <2>2 DEF LiveAt, Linked
  <2>4. /\ range' = heap /\ timer_queue' = queue
        /\ ranges' = remove_interval(ranges, r) \cup {NodeOf(new.interval, r)}
    BY <1>4 DEF Reserved
  <2> HIDE DEF new
  <2>5. timer_queue \in Seq(Ptr) /\ Injective(timer_queue) /\ In(r, timer_queue)
    BY <1>1, <1>2 DEF Linked, LiveAt
  <2>6. /\ queue \in Seq(Ptr) /\ Injective(queue)
        /\ \A s \in Ptr : In(s, queue) <=> In(s, timer_queue) \/ s = r
    <3> HIDE DEF heap
    <3> QED BY <1>2, <2>5, ScheduleLemma
  <2>7. \A s \in Ptr : s # r /\ LiveAt(range, s) => range[s].id # new.id
    BY <1>1, <1>2, <2>2 DEF Linked
  <2> HIDE DEF queue
  <2>8. Linked(heap, remove_interval(ranges, r) \cup {NodeOf(new.interval, r)}, queue, maxid)
    <3> USE <1>1, <1>2, <2>1, <2>2, <2>3, <2>6, <2>7
    <3> QED BY PlaceLemma
  <2> QED BY <2>4, <2>8
<1>5. ASSUME ranges' = remove_interval(ranges, r),
             range' = [range EXCEPT ![r] = gone], UNCHANGED timer_queue
      PROVE  Linked(range', ranges', timer_queue', maxid')
  <2>1. gone \in RangeObj /\ gone.state = "RELEASED" /\ gone.id = range[r].id
    BY <1>2, GoneLemma DEF Released
  <2> HIDE DEF gone
  <2>2. Linked([range EXCEPT ![r] = gone], remove_interval(ranges, r), timer_queue, maxid)
    BY <1>1, <1>2, <2>1, DropLemma
  <2> QED BY <1>5, <2>2
<1> HIDE DEF rec, gone
<1> QED BY <1>3, <1>4, <1>5

(* A Range that is yielded, and replaced by a new one of the same id or    *)
(* not, keeps the links.                                                   *)
LEMMA YieldRangeStep ==
    ASSUME Inv, NEW r \in Live, YieldRange(r), UNCHANGED maxid
    PROVE  Linked(range', ranges', timer_queue', maxid')
<1> USE ConstAssumption
<1>1. Linked(range, ranges, timer_queue, maxid)
  BY DEF Inv
<1>2. /\ r \in Ptr /\ LiveAt(range, r) /\ range[r] \in RangeObj
      /\ Length(range[r].interval) \in Nat \ {0}
  BY LiveFactsLemma
<1> DEFINE gone == [Released(r) EXCEPT !.overlapping = FALSE]
           dropped == [range EXCEPT ![r] = gone]
           tree == remove_interval(ranges, r)
           rec(iv, delay) == NewRange(range[r].id, iv, range[r].sender, delay)
           heap(s, iv, delay) == [range EXCEPT ![r] = gone, ![s] = rec(iv, delay)]
<1>3. \/ \E out \in assign_interval(0, Length(range[r].interval)) :
            /\ out.iv # NULL
            /\ \E s \in Ptr \ Allocated, delay \in ProbeDelays :
                 /\ range' = heap(s, out.iv, delay)
                 /\ ranges' = tree \cup {NodeOf(out.iv, s)}
                 /\ timer_queue' = schedule_timer(timer_queue, heap(s, out.iv, delay), s)
      \/ range' = dropped /\ ranges' = tree /\ UNCHANGED timer_queue
  BY DEF YieldRange
<1>4. gone \in RangeObj /\ gone.state = "RELEASED" /\ gone.id = range[r].id
  BY <1>2, GoneLemma DEF Released
<1>5. Linked(dropped, tree, timer_queue, maxid)
  <2> HIDE DEF gone
  <2> QED BY <1>1, <1>2, <1>4, DropLemma
<1>6. ASSUME NEW out \in assign_interval(0, Length(range[r].interval)), out.iv # NULL,
             NEW s \in Ptr \ Allocated, NEW delay \in ProbeDelays,
             range' = heap(s, out.iv, delay),
             ranges' = tree \cup {NodeOf(out.iv, s)},
             timer_queue' = schedule_timer(timer_queue, heap(s, out.iv, delay), s)
      PROVE  Linked(range', ranges', timer_queue', maxid')
  <2> DEFINE new == rec(out.iv, delay)
             heap2 == [dropped EXCEPT ![s] = new]
             queue == schedule_timer(timer_queue, heap2, s)
  <2>1. /\ out.iv \in Interval /\ out.iv.low <= out.iv.high
        /\ \A n \in ranges : ~check_overlap(n, out.iv)
    BY <1>2, <1>6, AssignLemma
  <2>2. range[r].id \in 1 .. MaxId /\ range[r].sender \in Sender
    BY <1>2 DEF RangeObj
  <2>3. new \in RangeObj
    BY <2>1, <2>2, NewRangeLemma
  <2>4. new.id = range[r].id /\ new.interval = out.iv /\ new.state # "RELEASED"
    BY DEF NewRange
  <2>5. new.id <= maxid
    BY <1>1, <1>2, <2>4 DEF Linked, LiveAt
  <2>6. s \in Ptr /\ s # r /\ range[s] = NULL
    BY <1>2 DEF Allocated, LiveAt
  <2>7. heap(s, out.iv, delay) = heap2
    OBVIOUS
  <2> HIDE DEF new, heap, gone, rec
  <2>8. dropped[s] = NULL /\ dropped[r] = gone /\ ~LiveAt(dropped, s) /\ ~LiveAt(dropped, r)
    BY <1>1, <1>2, <1>4, <2>6 DEF Linked, LiveAt
  <2>9. \A x \in Ptr : x # s /\ LiveAt(dropped, x) => dropped[x].id # new.id
    <3> SUFFICES ASSUME NEW x \in Ptr, LiveAt(dropped, x) PROVE dropped[x].id # new.id
      OBVIOUS
    <3>1. x # r
      BY <2>8
    <3>2. dropped[x] = range[x] /\ LiveAt(range, x)
      BY <1>1, <3>1 DEF Linked, LiveAt
    <3> QED BY <1>1, <1>2, <2>4, <3>1, <3>2 DEF Linked
  <2>10. remove_interval(tree, s) = tree
    <3> HIDE DEF dropped, tree
    <3> QED BY <1>5, <2>6, <2>8, UnlinkedLemma
  <2>11. timer_queue \in Seq(Ptr) /\ Injective(timer_queue)
    BY <1>1 DEF Linked
  <2>12. /\ queue \in Seq(Ptr) /\ Injective(queue)
         /\ \A x \in Ptr : In(x, queue) <=> In(x, timer_queue) \/ x = s
    <3> HIDE DEF heap2
    <3> QED BY <2>6, <2>11, ScheduleLemma
  <2>13. \A n \in tree : ~check_overlap(n, new.interval)
    BY <2>1, <2>4 DEF remove_interval
  <2>14. Linked(heap2, remove_interval(tree, s) \cup {NodeOf(new.interval, s)}, queue, maxid)
    <3> HIDE DEF dropped, tree, queue
    <3> USE <1>5, <2>1, <2>3, <2>4, <2>5, <2>6, <2>9, <2>12, <2>13
    <3> QED BY PlaceLemma
  <2> HIDE DEF heap2, tree
  <2> QED BY <1>6, <2>4, <2>7, <2>10, <2>14
<1> HIDE DEF gone, dropped, tree, rec, heap
<1> QED BY <1>3, <1>5, <1>6

(* One turn of the loop over the flagged Ranges keeps the invariant.       *)
LEMMA HandleConflictStep ==
    ASSUME Inv, HandleConflict
    PROVE  Inv'
<1>1. ConflictTurn /\ maxid' = maxid /\ initialized' = initialized
  BY DEF HandleConflict, ConflictTurn
<1>2. PICK r \in Live : KeepRange(r) \/ ProbeElsewhere(r) \/ YieldRange(r)
  BY DEF HandleConflict, FirstFlagged, Flagged
<1>3. Linked(range', ranges', timer_queue', maxid')
  BY <1>1, <1>2, KeepRangeStep, ProbeElsewhereStep, YieldRangeStep
<1>4. initialized' = TRUE /\ maxid' \in 0 .. MaxId
  BY <1>1, LiveFactsLemma DEF Inv, Rest
<1>5. Control'
  BY <1>1 DEF ConflictTurn, Inv, Rest, Control
<1> QED BY <1>3, <1>4, <1>5, NewCoreLemma

-----------------------------------------------------------------------------
(* Serving the head of the queue and scheduling it again keeps the links.  *)
LEMMA RescheduledLemma ==
    ASSUME Inv, timer_queue # <<>>, NEW rec \in RangeObj, NEW type,
           LiveAt(range, Head(timer_queue)),
           rec.id = range[Head(timer_queue)].id,
           rec.interval = range[Head(timer_queue)].interval,
           rec.state # "RELEASED",
           Rescheduled(Head(timer_queue), rec, type)
    PROVE  Linked(range', ranges, timer_queue', maxid)
<1> DEFINE r == Head(timer_queue)
           heap == [range EXCEPT ![r] = rec]
           queue == schedule_timer(Tail(timer_queue), heap, r)
<1>1. Linked(range, ranges, timer_queue, maxid)
  BY DEF Inv
<1>2. range' = heap /\ timer_queue' = queue
  BY DEF Rescheduled
<1>3. /\ r \in Ptr
      /\ Tail(timer_queue) \in Seq(Ptr) /\ Injective(Tail(timer_queue))
      /\ \A s \in Ptr : In(s, Tail(timer_queue)) <=> In(s, timer_queue) /\ s # r
  BY <1>1, TailLemma DEF Linked
<1>4. LiveAt(range, r) /\ rec.id = range[r].id /\ rec.interval = range[r].interval
  OBVIOUS
<1> HIDE DEF r
<1>5. /\ queue \in Seq(Ptr) /\ Injective(queue)
      /\ \A s \in Ptr : In(s, queue) <=> In(s, Tail(timer_queue)) \/ s = r
  <2> HIDE DEF heap
  <2> QED BY <1>3, ScheduleLemma
<1>6. In(r, timer_queue) /\ range[r] # NULL /\ range[r].state # "RELEASED"
  BY <1>1, <1>3, <1>4 DEF Linked, LiveAt
<1>7. \A s \in Ptr : In(s, queue) <=> In(s, timer_queue)
  BY <1>3, <1>5, <1>6
<1>8. heap \in [Ptr -> RangeObj \cup {NULL}]
  BY <1>1, <1>3 DEF Linked
<1>9. ASSUME NEW s \in Ptr
      PROVE  /\ heap[s] = NULL <=> range[s] = NULL
             /\ range[s] # NULL => /\ heap[s].id = range[s].id
                                   /\ heap[s].interval = range[s].interval
                                   /\ heap[s].state = "RELEASED" <=> range[s].state = "RELEASED"
  <2>1. heap[s] = IF s = r THEN rec ELSE range[s]
    BY <1>1, <1>3 DEF Linked
  <2>2. rec # NULL
    BY ConstAssumption
  <2> QED BY <1>4, <1>6, <2>1, <2>2
<1> HIDE DEF heap, queue
<1>10. Linked(heap, ranges, queue, maxid)
  BY <1>1, <1>5, <1>7, <1>8, <1>9, TouchLemma
<1> QED BY <1>2, <1>10

(* One turn of the loop of maap_handle_timer keeps the invariant.          *)
LEMMA HandleTimerStep ==
    ASSUME Inv, HandleTimer
    PROVE  Inv'
<1> USE ConstAssumption
<1> DEFINE r == Head(timer_queue)
<1>1. Linked(range, ranges, timer_queue, maxid)
  BY DEF Inv
<1>2. /\ timer_queue # <<>>
      /\ UNCHANGED <<initialized, ranges, timer, maxid, pc, ret, pkt, num_overlaps>>
      /\ handle_probe_timer(r) \/ handle_defend_timer(r) \/ FreeReleased(r)
  BY DEF HandleTimer, Due
<1>3. r \in Ptr /\ In(r, timer_queue)
  BY <1>1, <1>2 DEF Linked, In
<1>4. range[r] \in RangeObj /\ range[r] # NULL
  BY <1>1, <1>3 DEF Linked
<1> DEFINE Moved(rec) == /\ rec \in RangeObj
                         /\ rec.id = range[r].id
                         /\ rec.interval = range[r].interval
                         /\ rec.state # "RELEASED"
           Won(delay) == [range[r] EXCEPT !.state = "DEFENDING", !.next_act_time = delay]
           Probed(delay) == [range[r] EXCEPT !.counter = @ - 1, !.next_act_time = delay]
           Announced(delay) == [range[r] EXCEPT !.next_act_time = delay]
<1>5. \/ /\ range[r].state = "PROBING"
         /\ \E delay \in AnnounceDelays : Rescheduled(r, Won(delay), "ANNOUNCE")
      \/ /\ range[r].state = "PROBING" /\ range[r].counter > 0
         /\ \E delay \in ProbeDelays : Rescheduled(r, Probed(delay), "PROBE")
      \/ /\ range[r].state = "DEFENDING"
         /\ \E delay \in AnnounceDelays : Rescheduled(r, Announced(delay), "ANNOUNCE")
      \/ FreeReleased(r)
  BY <1>2, Zenon DEF handle_probe_timer, handle_defend_timer
<1>6. ASSUME NEW rec, Moved(rec), NEW type, Rescheduled(r, rec, type),
             range[r].state # "RELEASED"
      PROVE  Linked(range', ranges', timer_queue', maxid')
  <2>1. LiveAt(range, r)
    BY <1>4, <1>6 DEF LiveAt
  <2>2. Linked(range', ranges, timer_queue', maxid)
    BY <1>2, <1>6, <2>1, RescheduledLemma
  <2> QED BY <1>2, <2>2
<1>7. ASSUME FreeReleased(r)
      PROVE  Linked(range', ranges', timer_queue', maxid')
  <2>1. ~LiveAt(range, Head(timer_queue))
    BY <1>7 DEF FreeReleased, LiveAt
  <2>2. range' = [range EXCEPT ![Head(timer_queue)] = NULL] /\ timer_queue' = Tail(timer_queue)
    BY <1>7 DEF FreeReleased
  <2>3. Linked([range EXCEPT ![Head(timer_queue)] = NULL], ranges, Tail(timer_queue), maxid)
    BY <1>1, <1>2, <2>1, FreeLemma
  <2> QED BY <1>2, <2>2, <2>3
<1> HIDE DEF r
<1>8. ASSUME NEW delay \in Nat
      PROVE  /\ Moved(Won(delay))
             /\ range[r].state # "RELEASED" => Moved(Announced(delay))
             /\ range[r].state # "RELEASED" /\ range[r].counter > 0 => Moved(Probed(delay))
  <2>1. Moved(Won(delay))
    BY <1>4 DEF RangeObj, States
  <2>2. range[r].state # "RELEASED" => Moved(Announced(delay))
    BY <1>4 DEF RangeObj, States
  <2>3. ASSUME range[r].state # "RELEASED", range[r].counter > 0 PROVE Moved(Probed(delay))
    <3>1. range[r].counter - 1 \in 0 .. Retransmits
      BY <1>4, <2>3 DEF RangeObj
    <3> QED BY <1>4, <2>3, <3>1 DEF RangeObj, States
  <2> QED BY <2>1, <2>2, <2>3
<1>9. \A delay \in AnnounceDelays \cup ProbeDelays : delay \in Nat
  OBVIOUS
<1> HIDE DEF Moved, Won, Probed, Announced
<1>10. Linked(range', ranges', timer_queue', maxid')
  BY <1>5, <1>6, <1>7, <1>8, <1>9
<1>11. initialized' = TRUE /\ maxid' \in 0 .. MaxId
  BY <1>2 DEF Inv, Rest
<1>12. Control'
  BY <1>2 DEF Inv, Rest, Control
<1> QED BY <1>10, <1>11, <1>12, NewCoreLemma

(* maap_deinit_client keeps the invariant: the released Ranges are freed   *)
(* along the queue, the others along the tree, and these are all.          *)
LEMMA DeinitStep ==
    ASSUME Inv, maap_deinit_client
    PROVE  Inv'
<1> USE ConstAssumption
<1>1. CASE Abort
  BY <1>1, AbortStep
<1>2. CASE ~Abort
  <2>1. Linked(range, ranges, timer_queue, maxid)
    BY DEF Inv
  <2>2. /\ range' = [r \in Ptr |-> IF r \in Freed THEN NULL ELSE range[r]]
        /\ ranges' = {} /\ timer_queue' = <<>>
        /\ initialized' = FALSE /\ pc' = "stopped"
        /\ UNCHANGED <<timer, maxid, ret, pkt, num_overlaps>>
    BY <1>2 DEF maap_deinit_client
  <2>3. ASSUME NEW r \in Ptr PROVE range'[r] = NULL
    <3>1. CASE range[r] = NULL
      BY <2>2, <3>1
    <3>2. CASE LiveAt(range, r)
      <4>1. NodeOf(range[r].interval, r) \in ranges
        BY <2>1, <3>2 DEF Linked
      <4>2. \E n \in ranges : n.data = r
        BY <4>1 DEF NodeOf
      <4> QED BY <2>2, <4>2 DEF Freed
    <3>3. CASE range[r] # NULL /\ ~LiveAt(range, r)
      <4>1. range[r].state = "RELEASED" /\ In(r, timer_queue)
        BY <2>1, <3>3 DEF Linked, LiveAt
      <4> QED BY <2>2, <4>1 DEF In, Freed
    <3> QED BY <3>1, <3>2, <3>3
  <2>4. range' \in [Ptr -> RangeObj \cup {NULL}]
    <3>1. range' = [r \in Ptr |-> range'[r]]
      BY <2>2
    <3> QED BY <2>3, <3>1
  <2>5. Linked(range', ranges', timer_queue', maxid')
    BY <2>2, <2>3, <2>4 DEF Linked, LiveAt, Injective, In
  <2>6. Allocated' = {}
    BY <2>3 DEF Allocated
  <2>7. /\ (timer \in Nat)' /\ (pc \in PCs)' /\ (ret \in {"top", "packets", "commands"})'
        /\ (pkt \in PktType \cup {NULL})' /\ (num_overlaps \in Nat)' /\ (maxid \in 0 .. MaxId)'
        /\ pc' # "conflict"
    BY <2>2 DEF Inv, Rest, Control, PCs
  <2>8. initialized' \in BOOLEAN /\ ~initialized'
    BY <2>2, Zenon
  <2> QED BY <2>2, <2>5, <2>6, <2>7, <2>8 DEF Inv, Rest, Control
<1> QED BY <1>1, <1>2

-----------------------------------------------------------------------------
(* Every step of the daemon keeps the invariant.                           *)
LEMMA NextInv == Inv /\ [Next]_vars => Inv'
<1> SUFFICES ASSUME Inv, [Next]_vars PROVE Inv'
  OBVIOUS
<1>1. CASE UNCHANGED vars
  <2>1. Control'
    BY <1>1 DEF Inv, Rest, Control, vars
  <2> QED BY <1>1, <2>1, KeepCoreLemma DEF vars
<1>2. CASE Loop
  BY <1>2, StepsThatKeepCore, HandleConflictStep, HandleTimerStep DEF Loop
<1>3. CASE Tick
  BY <1>3, TickStep
<1>4. CASE Timeout
  BY <1>4, StepsThatKeepCore
<1>5. CASE Command
  BY <1>5, InitClientStep, ReserveStep, ReleaseStep, StatusStep, YieldCommandStep DEF Command
<1>6. CASE \E p \in Packets : ReceivePacket(p)
  BY <1>6, ReceivePacketStep
<1>7. CASE maap_deinit_client
  BY <1>7, DeinitStep
<1> QED BY <1>1, <1>2, <1>3, <1>4, <1>5, <1>6, <1>7 DEF Next

(* The invariant holds in every behaviour of the daemon: whatever clients  *)
(* ask, other nodes send and timers do, heap, tree and queue agree.        *)
THEOREM ConsistentAlways == Spec => []Consistent
<1>1. Init => Inv
  BY InitInv
<1>2. Inv /\ [Next]_vars => Inv'
  BY NextInv
<1>3. Inv => Consistent
  BY InvIsConsistent
<1> QED BY <1>1, <1>2, <1>3, PTL DEF Spec

(* Every variable of the daemon keeps its type; in particular no interval  *)
(* ever reaches out of the pool the server was given.                      *)
THEOREM TypeCorrect == Spec => []TypeOK
<1>1. Consistent => TypeOK
  BY DEF Consistent
<1> QED BY <1>1, ConsistentAlways, PTL

(* Every Range in use is linked into the timer queue exactly once, and the *)
(* interval tree holds exactly the Ranges that are not released: nothing   *)
(* is freed twice, leaked, or reached through the tree after               *)
(* maap_handle_timer has freed it.                                         *)
THEOREM NoDanglingRange == Spec => []QueueTreeAgree
<1>1. Consistent => QueueTreeAgree
  BY DEF Consistent
<1> QED BY <1>1, ConsistentAlways, PTL

(* The server never holds an address twice: the nodes of the interval tree *)
(* are disjoint after every reservation, move, yield and release.          *)
THEOREM NoAddressTwice == Spec => []Disjoint
<1>1. Consistent => Disjoint
  BY DEF Consistent
<1> QED BY <1>1, ConsistentAlways, PTL

(* An id names at most one Range that is not released, although a yielded  *)
(* Range hands its id on to its replacement.                               *)
THEOREM IdsAreUnambiguous == Spec => []OneLiveRangePerId
<1>1. Consistent => OneLiveRangePerId
  BY DEF Consistent
<1> QED BY <1>1, ConsistentAlways, PTL

(* maap_deinit_client frees every Range: none is left when the daemon has  *)
(* stopped.                                                                *)
THEOREM StoppedIsClean == Spec => []NothingLeaks
<1>1. Consistent => NothingLeaks
  BY DEF Consistent, NothingLeaks
<1> QED BY <1>1, ConsistentAlways, PTL
=============================================================================
