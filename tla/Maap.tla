-------------------------------- MODULE Maap --------------------------------
(***************************************************************************)
(* The address allocation engine of the MAAP server, driven by the main    *)
(* loop of maap_daemon: daemons/maap/common/maap.c and the loop of         *)
(* act_as_server in daemons/maap/linux/src/maap_daemon.c.                  *)
(*                                                                         *)
(* One server owns the addresses AddressBase .. AddressBase+RangeLen-1.    *)
(* Each reservation is a Range object on the heap.  A Range is linked from *)
(* two places: the interval tree mc->ranges (while it holds addresses) and *)
(* the list mc->timer_queue (until its memory is freed).                   *)
(*                                                                         *)
(* The program is a single thread, so a handler runs to its end before     *)
(* another starts: pc says which loop of which handler is running.         *)
(* Absolute times are kept as the number of ticks left until they come.    *)
(***************************************************************************)
EXTENDS Integers, Sequences, FiniteSets, SequencesExt

CONSTANTS
    Ptr,             \* the Range objects malloc can return; it fails when all are in use
    NULL,
    Sender,          \* client sockets, and the console
    AddressBase,     \* mc->address_base
    RangeLen,        \* mc->range_len
    MaxCount,        \* 0xFFFF, the largest count a MAAP packet can carry
    Word,            \* 2^32, the modulus of uint32_t
    SrcMac,          \* mc->src_mac
    ConflictMac,     \* 0x010000000000, the source of the packet "yield" makes up
    Lengths,         \* lengths clients ask for
    AttemptBases,    \* first addresses clients ask for; 0 is "no preference"
    Packets,         \* packets other nodes of the network may send
    Retransmits,     \* MAAP_PROBE_RETRANSMITS
    ProbeDelays,     \* ticks until the next probe (500 ms and a random part)
    AnnounceDelays,  \* ticks until the next announce (30 s and a random part)
    MaxId,           \* bound: reservations made in one behaviour
    MaxNotifies      \* bound: notifications queued in one turn of the main loop

PktTypes == {"PROBE", "DEFEND", "ANNOUNCE"}
PktType  == [type : PktTypes, SA : Nat, start : Nat, count : Nat]

VARIABLES
    initialized,   \* mc->initialized
    range,         \* the heap: what each Range object holds, NULL if not allocated
    ranges,        \* mc->ranges, the nodes of the interval tree
    timer_queue,   \* mc->timer_queue, the Range objects by time of their next act
    timer,         \* what mc->timer was last set to, as the ticks left
    maxid,         \* mc->maxid
    notifies,      \* mc->notifies
    net,           \* the packets in the QUEUED buffers of mc->net
    pc, ret,       \* the loop that is running; where maap_handle_packet returns to
    pkt,           \* the packet maap_handle_packet is working on
    num_overlaps,  \* its local variable
    told           \* what each client has been told about the addresses of an id

vars == <<initialized, range, ranges, timer_queue, timer, maxid, notifies, net,
          pc, ret, pkt, num_overlaps, told>>

States   == {"PROBING", "DEFENDING", "RELEASED"}
Offsets  == 0 .. (RangeLen - 1)
Interval == [low : Offsets, high : Offsets]
Node     == [low : Offsets, high : Offsets, data : Ptr \cup {NULL}]
RangeObj == [id : 1 .. MaxId, state : States, counter : 0 .. Retransmits,
             overlapping : BOOLEAN, next_act_time : Nat,
             interval : Interval \cup {NULL}, sender : Sender]

ASSUME ConstAssumption ==
    /\ NULL \notin Ptr /\ NULL \notin Interval /\ NULL \notin RangeObj /\ NULL \notin PktType
    /\ IsFiniteSet(Ptr)
    /\ AddressBase \in Nat \ {0}
    /\ RangeLen \in Nat \ {0}
    /\ MaxCount \in Nat
    /\ Word \in Nat /\ RangeLen <= Word
    /\ SrcMac \in Nat /\ ConflictMac \in Nat
    /\ Lengths \subseteq Nat \ {0}
    /\ AttemptBases \subseteq Nat
    /\ Packets \subseteq PktType
    /\ Retransmits \in Nat
    /\ ProbeDelays \subseteq Nat \ {0}
    /\ AnnounceDelays \subseteq Nat \ {0}
    /\ MaxId \in Nat /\ MaxNotifies \in Nat

Allocated == {r \in Ptr : range[r] # NULL}
Live      == {r \in Allocated : range[r].state # "RELEASED"}
Flagged   == {r \in Live : range[r].overlapping}

-----------------------------------------------------------------------------
(* The interval tree, as the set of its nodes (intervals.c).               *)

check_overlap(a, b) == a.low <= b.high /\ b.low <= a.high

(* Mutant: the last address is counted twice.                              *)
AllocOneMore(start, count) == [low |-> start, high |-> start + count]

alloc_interval(start, count) == [low |-> start, high |-> start + count - 1]

NodeOf(iv, data) == [low |-> iv.low, high |-> iv.high, data |-> data]

(* Mutant: the node stays in the tree.                                     *)
RemoveNothing(tree, r) == tree

remove_interval(tree, r) == {n \in tree : n.data # r}

(* The nodes that no Range stands behind.                                  *)
Orphans == {n \in ranges : n.data = NULL}

(* Mutant: the tree does not refuse an overlapping interval.               *)
AnyStart(len) == 0 .. (RangeLen - len)

(* A node's start is drawn from FreeStarts \cup TakenStarts.               *)
FreeStarts(len) ==
    {s \in 0 .. (RangeLen - len) :
        \A n \in ranges : ~check_overlap(n, alloc_interval(s, len))}
TakenStarts(len) == (0 .. (RangeLen - len)) \ FreeStarts(len)

(* What assign_interval can do.  The preferred start is taken when it is   *)
(* inside the pool and free; otherwise up to 1000 random starts are tried. *)
(* The result is the interval found, or NULL.  When the first 999 draws    *)
(* hit taken starts and the last one a free start, the node is inserted    *)
(* and the function still reports failure: the node is left in the tree.   *)
assign_interval(attempt_base, len) ==
    LET wish  == attempt_base - AddressBase
        fits  == /\ attempt_base >= AddressBase
                 /\ attempt_base + len - 1 <= AddressBase + RangeLen - 1
        found == {[iv |-> alloc_interval(s, len), left |-> NULL] : s \in FreeStarts(len)}
        late  == {[iv |-> NULL, left |-> alloc_interval(s, len)] : s \in FreeStarts(len)}
    IN  IF fits /\ wish \in FreeStarts(len)
        THEN {[iv |-> alloc_interval(wish, len), left |-> NULL]}
        ELSE found \cup (IF TakenStarts(len) = {} THEN {}
                         ELSE late \cup {[iv |-> NULL, left |-> NULL]})

Leftover(out) == IF out.left = NULL THEN {} ELSE {NodeOf(out.left, NULL)}

-----------------------------------------------------------------------------
(* The timer queue (schedule_timer, start_timer).                          *)

Unqueue(q, r) ==
    IF \E i \in DOMAIN q : q[i] = r
    THEN RemoveAt(q, CHOOSE i \in DOMAIN q : q[i] = r)
    ELSE q

NoLater(h, r, s) == h[r].next_act_time <= h[s].next_act_time

(* The queue q with r put in after the Ranges that are due no later, h     *)
(* being the heap with the new time of r.                                  *)
Enqueue(q, h, r) ==
    InsertAt(q, CHOOSE i \in 1 .. Len(q) + 1 :
                    /\ \A j \in 1 .. (i - 1) : NoLater(h, q[j], r)
                    /\ i <= Len(q) => ~NoLater(h, q[i], r), r)

(* Mutant: a Range that is in the queue already is put in once more.       *)
ScheduleAgain(q, h, r) == Enqueue(q, h, r)

schedule_timer(q, h, r) == Enqueue(Unqueue(q, r), h, r)

(* Mutant: a timer that is running is not set to an earlier time.          *)
StartIdleTimer(h, q) ==
    IF q = <<>> \/ timer > 0 THEN timer ELSE h[Head(q)].next_act_time

start_timer(h, q) == IF q = <<>> THEN timer ELSE h[Head(q)].next_act_time

-----------------------------------------------------------------------------
(* Packets and notifications.                                              *)

(* MAC addresses stand for their bytes read from the last to the first, in *)
(* the order compare_mac_addresses looks at them; 1 is "we win".           *)
compare_mac_addresses(local, remote) == local <= remote

Packet(type, iv) == [type |-> type, interval |-> iv, conflict |-> NULL]

(* A DEFEND repeats the request and adds the part of it that is held.      *)
Defend(p, iv) ==
    LET from == p.start - AddressBase
        to   == p.start + p.count - 1 - AddressBase
    IN  [type |-> "DEFEND", interval |-> [low |-> from, high |-> to],
         conflict |-> [low  |-> IF iv.low < from THEN from ELSE iv.low,
                       high |-> IF iv.high > to THEN to ELSE iv.high]]

Note(sender, kind, id, iv, result) ==
    <<[sender |-> sender, kind |-> kind, id |-> id, interval |-> iv, result |-> result]>>

Acquiring(rec)  == Note(rec.sender, "ACQUIRING", rec.id, rec.interval, "NONE")
Acquired(rec)   == Note(rec.sender, "ACQUIRED", rec.id, rec.interval, "NONE")
Yielded(rec, e) == Note(rec.sender, "YIELDED", rec.id, rec.interval, e)
NotAcquired(sender, id, e) == Note(sender, "ACQUIRED", id, NULL, e)

-----------------------------------------------------------------------------
(* The main loop of act_as_server.  "top" sends what is queued; "select"   *)
(* waits; then either the timer is handled, or the packets that came in    *)
(* and after them the commands of the clients.                             *)

PCs == {"top", "select", "packets", "commands", "conflict", "timer", "stopped", "aborted"}

Init ==
    /\ initialized = FALSE
    /\ range = [r \in Ptr |-> NULL]
    /\ ranges = {}
    /\ timer_queue = <<>>
    /\ timer = 0
    /\ maxid = 0
    /\ notifies = <<>>
    /\ net = {}
    /\ pc = "top" /\ ret = "top"
    /\ pkt = NULL
    /\ num_overlaps = 0
    /\ told = [s \in Sender |-> [id \in 1 .. MaxId |-> NULL]]

(* The notifications that tell a client what happened to the addresses of  *)
(* an id.                                                                  *)
Tells(n, s, id) ==
    /\ n.sender = s /\ n.id = id
    /\ \/ n.kind = "ACQUIRED"
       \/ n.kind = "YIELDED" /\ n.result # "INVALID_ID"
       \/ n.kind = "RELEASED" /\ n.result = "NONE"

After(old, s, id) ==
    LET about == SelectSeq(notifies, LAMBDA n : Tells(n, s, id))
    IN  IF about = <<>> THEN old
        ELSE IF Last(about).kind = "ACQUIRED" THEN Last(about).interval ELSE NULL

(* Send the queued packets, then the notifications.  (After an error of    *)
(* send() one packet is dropped and the rest waits for the next turn: to   *)
(* the other nodes that is loss and delay, and nothing here reads net.)    *)
ServeQueues ==
    /\ pc = "top"
    /\ net' = {}
    /\ told' = [s \in Sender |-> [id \in 1 .. MaxId |-> After(told[s][id], s, id)]]
    /\ notifies' = <<>>
    /\ pc' = "select"
    /\ UNCHANGED <<initialized, range, ranges, timer_queue, timer, maxid, ret, pkt, num_overlaps>>

(* Time passes while the daemon waits in select().                         *)
Tick ==
    /\ pc = "select"
    /\ timer > 0 \/ \E r \in Allocated : range[r].next_act_time > 0
    /\ timer' = IF timer = 0 THEN 0 ELSE timer - 1
    /\ range' = [r \in Ptr |->
                    IF range[r] = NULL \/ range[r].next_act_time = 0 THEN range[r]
                    ELSE [range[r] EXCEPT !.next_act_time = @ - 1]]
    /\ UNCHANGED <<initialized, ranges, timer_queue, maxid, notifies, net,
                   pc, ret, pkt, num_overlaps, told>>

(* The last client with something to say has been served.                  *)
EndOfTurn ==
    /\ pc \in {"packets", "commands"}
    /\ pc' = "top"
    /\ UNCHANGED <<initialized, range, ranges, timer_queue, timer, maxid, notifies, net,
                   ret, pkt, num_overlaps, told>>

(* An assert() of the code fails, or it follows a null pointer.            *)
Abort ==
    /\ pc' = "aborted"
    /\ UNCHANGED <<initialized, range, ranges, timer_queue, timer, maxid, notifies, net,
                   ret, pkt, num_overlaps, told>>

-----------------------------------------------------------------------------
(* The commands (parse_write and the functions it calls).                  *)

CommandTurn ==
    /\ pc \in {"select", "packets", "commands"}
    /\ Len(notifies) < MaxNotifies
    /\ pc' = "commands"
    /\ UNCHANGED <<ret, pkt, num_overlaps, told>>

Reply(note) ==
    /\ notifies' = notifies \o note
    /\ UNCHANGED <<initialized, range, ranges, timer_queue, timer, maxid, net>>

(* matches: the client asks for the pool the server was initialized with.  *)
maap_init_client(sender, matches) ==
    /\ CommandTurn
    /\ \/ /\ initialized
          /\ Reply(Note(sender, "INITIALIZED", -1, NULL,
                        IF matches THEN "NONE" ELSE "ALREADY_INITIALIZED"))
       \/ /\ ~initialized /\ matches
          /\ initialized' = TRUE
          /\ ranges' = {} /\ timer_queue' = <<>> /\ maxid' = 0
          /\ notifies' = Note(sender, "INITIALIZED", -1, NULL, "NONE")
          /\ UNCHANGED <<range, timer, net>>

(* A new Range, linked into the tree and the queue by its caller.          *)
NewRange(id, iv, sender, delay) ==
    [id |-> id, state |-> "PROBING", counter |-> Retransmits, overlapping |-> FALSE,
     next_act_time |-> delay, interval |-> iv, sender |-> sender]

Reserved(r, rec, tree) ==
    LET heap == [range EXCEPT ![r] = rec]
    IN  /\ range' = heap
        /\ ranges' = tree \cup {NodeOf(rec.interval, r)}
        /\ timer_queue' = schedule_timer(timer_queue, heap, r)
        /\ net' = net \cup {Packet("PROBE", rec.interval)}

maap_reserve_range(sender, attempt_base, length) ==
    /\ CommandTurn
    /\ \/ /\ ~initialized
          /\ Reply(NotAcquired(sender, -1, "REQUIRES_INITIALIZATION"))
       \/ /\ initialized
          /\ length > MaxCount \/ length > RangeLen
          /\ Reply(NotAcquired(sender, -1, "RESERVE_NOT_AVAILABLE"))
       \/ /\ initialized /\ length <= MaxCount /\ length <= RangeLen
          /\ Allocated = Ptr
          /\ Reply(NotAcquired(sender, -1, "OUT_OF_MEMORY"))
       \/ /\ initialized /\ length <= MaxCount /\ length <= RangeLen
          /\ Allocated # Ptr
          /\ maxid < MaxId
          /\ maxid' = maxid + 1
          /\ UNCHANGED initialized
          /\ \E out \in assign_interval(attempt_base, length) :
               \/ /\ out.iv = NULL
                  /\ ranges' = ranges \cup Leftover(out)
                  /\ notifies' = notifies \o NotAcquired(sender, -1, "RESERVE_NOT_AVAILABLE")
                  /\ UNCHANGED <<range, timer_queue, timer, net>>
               \/ /\ out.iv # NULL
                  /\ \E r \in Ptr \ Allocated, delay \in ProbeDelays :
                       LET rec == NewRange(maxid + 1, out.iv, sender, delay)
                       IN  /\ Reserved(r, rec, ranges)
                           /\ notifies' = notifies \o Acquiring(rec)
                  /\ timer' = start_timer(range', timer_queue')

(* The Range that the search along the timer queue for id stops at.        *)
Found(id, states) == {r \in Allocated : range[r].id = id /\ range[r].state \in states}

(* Mutant: the Range is not marked.                                        *)
ReleasedUnmarked(r) == range[r]

Released(r) == [range[r] EXCEPT !.state = "RELEASED", !.interval = NULL]

(* The client that reserved the range is told when another one releases it. *)
(* Mutant: it is not.                                                      *)
OwnerIsNotTold(sender, owner, note) == <<>>
OwnerIsTold(sender, owner, note) == IF sender # owner THEN note ELSE <<>>

maap_release_range(sender, id) ==
    LET told_to(s, iv, e) == Note(s, "RELEASED", id, iv, e)
    IN  \/ /\ CommandTurn
           /\ ~initialized \/ Found(id, {"PROBING", "DEFENDING"}) = {}
           /\ Reply(told_to(sender, NULL,
                IF initialized THEN "INVALID_ID" ELSE "REQUIRES_INITIALIZATION"))
        \/ /\ CommandTurn
           /\ initialized
           /\ Orphans = {}
           /\ \E r \in Found(id, {"PROBING", "DEFENDING"}) :
                LET rec == range[r]
                    own == told_to(rec.sender, rec.interval, "NONE")
                IN  /\ notifies' = notifies \o told_to(sender, rec.interval, "NONE")
                                        \o OwnerIsTold(sender, rec.sender, own)
                    /\ ranges' = remove_interval(ranges, r)
                    /\ range' = [range EXCEPT ![r] = Released(r)]
           /\ UNCHANGED <<initialized, timer_queue, timer, maxid, net>>
        \/ /\ pc \in {"select", "packets", "commands"}
           /\ initialized
           /\ Orphans # {}
           /\ Found(id, {"PROBING", "DEFENDING"}) # {}
           /\ Abort

maap_range_status(sender, id) ==
    /\ CommandTurn
    /\ \/ /\ ~initialized \/ Found(id, {"DEFENDING"}) = {}
          /\ Reply(Note(sender, "STATUS", id, NULL,
                IF initialized THEN "INVALID_ID" ELSE "REQUIRES_INITIALIZATION"))
       \/ /\ initialized
          /\ \E r \in Found(id, {"DEFENDING"}) :
                Reply(Note(sender, "STATUS", id, range[r].interval, "NONE"))

-----------------------------------------------------------------------------
(* maap_handle_packet.  Its first part flags the Ranges that overlap with  *)
(* the packet; the loop then deals with them one after the other.          *)

(* The request, as offsets into the pool in 32-bit arithmetic.             *)
Request(p) ==
    LET start == (p.start - AddressBase) % Word
    IN  [low |-> start, high |-> (start + p.count - 1) % Word]

OutsidePool(p) == \/ p.start + p.count - 1 < AddressBase
                  \/ AddressBase + RangeLen - 1 < p.start

Overlapped(p) == {n \in ranges : check_overlap(n, Request(p))}

Hit(p) == {n.data : n \in Overlapped(p)}

BeginPacket(p, from) ==
    /\ NULL \notin Hit(p)
    /\ range' = [r \in Ptr |-> IF r \in Hit(p) THEN [range[r] EXCEPT !.overlapping = TRUE]
                               ELSE range[r]]
    /\ num_overlaps' = Cardinality(Hit(p))
    /\ pkt' = p
    /\ ret' = from
    /\ pc' = "conflict"
    /\ UNCHANGED <<initialized, ranges, timer_queue, timer, maxid, notifies, net, told>>

(* A packet that is not of this pool, or comes before the pool is known,   *)
(* leaves no trace.                                                        *)
ReceivePacket(p) ==
    /\ pc \in {"select", "packets"}
    /\ Len(notifies) < MaxNotifies
    /\ initialized /\ ~OutsidePool(p)
    /\ \/ BeginPacket(p, "packets")
       \/ NULL \in Hit(p) /\ Abort

(* "yield" makes up an announcement of its own range by a node that wins.  *)
maap_yield_range(sender, id) ==
    \/ /\ CommandTurn
       /\ ~initialized \/ Found(id, {"DEFENDING"}) = {}
       /\ Reply(Note(sender, "YIELDED", id, NULL,
             IF initialized THEN "INVALID_ID" ELSE "REQUIRES_INITIALIZATION"))
    \/ /\ pc \in {"select", "packets", "commands"}
       /\ Len(notifies) < MaxNotifies
       /\ initialized
       /\ \E r \in Found(id, {"DEFENDING"}) :
            LET iv == range[r].interval
            IN  BeginPacket([type |-> "ANNOUNCE", SA |-> ConflictMac,
                             start |-> AddressBase + iv.low,
                             count |-> iv.high - iv.low + 1], "commands")

-----------------------------------------------------------------------------
(* One turn of the loop over the flagged Ranges.                           *)

FirstFlagged(r) ==
    /\ r \in Flagged
    /\ \A s \in Flagged : range[r].interval.low <= range[s].interval.low

ConflictTurn ==
    /\ pc = "conflict"
    /\ num_overlaps > 0
    /\ num_overlaps' = num_overlaps - 1
    /\ UNCHANGED <<initialized, timer, maxid, pc, ret, pkt, told>>

(* Mutant: the flag is not cleared.                                        *)
KeepFlag(r) == range

Unflag(r) == [range EXCEPT ![r].overlapping = FALSE]

Length(iv) == iv.high - iv.low + 1

(* Nothing to give up: our probe stands, or our range does.                *)
KeepRange(r) ==
    LET wins == compare_mac_addresses(SrcMac, pkt.SA)
    IN  /\ \/ range[r].state = "PROBING" /\ pkt.type = "PROBE" /\ wins /\ net' = net
           \/ /\ range[r].state = "DEFENDING" /\ pkt.type = "PROBE"
              /\ net' = net \cup {Defend(pkt, range[r].interval)}
           \/ range[r].state = "DEFENDING" /\ pkt.type # "PROBE" /\ wins /\ net' = net
        /\ range' = Unflag(r)
        /\ UNCHANGED <<ranges, timer_queue, notifies>>

(* Mutant: a range that is held is treated like one that is probed for.    *)
LosesAnything(r) == pkt.type = "PROBE" => ~compare_mac_addresses(SrcMac, pkt.SA)

LosesProbe(r) == /\ range[r].state = "PROBING"
                 /\ pkt.type = "PROBE" => ~compare_mac_addresses(SrcMac, pkt.SA)

LosesRange(r) == /\ range[r].state = "DEFENDING"
                 /\ pkt.type # "PROBE"
                 /\ ~compare_mac_addresses(SrcMac, pkt.SA)

(* A range that is being probed moves to another interval.                 *)
ProbeElsewhere(r) ==
    /\ LosesProbe(r)
    /\ \E out \in assign_interval(0, Length(range[r].interval)) :
         \/ /\ out.iv # NULL
            /\ \E delay \in ProbeDelays :
                 LET rec == [range[r] EXCEPT !.interval = out.iv, !.counter = Retransmits,
                                             !.overlapping = FALSE, !.next_act_time = delay]
                 IN  /\ Reserved(r, rec, remove_interval(ranges, r))
                     /\ notifies' = notifies \o Acquiring(rec)
         \/ /\ out = [iv |-> NULL, left |-> NULL]
            /\ notifies' = notifies \o NotAcquired(range[r].sender, range[r].id,
                                                   "RESERVE_NOT_AVAILABLE")
            /\ ranges' = remove_interval(ranges, r)
            /\ range' = [range EXCEPT ![r] = [Released(r) EXCEPT !.overlapping = FALSE]]
            /\ UNCHANGED <<timer_queue, net>>

(* A range that is held is given up; a new Range with the same id, while   *)
(* the old one still blocks its interval, takes its place.                 *)
YieldRange(r) ==
    LET gone == [Released(r) EXCEPT !.overlapping = FALSE]
    IN  /\ LosesRange(r)
        /\ \/ \E out \in assign_interval(0, Length(range[r].interval)) :
                /\ out.iv # NULL
                /\ \E s \in Ptr \ Allocated, delay \in ProbeDelays :
                     LET rec  == NewRange(range[r].id, out.iv, range[r].sender, delay)
                         heap == [range EXCEPT ![r] = gone, ![s] = rec]
                     IN  /\ range' = heap
                         /\ ranges' = remove_interval(ranges, r) \cup {NodeOf(out.iv, s)}
                         /\ timer_queue' = schedule_timer(timer_queue, heap, s)
                         /\ net' = net \cup {Packet("PROBE", out.iv)}
                         /\ notifies' = notifies \o Yielded(range[r], "NONE") \o Acquiring(rec)
           \/ /\ \/ /\ Allocated = Ptr
                    /\ notifies' = notifies \o Yielded(range[r], "OUT_OF_MEMORY")
                 \/ /\ Allocated # Ptr
                    /\ [iv |-> NULL, left |-> NULL]
                            \in assign_interval(0, Length(range[r].interval))
                    /\ notifies' = notifies \o Yielded(range[r], "RESERVE_NOT_AVAILABLE")
              /\ ranges' = remove_interval(ranges, r)
              /\ range' = [range EXCEPT ![r] = gone]
              /\ UNCHANGED <<timer_queue, net>>

HandleConflict ==
    /\ ConflictTurn
    /\ \E r \in Ptr :
         /\ FirstFlagged(r)
         /\ \/ KeepRange(r)
            \/ Orphans = {} /\ ProbeElsewhere(r)
            \/ Orphans = {} /\ YieldRange(r)

(* remove_range_interval finds a node without a Range: one that was there  *)
(* before, or the one that assign_interval has just left behind.           *)
ConflictAborts ==
    /\ pc = "conflict"
    /\ num_overlaps > 0
    /\ \E r \in Ptr :
         /\ FirstFlagged(r)
         /\ LosesProbe(r) \/ LosesRange(r)
         /\ \/ Orphans # {}
            \/ /\ LosesRange(r) => Allocated # Ptr
               /\ \E out \in assign_interval(0, Length(range[r].interval)) : out.left # NULL
    /\ Abort

EndPacket ==
    /\ pc = "conflict"
    /\ num_overlaps = 0
    /\ timer' = start_timer(range, timer_queue)
    /\ pc' = ret
    /\ pkt' = NULL /\ ret' = "top"
    /\ UNCHANGED <<initialized, range, ranges, timer_queue, maxid, notifies, net,
                   num_overlaps, told>>

-----------------------------------------------------------------------------
(* maap_handle_timer, called when select() times out.                      *)

Timeout ==
    /\ pc = "select"
    /\ timer_queue # <<>> /\ timer = 0
    /\ pc' = "timer"
    /\ UNCHANGED <<initialized, range, ranges, timer_queue, timer, maxid, notifies, net,
                   ret, pkt, num_overlaps, told>>

Due == timer_queue # <<>> /\ range[Head(timer_queue)].next_act_time = 0

(* Mutant: the Range is not put back into the queue.                       *)
NotRescheduled(r, rec, type) ==
    /\ range' = [range EXCEPT ![r] = rec]
    /\ timer_queue' = Tail(timer_queue)
    /\ net' = net \cup {Packet(type, rec.interval)}

(* The Range at the head of the queue is served again later, as rec.       *)
Rescheduled(r, rec, type) ==
    LET heap == [range EXCEPT ![r] = rec]
    IN  /\ range' = heap
        /\ timer_queue' = schedule_timer(Tail(timer_queue), heap, r)
        /\ net' = net \cup {Packet(type, rec.interval)}

handle_probe_timer(r) ==
    /\ range[r].state = "PROBING"
    /\ \/ /\ range[r].counter = 0
          /\ notifies' = notifies \o Acquired(range[r])
          /\ \E delay \in AnnounceDelays :
               Rescheduled(r, [range[r] EXCEPT !.state = "DEFENDING", !.next_act_time = delay],
                           "ANNOUNCE")
       \/ /\ range[r].counter > 0
          /\ \E delay \in ProbeDelays :
               Rescheduled(r, [range[r] EXCEPT !.counter = @ - 1, !.next_act_time = delay],
                           "PROBE")
          /\ UNCHANGED notifies

handle_defend_timer(r) ==
    /\ range[r].state = "DEFENDING"
    /\ \E delay \in AnnounceDelays :
         Rescheduled(r, [range[r] EXCEPT !.next_act_time = delay], "ANNOUNCE")
    /\ UNCHANGED notifies

(* Mutant: the memory is not freed.                                        *)
ForgetReleased(r) ==
    /\ range[r].state = "RELEASED"
    /\ timer_queue' = Tail(timer_queue)
    /\ UNCHANGED <<range, notifies, net>>

FreeReleased(r) ==
    /\ range[r].state = "RELEASED"
    /\ range' = [range EXCEPT ![r] = NULL]
    /\ timer_queue' = Tail(timer_queue)
    /\ UNCHANGED <<notifies, net>>

HandleTimer ==
    /\ pc = "timer"
    /\ Due
    /\ LET r == Head(timer_queue)
       IN  handle_probe_timer(r) \/ handle_defend_timer(r) \/ FreeReleased(r)
    /\ UNCHANGED <<initialized, ranges, timer, maxid, pc, ret, pkt, num_overlaps, told>>

EndTimer ==
    /\ pc = "timer"
    /\ ~Due
    /\ timer' = start_timer(range, timer_queue)
    /\ pc' = "top"
    /\ UNCHANGED <<initialized, range, ranges, timer_queue, maxid, notifies, net,
                   ret, pkt, num_overlaps, told>>

-----------------------------------------------------------------------------
(* What maap_deinit_client frees: the released Ranges along the queue and  *)
(* the others along the tree.  Mutant: only those of the tree.             *)
FreedOfTree == {r \in Ptr : \E n \in ranges : n.data = r}
Freed ==
    {r \in Ptr : \/ \E i \in DOMAIN timer_queue :
                       timer_queue[i] = r /\ range[r].state = "RELEASED"
                 \/ \E n \in ranges : n.data = r}

(* MAAP_CMD_EXIT ends the main loop.  Which node is the root of the *)
(* tree decides whether maap_deinit_client notices a leftover node.        *)
maap_deinit_client ==
    \/ /\ pc \in {"select", "packets", "commands"}
       /\ range' = [r \in Ptr |-> IF r \in Freed THEN NULL ELSE range[r]]
       /\ ranges' = {} /\ timer_queue' = <<>> /\ notifies' = <<>> /\ net' = {}
       /\ initialized' = FALSE
       /\ pc' = "stopped"
       /\ UNCHANGED <<timer, maxid, ret, pkt, num_overlaps, told>>
    \/ /\ pc \in {"select", "packets", "commands"}
       /\ Orphans # {} /\ Cardinality(ranges) > 1
       /\ Abort

Command ==
    \E sender \in Sender :
        \/ \E matches \in BOOLEAN : maap_init_client(sender, matches)
        \/ \E attempt \in AttemptBases, length \in Lengths :
                maap_reserve_range(sender, attempt, length)
        \/ \E id \in 1 .. MaxId :
                \/ maap_release_range(sender, id)
                \/ maap_range_status(sender, id)
                \/ maap_yield_range(sender, id)

Loop == ServeQueues \/ EndOfTurn \/ HandleConflict \/ ConflictAborts \/ EndPacket
            \/ HandleTimer \/ EndTimer

Next == \/ Loop
        \/ Tick
        \/ Timeout
        \/ Command
        \/ \E p \in Packets : ReceivePacket(p)
        \/ maap_deinit_client

Spec == Init /\ [][Next]_vars

-----------------------------------------------------------------------------
(* Type correctness: what the structures of maap.h and the local variables *)
(* of the handlers hold.                                                   *)
TypeOK ==
    /\ initialized \in BOOLEAN
    /\ range \in [Ptr -> RangeObj \cup {NULL}]
    /\ ranges \subseteq Node
    /\ timer_queue \in Seq(Ptr)
    /\ timer \in Nat
    /\ maxid \in 0 .. MaxId
    /\ pc \in PCs /\ ret \in {"top", "packets", "commands"}
    /\ pkt \in PktType \cup {NULL}
    /\ num_overlaps \in Nat

(* The two lists a Range is linked from agree.  Every Range in use is in   *)
(* the timer queue exactly once, so it is freed exactly once (by           *)
(* maap_handle_timer) and never leaked.  The nodes of the interval tree    *)
(* are those of the Ranges that are not released (and the nodes without a  *)
(* Range that assign_interval may leave): after a release, a lost probe or *)
(* a yield nothing in the tree points at memory the timer is about to free. *)
QueueTreeAgree ==
    /\ \A i, j \in DOMAIN timer_queue : timer_queue[i] = timer_queue[j] => i = j
    /\ \A r \in Ptr : r \in Allocated <=> \E i \in DOMAIN timer_queue : timer_queue[i] = r
    /\ \A r \in Live : /\ range[r].interval # NULL
                       /\ NodeOf(range[r].interval, r) \in ranges
    /\ \A n \in ranges : n.data # NULL =>
            /\ n.data \in Live
            /\ n = NodeOf(range[n.data].interval, n.data)

(* No two nodes of the interval tree overlap: the server never probes for, *)
(* announces or hands out an address twice, whatever moves conflicting     *)
(* packets force on it.                                                    *)
Disjoint ==
    /\ \A n \in ranges : n.low <= n.high
    /\ \A m, n \in ranges : m # n => ~check_overlap(m, n)

(* A yielded range and its replacement share their id (maap.c "Use the     *)
(* same ID as the yielded range"), yet release, status and yield, which    *)
(* stop at the first match, can meet only one that is not released.        *)
OneLiveRangePerId ==
    \A r, s \in Live : range[r].id = range[s].id => r = s

(* The queue is in the order of its times, and mc->timer is set to the     *)
(* time of its head whenever the daemon waits, so that select() wakes up   *)
(* for the earliest Range.  maap_release_range does not set the timer.     *)
TimerArmed ==
    /\ \A i, j \in DOMAIN timer_queue : i < j => NoLater(range, timer_queue[i], timer_queue[j])
    /\ pc \in {"top", "select", "packets", "commands"} /\ timer_queue # <<>>
            => timer = range[Head(timer_queue)].next_act_time

(* The search of maap_handle_packet for "the first item that is still      *)
(* flagged" always finds one: "We should never get here!" is right, and    *)
(* no flag outlives the packet that set it.                                *)
FlagsCounted ==
    pc # "aborted" =>
        Cardinality({r \in Allocated : range[r].overlapping})
            = IF pc = "conflict" THEN num_overlaps ELSE 0

(* When every notification has been sent, a client that adds up what it    *)
(* was told about an id (ACQUIRED, YIELDED, RELEASED) is right about the   *)
(* addresses the server defends for it under that id, even after conflicts *)
(* have taken them away and after another client has released them.        *)
ClientIsRight ==
    pc = "select" => \A s \in Sender, id \in 1 .. MaxId :
        LET held == {r \in Found(id, {"DEFENDING"}) : range[r].sender = s}
        IN  told[s][id] = IF held = {} THEN NULL
                          ELSE range[CHOOSE r \in held : TRUE].interval

(* When the daemon has stopped no Range object is left on the heap.        *)
NothingLeaks == pc = "stopped" => Allocated = {}

(* The addresses of a range that is being defended never change, and it is *)
(* never probed for again: the only way out is to be released.             *)
DefendedIsStable ==
    [][\A r \in Ptr :
        /\ range[r] # NULL /\ range[r].state = "DEFENDING"
        /\ range'[r] # NULL /\ range'[r].state # "RELEASED"
        => /\ range'[r].state = "DEFENDING"
           /\ range'[r].interval = range[r].interval
           /\ range'[r].id = range[r].id]_vars

(* The inductive invariant: the statements above that are about the heap,  *)
(* the tree and the queue, and what keeps them true.  Ids are never used   *)
(* again, maap_handle_packet works on a packet, and before the pool is     *)
(* known (and after maap_deinit_client) there is nothing to free.          *)
Consistent ==
    /\ TypeOK
    /\ QueueTreeAgree
    /\ Disjoint
    /\ OneLiveRangePerId
    /\ \A r \in Allocated : range[r].id <= maxid
    /\ pc = "conflict" => pkt # NULL
    /\ pc = "stopped" => ~initialized
    /\ ~initialized => Allocated = {} /\ ranges = {} /\ timer_queue = <<>>

-----------------------------------------------------------------------------
(* The daemon finishes what it has begun (Loop), and time passes (Tick).   *)
(* Two loops of the daemon end only when the input runs dry for a moment:  *)
(* the one that reads packets ends when no packet is waiting (EndOfTurn),  *)
(* and select() times out when no descriptor is ready (Timeout).  Strong   *)
(* fairness says that the input is not so dense that this never happens.   *)
Fairness == /\ WF_vars(Loop) /\ SF_vars(Tick)
            /\ SF_vars(EndOfTurn) /\ SF_vars(Timeout)
FairSpec == Spec /\ Fairness

Halted == pc \in {"stopped", "aborted"}
InState(r, state) == range[r] # NULL /\ range[r].state = state

(* Once the other nodes stop sending packets about the pool, every range   *)
(* that is being probed for is won or given up: the reservation ends with  *)
(* ACQUIRED, as maap.h promises, although select() serves the timer only   *)
(* when nothing else is ready.                                             *)
ProbingEnds ==
    <>[][\A p \in Packets : ~ReceivePacket(p)]_vars
        => \A r \in Ptr : InState(r, "PROBING") ~> (~InState(r, "PROBING") \/ Halted)

(* "memory for range will be freed the next time its timer elapses": a     *)
(* released Range is freed even while conflicts and commands keep coming.  *)
ReleasedIsFreed ==
    \A r \in Ptr : InState(r, "RELEASED") ~> (range[r] = NULL \/ Halted)

-----------------------------------------------------------------------------
(* Statements of the source that the code does not keep.                   *)

(* remove_range_interval asserts that every node left in the tree has a    *)
(* Range: "assert(range);" (maap.c:267).                                   *)
EveryNodeHasRange == \A n \in ranges : n.data # NULL

(* "Flag all the range items that overlap with the incoming packet."       *)
(* (maap.c:878)                                                            *)
AllOverlapsFlagged ==
    [][pc # "conflict" /\ pc' = "conflict" =>
        \A r \in Live :
            check_overlap([low  |-> AddressBase + range[r].interval.low,
                           high |-> AddressBase + range[r].interval.high],
                          alloc_interval(pkt'.start, pkt'.count))
            => range'[r].overlapping]_vars

(* "A MAAP_NOTIFY_ACQUIRED notification will be sent when the process is   *)
(* complete (either succeeded or failed)." (maap.h:140-141): a notification    *)
(* leaves the queue only by being sent.                                    *)
NotificationsAreSent ==
    [][notifies # <<>> /\ notifies' # notifies /\ pc' # "stopped" =>
        pc = "top" \/ IsPrefix(notifies, notifies')]_vars
=============================================================================
