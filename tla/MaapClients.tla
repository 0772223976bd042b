----------------------------- MODULE MaapClients -----------------------------
(***************************************************************************)
(* The client connections of the MAAP server: the part of the loop of      *)
(* act_as_server (daemons/maap/linux/src/maap_daemon.c) that accepts them, *)
(* keeps them in the slots of clientfd[], reads their commands and sends   *)
(* them notifications.  The engine that makes the notifications is Maap.   *)
(* The daemon knows a client only by its descriptor, which the kernel      *)
(* gives to a later client once it is closed.                              *)
(***************************************************************************)
EXTENDS Naturals, FiniteSets, FiniteSetsExt

CONSTANTS
    MAX_CLIENT_CONNECTIONS,
    Fd,          \* the descriptors the kernel can give to clients
    Client,      \* the clients, each of which connects at most once
    None         \* the -1 of an empty slot

ASSUME ClientsAssumption ==
    /\ MAX_CLIENT_CONNECTIONS \in Nat \ {0}
    /\ Fd \subseteq Nat /\ MAX_CLIENT_CONNECTIONS < Cardinality(Fd)
    /\ None \notin Fd \cup Client

Slot == 0 .. (MAX_CLIENT_CONNECTIONS - 1)

VARIABLES
    clientfd,         \* the slots
    nextclientindex,
    master,           \* the client descriptors that select() watches
    read_fds,         \* what is left of those that it found ready
    conn,             \* the kernel's view: the client behind each open descriptor
    backlog,          \* clients that have connected and wait to be accepted
    fresh,            \* clients that have not connected yet
    ranges,           \* the senders recorded for ranges, with the client meant
    accepting, exit_received, pc,
    delivered,        \* the last notification: the client meant and the one it reached
    rejected          \* whether the last step turned a client away

vars == <<clientfd, nextclientindex, master, read_fds, conn, backlog, fresh, ranges,
          accepting, exit_received, pc, delivered, rejected>>

Open == {fd \in Fd : conn[fd] # None}
Used == {clientfd[i] : i \in Slot} \ {None}

-----------------------------------------------------------------------------
Init ==
    /\ clientfd = [i \in Slot |-> None]
    /\ nextclientindex = 0
    /\ master = {} /\ read_fds = {}
    /\ conn = [fd \in Fd |-> None]
    /\ backlog = {} /\ fresh = Client
    /\ ranges = {}
    /\ accepting = FALSE /\ exit_received = FALSE
    /\ pc = "top"
    /\ delivered = None /\ rejected = FALSE

(* A client connects, at any time.                                         *)
Connect(c) ==
    /\ pc # "stopped"
    /\ c \in fresh
    /\ fresh' = fresh \ {c} /\ backlog' = backlog \cup {c}
    /\ delivered' = None /\ rejected' = FALSE
    /\ UNCHANGED <<clientfd, nextclientindex, master, read_fds, conn, ranges,
                   accepting, exit_received, pc>>

(* A notification for the sender of some range, sent to the first slot     *)
(* with that descriptor; there may be none left.                           *)
Notify(s) ==
    /\ pc = "top"
    /\ s \in ranges
    /\ delivered' = [meant |-> s.client,
                     reached |-> IF s.fd \in Used THEN conn[s.fd] ELSE None]
    /\ rejected' = FALSE
    /\ UNCHANGED <<clientfd, nextclientindex, master, read_fds, conn, backlog, fresh,
                   ranges, accepting, exit_received, pc>>

Select(ready) ==
    /\ pc = "top"
    /\ ready \subseteq master
    /\ read_fds' = ready
    /\ accepting' = (backlog # {})
    /\ ready # {} \/ accepting'
    /\ pc' = "turn"
    /\ delivered' = None /\ rejected' = FALSE
    /\ UNCHANGED <<clientfd, nextclientindex, master, conn, backlog, fresh, ranges,
                   exit_received>>

(* Mutant: the search finds an empty slot, and the caller uses another.    *)
FoundOtherSlot == \E i \in Slot \ {nextclientindex} : clientfd[i] = None

(* The search for an empty slot looks at the slot it started from in every *)
(* turn, so it goes all the way round.                                     *)
FoundSlot == \E i \in Slot \ {nextclientindex} : clientfd[nextclientindex] = None

(* Mutant: the index runs off the end of the array.                        *)
SlotAfterUnwrapped(i) == i + 1
SlotAfter(i) == (i + 1) % MAX_CLIENT_CONNECTIONS

(* accept() returns the lowest descriptor that is not in use.              *)
Accept(c) ==
    LET newfd == Min(Fd \ Open)
    IN  /\ pc = "turn" /\ accepting
        /\ c \in backlog
        /\ accepting' = FALSE
        /\ backlog' = backlog \ {c}
        /\ delivered' = None
        /\ \/ /\ clientfd[nextclientindex] # None /\ ~FoundSlot
              /\ rejected' = TRUE
              /\ UNCHANGED <<clientfd, nextclientindex, master, conn>>
           \/ /\ clientfd[nextclientindex] = None \/ FoundSlot
              /\ conn' = [conn EXCEPT ![newfd] = c]
              /\ clientfd' = [clientfd EXCEPT ![nextclientindex] = newfd]
              /\ nextclientindex' = SlotAfter(nextclientindex)
              /\ master' = master \cup {newfd}
              /\ rejected' = FALSE
        /\ UNCHANGED <<read_fds, fresh, ranges, exit_received, pc>>

(* The loop over the slots reaches slot i.                                 *)
Reading(i) ==
    /\ pc = "turn" /\ ~accepting
    /\ clientfd[i] \in read_fds
    /\ \A j \in Slot : j < i => clientfd[j] \notin read_fds
    /\ read_fds' = read_fds \ {clientfd[i]}
    /\ delivered' = None /\ rejected' = FALSE

(* Mutant: the descriptor stays in the set.                                *)
FD_KEEP(fd, set) == set
FD_CLR(fd, set) == set \ {fd}

(* recv() returns nothing or an error.                                     *)
Close(i) ==
    /\ Reading(i)
    /\ conn' = [conn EXCEPT ![clientfd[i]] = None]
    /\ master' = FD_CLR(clientfd[i], master)
    /\ clientfd' = [clientfd EXCEPT ![i] = None]
    /\ nextclientindex' = i
    /\ UNCHANGED <<backlog, fresh, ranges, accepting, exit_received, pc>>

(* A command; "reserve" makes the engine remember its sender, "exit" ends  *)
(* the server.                                                             *)
Command(i, kind) ==
    /\ Reading(i)
    /\ ranges' = IF kind = "reserve"
                 THEN ranges \cup {[fd |-> clientfd[i], client |-> conn[clientfd[i]]]}
                 ELSE ranges
    /\ exit_received' = (exit_received \/ kind = "exit")
    /\ UNCHANGED <<clientfd, nextclientindex, master, conn, backlog, fresh, accepting, pc>>

EndOfTurn ==
    /\ pc = "turn" /\ ~accepting /\ read_fds = {}
    /\ pc' = IF exit_received THEN "stopped" ELSE "top"
    /\ IF exit_received
       THEN /\ conn' = [fd \in Fd |-> IF fd \in Used THEN None ELSE conn[fd]]
            /\ clientfd' = [i \in Slot |-> None]
       ELSE UNCHANGED <<conn, clientfd>>
    /\ delivered' = None /\ rejected' = FALSE
    /\ UNCHANGED <<nextclientindex, master, read_fds, backlog, fresh, ranges,
                   accepting, exit_received>>

Next ==
    \/ \E c \in Client : Connect(c) \/ Accept(c)
    \/ \E s \in ranges : Notify(s)
    \/ \E ready \in SUBSET Fd : Select(ready)
    \/ \E i \in Slot : Close(i) \/ \E kind \in {"reserve", "status", "exit"} : Command(i, kind)
    \/ EndOfTurn

Spec == Init /\ [][Next]_vars

-----------------------------------------------------------------------------
(* Type correctness of the slots and of the descriptor sets.               *)
TypeOK ==
    /\ clientfd \in [Slot -> Fd \cup {None}]
    /\ nextclientindex \in Slot
    /\ master \subseteq Fd /\ read_fds \subseteq Fd
    /\ conn \in [Fd -> Client \cup {None}]
    /\ backlog \subseteq Client /\ fresh \subseteq Client
    /\ ranges \subseteq [fd : Fd, client : Client]
    /\ accepting \in BOOLEAN /\ exit_received \in BOOLEAN /\ rejected \in BOOLEAN
    /\ pc \in {"top", "turn", "stopped"}

(* No accepted connection is lost: every open descriptor is in exactly one *)
(* slot, whatever order clients come and go in, so it is read while the    *)
(* server runs and closed when the server stops.                           *)
NoConnectionLost ==
    /\ Used = Open
    /\ \A i, j \in Slot : clientfd[i] = clientfd[j] /\ clientfd[i] # None => i = j
    /\ pc = "stopped" => Open = {}

(* select() watches the descriptors of the slots and no closed one, which  *)
(* would make it fail and end the server.                                  *)
WatchedIsOpen == pc # "stopped" => master = Open /\ read_fds \subseteq master

-----------------------------------------------------------------------------
(* Statements of the source that the code does not keep.                   *)

(* "No more client slots available.  Connection rejected."                 *)
(* (maap_daemon.c): a client is turned away only when every slot is used.  *)
RejectedOnlyWhenFull == rejected => \A i \in Slot : clientfd[i] # None

(* The sender kept with a range is "Sender information pointer for the     *)
(* entity that requested the range" (maap.h): a notification about it      *)
(* reaches that client or nobody.                                          *)
SenderIsRequester == delivered # None => delivered.reached \in {delivered.meant, None}
=============================================================================
