---------------------------- MODULE RelayServer ----------------------------
(***************************************************************************)
(* The relay server (intercom_test/relay_server/relay_server.c).  Each     *)
(* accepted connection has a thread of its own.  A device's thread enters  *)
(* it into a table of slots and waits for it to hang up; a client's thread *)
(* takes a device out of the table and copies bytes both ways with two     *)
(* more threads.  The table is guarded by one lock: a locked section is    *)
(* one step, and everything between two of them interleaves.               *)
(*                                                                         *)
(* Threads know sockets by number, and a number is given out again once it *)
(* has been closed.  sock says which connection a number stands for now.   *)
(***************************************************************************)
EXTENDS Naturals

CONSTANTS
    Conn,          \* the connections accepted in a run, one thread each
    NoConn,
    Id,            \* device ids, of at most 63 characters (relay_client.c:35)
    Fd,            \* socket numbers
    MAX_DEVICES,   \* slots of the table
    ReuseNumbers   \* whether accept may give out a number a second time

ASSUME RelayServerAssumption ==
    /\ NoConn \notin Conn
    /\ Id # {} /\ Fd # {}
    /\ MAX_DEVICES \in Nat \ {0}
    /\ ReuseNumbers \in BOOLEAN

VARIABLES
    pc,       \* where each connection's thread is
    fd,       \* the thread's own socket number
    slot,     \* the slot a thread registered or took (its local variable)
    dev,      \* a client's thread: the number of the device's socket
    dirs,     \* a client's thread: the copying directions still running
    table,    \* g_devices
    sock,     \* the connection a number stands for, or NoConn
    used,     \* the numbers given out so far
    up,       \* whether a connection's stream is still open both ways
    claimed,  \* history: the connection a client's thread took for bridging
    said      \* history: the first word sent on each connection

vars == <<pc, fd, slot, dev, dirs, table, sock, used, up, claimed, said>>

Slot == 1..MAX_DEVICES
Both == {"to_device", "to_client"}
SomeFd == CHOOSE n \in Fd : TRUE
SomeId == CHOOSE d \in Id : TRUE

Init ==
    /\ pc = [k \in Conn |-> "none"]
    /\ fd = [k \in Conn |-> SomeFd]
    /\ slot = [k \in Conn |-> 1]
    /\ dev = [k \in Conn |-> SomeFd]
    /\ dirs = [k \in Conn |-> {}]
    /\ table = [s \in Slot |-> [in_use |-> FALSE, bridging |-> FALSE,
                                id |-> SomeId, sock |-> SomeFd]]
    /\ sock = [n \in Fd |-> NoConn]
    /\ used = {}
    /\ up = [k \in Conn |-> FALSE]
    /\ claimed = [k \in Conn |-> NoConn]
    /\ said = [k \in Conn |-> "nothing"]

Goto(k, label) == pc' = [pc EXCEPT ![k] = label]
----------------------------------------------------------------------------
(* Sockets.                                                                *)

\* close(n): the number is free again, and the stream it stood for ends.
Close(n) ==
    /\ sock' = [sock EXCEPT ![n] = NoConn]
    /\ up' = [k \in Conn |-> up[k] /\ sock[n] # k]

\* shutdown(n, SHUT_RDWR): the stream ends, the number stays taken.
Shutdown(n) ==
    /\ up' = [k \in Conn |-> up[k] /\ sock[n] # k]
    /\ UNCHANGED sock

\* send(n, w): the word goes to whatever connection the number stands for.
Send(n, w) ==
    said' = [k \in Conn |-> IF sock[n] = k /\ said[k] = "nothing" THEN w
                            ELSE said[k]]

\* accept() returns a connection, and a thread is started for it unless that
\* fails.
Accept(k) ==
    /\ pc[k] = "none"
    /\ \E n \in Fd :
          /\ sock[n] = NoConn
          /\ n \in used => ReuseNumbers
          /\ fd' = [fd EXCEPT ![k] = n]
          /\ sock' = [sock EXCEPT ![n] = k]
          /\ used' = used \cup {n}
    /\ up' = [up EXCEPT ![k] = TRUE]
    /\ \/ Goto(k, "read")
       \/ Goto(k, "no_thread")
    /\ UNCHANGED <<slot, dev, dirs, table, claimed, said>>

\* The device or client at the other end hangs up.
PeerCloses(k) ==
    /\ up[k]
    /\ up' = [up EXCEPT ![k] = FALSE]
    /\ UNCHANGED <<pc, fd, slot, dev, dirs, table, sock, used, claimed, said>>

\* The thread closes its own socket and ends.
CloseOwn(k) ==
    /\ pc[k] = "close"
    /\ Close(fd[k])
    /\ Goto(k, "done")
    /\ UNCHANGED <<fd, slot, dev, dirs, table, used, claimed, said>>
----------------------------------------------------------------------------
(* The table.                                                              *)

Visible(s) == table[s].in_use /\ ~table[s].bridging

\* The first visible slot of the id, if there is one.
find_device(d) ==
    {s \in Slot : /\ Visible(s) /\ table[s].id = d
                  /\ \A t \in 1..(s-1) : ~(Visible(t) /\ table[t].id = d)}

\* The first slot not in use, if there is one.
alloc_device_slot(tab) ==
    {s \in Slot : ~tab[s].in_use /\ \A t \in 1..(s-1) : tab[t].in_use}

\* Mutant of Without: the earlier registration stays.
WithoutNone(S) == table

\* The table without the registrations of S.
Without(S) ==
    [s \in Slot |-> IF s \in S THEN [table[s] EXCEPT !.in_use = FALSE]
                    ELSE table[s]]

\* The first line cannot be read.
ReadFails(k) ==
    /\ pc[k] = "read"
    /\ Goto(k, "close")
    /\ UNCHANGED <<fd, slot, dev, dirs, table, sock, used, up, claimed, said>>

\* An unknown command, a wrong token, a malformed id; later also a full table
\* and an unknown device.
Refuse(k, from) ==
    /\ pc[k] = from
    /\ Send(fd[k], "ERROR")
    /\ Goto(k, "close")
    /\ UNCHANGED <<fd, slot, dev, dirs, table, sock, used, up, claimed>>

\* REGISTER d: an earlier registration is closed, then a slot is taken.  The
\* slot's bridging flag is left as it is.
Register(k, d) ==
    LET old == find_device(d)
        tab == Without(old)
    IN  /\ pc[k] = "read"
        /\ \/ /\ old = {}
              /\ UNCHANGED <<sock, up>>
           \/ \E s \in old : Close(table[s].sock)
        /\ \/ /\ alloc_device_slot(tab) = {}
              /\ table' = tab
              /\ Goto(k, "refuse")
              /\ UNCHANGED slot
           \/ \E s \in alloc_device_slot(tab) :
                /\ table' = [tab EXCEPT ![s].in_use = TRUE,
                                        ![s].id = d, ![s].sock = fd[k]]
                /\ slot' = [slot EXCEPT ![k] = s]
                /\ Goto(k, "registered")
        /\ UNCHANGED <<fd, dev, dirs, used, claimed, said>>

\* The answer goes out after the lock is released.
SendOk(k) ==
    /\ pc[k] = "registered"
    /\ Send(fd[k], "OK")
    /\ Goto(k, "wait")
    /\ UNCHANGED <<fd, slot, dev, dirs, table, sock, used, up, claimed>>

\* The peeking recv returns 0 or fails, because the device hung up or the
\* socket was closed or shut down by another thread.
PeekEnds(k) ==
    /\ pc[k] = "wait"
    /\ ~up[k]
    /\ Goto(k, "unregister")
    /\ UNCHANGED <<fd, slot, dev, dirs, table, sock, used, up, claimed, said>>

\* Mutant of Unregister: the slot is given up whatever it holds.
UnregisterAny(k) ==
    /\ pc[k] = "unregister"
    /\ table' = [table EXCEPT ![slot[k]].in_use = FALSE]
    /\ Goto(k, "close")
    /\ UNCHANGED <<fd, slot, dev, dirs, sock, used, up, claimed, said>>

\* The slot is given up if it still holds this socket number.
Unregister(k) ==
    /\ pc[k] = "unregister"
    /\ table' = [table EXCEPT ![slot[k]].in_use =
                     table[slot[k]].in_use /\ table[slot[k]].sock # fd[k]]
    /\ Goto(k, "close")
    /\ UNCHANGED <<fd, slot, dev, dirs, sock, used, up, claimed, said>>
----------------------------------------------------------------------------
(* Bridging.                                                               *)

\* CONNECT d: the device's slot is marked and its socket number taken.
Connect(k, d) ==
    /\ pc[k] = "read"
    /\ \/ /\ find_device(d) = {}
          /\ Goto(k, "refuse")
          /\ UNCHANGED <<slot, dev, table, claimed>>
       \/ \E s \in find_device(d) :
             /\ table' = [table EXCEPT ![s].bridging = TRUE]
             /\ slot' = [slot EXCEPT ![k] = s]
             /\ dev' = [dev EXCEPT ![k] = table[s].sock]
             /\ claimed' = [claimed EXCEPT ![k] = sock[table[s].sock]]
             /\ Goto(k, "notify")
    /\ UNCHANGED <<fd, dirs, sock, used, up, said>>

NotifyClient(k) ==
    /\ pc[k] = "notify"
    /\ Send(fd[k], "OK")
    /\ Goto(k, "notify_device")
    /\ UNCHANGED <<fd, slot, dev, dirs, table, sock, used, up, claimed>>

\* BRIDGE goes out, then the two copying threads start.  Without memory
\* neither does, and Windows goes on when one cannot be created.
NotifyDevice(k) ==
    /\ pc[k] = "notify_device"
    /\ Send(dev[k], "BRIDGE")
    /\ \E D \in SUBSET Both : dirs' = [dirs EXCEPT ![k] = D]
    /\ Goto(k, "bridge")
    /\ UNCHANGED <<fd, slot, dev, table, sock, used, up, claimed>>

\* The connections a direction reads from and writes to: the number's, and
\* the one that a recv entered before the number was closed still waits on.
Source(k, x) == IF x = "to_device" THEN {sock[fd[k]], k}
                ELSE {sock[dev[k]], claimed[k]}
Target(k, x) == IF x = "to_device" THEN dev[k] ELSE fd[k]

Ended(j) == j # NoConn => ~up[j]

\* Mutant of EndDirection: the other side is not shut down.
EndSilently(k, x) ==
    /\ pc[k] = "bridge"
    /\ x \in dirs[k]
    /\ \/ \E j \in Source(k, x) : Ended(j)
       \/ Ended(sock[Target(k, x)])
    /\ dirs' = [dirs EXCEPT ![k] = @ \ {x}]
    /\ UNCHANGED <<pc, fd, slot, dev, table, sock, used, up, claimed, said>>

\* A direction ends when its recv or its send fails, and shuts the socket it
\* writes to down.
EndDirection(k, x) ==
    /\ pc[k] = "bridge"
    /\ x \in dirs[k]
    /\ \/ \E j \in Source(k, x) : Ended(j)
       \/ Ended(sock[Target(k, x)])
    /\ Shutdown(Target(k, x))
    /\ dirs' = [dirs EXCEPT ![k] = @ \ {x}]
    /\ UNCHANGED <<pc, fd, slot, dev, table, used, claimed, said>>

\* Both directions joined: the slot is freed, whoever holds it by now.
Release(k) ==
    /\ pc[k] = "bridge"
    /\ dirs[k] = {}
    /\ table' = [table EXCEPT ![slot[k]].in_use = FALSE,
                              ![slot[k]].bridging = FALSE]
    /\ Goto(k, "close_client")
    /\ UNCHANGED <<fd, slot, dev, dirs, sock, used, up, claimed, said>>

CloseClient(k) ==
    /\ pc[k] = "close_client"
    /\ Close(fd[k])
    /\ Goto(k, "close_device")
    /\ UNCHANGED <<fd, slot, dev, dirs, table, used, claimed, said>>

CloseDevice(k) ==
    /\ pc[k] = "close_device"
    /\ Close(dev[k])
    /\ Goto(k, "done")
    /\ UNCHANGED <<fd, slot, dev, dirs, table, used, claimed, said>>
----------------------------------------------------------------------------
\* The thread reads its peer's first line, and what it does after that.
ReadLine(k) ==
    \/ \E d \in Id : Register(k, d) \/ Connect(k, d)
    \/ ReadFails(k) \/ Refuse(k, "read")

Step(k) ==
    \/ Refuse(k, "refuse")
    \/ SendOk(k) \/ PeekEnds(k) \/ Unregister(k) \/ CloseOwn(k)
    \/ NotifyClient(k) \/ NotifyDevice(k) \/ Release(k)
    \/ CloseClient(k) \/ CloseDevice(k)

Next ==
    \E k \in Conn :
        \/ Accept(k) \/ PeerCloses(k) \/ ReadLine(k) \/ Step(k)
        \/ \E x \in Both : EndDirection(k, x)

Spec == Init /\ [][Next]_vars

\* Every thread that is not blocked is scheduled in the end.  A direction is
\* blocked until its own recv returns; a failing send needs data to be sent.
FairSpec ==
    /\ Spec
    /\ \A k \in Conn :
          /\ WF_vars(Step(k))
          /\ \A x \in Both :
                WF_vars(EndDirection(k, x) /\ \A j \in Source(k, x) : Ended(j))
----------------------------------------------------------------------------
(* Properties.                                                             *)

Labels == {"none", "no_thread", "read", "refuse", "registered", "wait",
           "unregister", "close", "notify", "notify_device", "bridge",
           "close_client", "close_device", "done"}

\* The variables stay in the ranges handle_connection relies on.
TypeOK ==
    /\ pc \in [Conn -> Labels]
    /\ fd \in [Conn -> Fd]
    /\ slot \in [Conn -> Slot]
    /\ dev \in [Conn -> Fd]
    /\ dirs \in [Conn -> SUBSET Both]
    /\ table \in [Slot -> [in_use : BOOLEAN, bridging : BOOLEAN,
                           id : Id, sock : Fd]]
    /\ sock \in [Fd -> Conn \cup {NoConn}]
    /\ used \subseteq Fd
    /\ up \in [Conn -> BOOLEAN]
    /\ claimed \in [Conn -> Conn \cup {NoConn}]
    /\ said \in [Conn -> {"nothing", "OK", "ERROR", "BRIDGE"}]

\* At most one registration of an id can be found, so which device a client
\* reaches never depends on the order of the slots ("Remove existing
\* registration for this device", relay_server.c:253).
UniqueRegistration ==
    \A s, t \in Slot :
        Visible(s) /\ Visible(t) /\ table[s].id = table[t].id => s = t

Bridging(k) == pc[k] \in {"notify", "notify_device", "bridge"}

\* A slot is marked as bridging exactly while one client's thread works on it:
\* no two clients take the same device, and the mark is never left behind.
OneClientPerSlot ==
    /\ \A s \in Slot :
          table[s].bridging <=> \E k \in Conn : Bridging(k) /\ slot[k] = s
    /\ \A j, k \in Conn :
          Bridging(j) /\ Bridging(k) /\ slot[j] = slot[k] => j = k

\* The table under any interleaving of the threads: an id leads to one device,
\* and a device to one client (relay_server.c:253-263, 315-331).
TableSound == UniqueRegistration /\ OneClientPerSlot

\* "exits when either side closes" (relay_server.c:125): once the device or
\* the client is gone, both directions end, the slot is freed and the client's
\* thread finishes.
BridgeEnds ==
    \A k \in Conn :
        (pc[k] = "bridge" /\ dirs[k] = Both /\ (~up[k] \/ Ended(claimed[k])))
            ~> (pc[k] = "done")

\* "Device keeps connection open, relay holds it for bridging"
\* (relay_server.c:11): a device that was told OK and is still connected has its
\* entry in the table, although another connection of its id may have replaced
\* one before it there.  The exceptions: its slot has been bridged, whose end
\* frees the slot for whoever holds it (line 347), and numbers given out again.
HeldUnlessSlotBridged ==
    \A k \in Conn :
        /\ ~ReuseNumbers /\ pc[k] = "wait" /\ up[k]
        /\ \A j \in Conn : claimed[j] # NoConn => slot[j] # slot[k]
        => table[slot[k]].in_use /\ table[slot[k]].sock = fd[k]
=============================================================================
