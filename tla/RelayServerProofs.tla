------------------------- MODULE RelayServerProofs -------------------------
(***************************************************************************)
(* Proofs about the relay server's table for any number of connections,    *)
(* slots, ids and socket numbers, with numbers reused or not.              *)
(***************************************************************************)
EXTENDS RelayServer, TLAPS

IInv == TypeOK /\ UniqueRegistration /\ OneClientPerSlot

Entry == [in_use : BOOLEAN, bridging : BOOLEAN, id : Id, sock : Fd]

\* Everything a step may do to the table and to the threads' places without
\* touching the two invariants: no slot becomes visible, no mark changes, and
\* no thread enters or leaves a bridge or changes its slot while in one.
LEMMA Harmless ==
    ASSUME IInv,
           \A s \in Slot : table'[s].in_use => table[s].in_use,
           \A s \in Slot : table'[s].bridging = table[s].bridging
                           /\ table'[s].id = table[s].id,
           \A k \in Conn : Bridging(k)' <=> Bridging(k),
           \A k \in Conn : Bridging(k) => slot'[k] = slot[k]
    PROVE  UniqueRegistration' /\ OneClientPerSlot'
<1>1. UniqueRegistration'
  BY ZenonT(60) DEF IInv, UniqueRegistration, Visible, Slot
<1>2. OneClientPerSlot'
  BY DEF IInv, OneClientPerSlot, Slot
<1> QED BY <1>1, <1>2, ZenonT(60)

\* Steps that leave the table alone and do not enter or leave a bridge.
LEMMA TableUntouched ==
    ASSUME IInv, UNCHANGED <<table, slot>>, NEW k \in Conn, NEW label \in Labels,
           Goto(k, label), ~Bridging(k),
           label \notin {"notify", "notify_device", "bridge"}
    PROVE  UniqueRegistration' /\ OneClientPerSlot'
<1>1. pc \in [Conn -> Labels]
  BY ZenonT(60) DEF IInv, TypeOK
<1>2. \A j \in Conn : Bridging(j)' <=> Bridging(j)
  BY <1>1, ZenonT(60) DEF Goto, Bridging
<1> QED BY <1>2, Harmless, ZenonT(60)

\* close and shutdown keep the types of what they write.
LEMMA SocketTypes ==
    ASSUME TypeOK, NEW n \in Fd, Close(n) \/ Shutdown(n)
    PROVE  /\ sock' \in [Fd -> Conn \cup {NoConn}]
           /\ up' \in [Conn -> BOOLEAN]
BY ZenonT(60) DEF TypeOK, Close, Shutdown

\* A reply sent on a socket keeps the type of what connections were told.
LEMMA SendTypes ==
    ASSUME TypeOK, NEW n \in Fd, NEW w \in {"OK", "ERROR", "BRIDGE"}, Send(n, w)
    PROVE  said' \in [Conn -> {"nothing", "OK", "ERROR", "BRIDGE"}]
BY ZenonT(60) DEF TypeOK, Send

\* A thread moves between places of handle_connection.
LEMMA GotoTypes ==
    ASSUME TypeOK, NEW k \in Conn, NEW label \in Labels, Goto(k, label)
    PROVE  pc' \in [Conn -> Labels]
BY ZenonT(60) DEF TypeOK, Goto

\* Removing entries (relay_server.c:253-258) clears in_use and nothing else.
LEMMA WithoutEntry ==
    ASSUME TypeOK, NEW S, NEW s \in Slot
    PROVE  /\ Without(S)[s] \in Entry
           /\ Without(S)[s].in_use = (table[s].in_use /\ s \notin S)
           /\ Without(S)[s].bridging = table[s].bridging
           /\ Without(S)[s].id = table[s].id
           /\ Without(S)[s].sock = table[s].sock
<1>1. table[s] \in Entry
  BY ZenonT(60) DEF TypeOK, Entry
<1> QED BY <1>1, ZenonT(60) DEF Without, Entry

\* REGISTER keeps the table's type.
LEMMA RegisterType ==
    ASSUME TypeOK, NEW k \in Conn, NEW d \in Id, Register(k, d)
    PROVE  TypeOK'
<1> DEFINE tab == Without(find_device(d))
<1>1. tab \in [Slot -> Entry]
  <2>1. tab = [s \in Slot |-> tab[s]]
    BY ZenonT(60) DEF Without
  <2> HIDE DEF tab
  <2>2. \A s \in Slot : tab[s] \in Entry
    BY WithoutEntry, ZenonT(60) DEF tab
  <2> QED BY <2>1, <2>2, ZenonT(60)
<1>2. sock' \in [Fd -> Conn \cup {NoConn}] /\ up' \in [Conn -> BOOLEAN]
  <2>1. CASE UNCHANGED <<sock, up>>
    BY <2>1, ZenonT(60) DEF TypeOK
  <2>2. ASSUME NEW s \in find_device(d), Close(table[s].sock)
        PROVE  sock' \in [Fd -> Conn \cup {NoConn}] /\ up' \in [Conn -> BOOLEAN]
    <3>1. table[s].sock \in Fd
      BY ZenonT(60) DEF find_device, TypeOK
    <3> QED BY <2>2, <3>1, SocketTypes, ZenonT(60)
  <2> QED BY <2>1, <2>2, ZenonT(60) DEF Register
<1>3. "refuse" \in Labels /\ "registered" \in Labels
  BY ZenonT(60) DEF Labels
<1>4. /\ pc' \in [Conn -> Labels]
      /\ slot' \in [Conn -> Slot]
      /\ table' \in [Slot -> Entry]
  <2>1. CASE table' = tab /\ Goto(k, "refuse") /\ UNCHANGED slot
    BY <1>1, <1>3, <2>1, GotoTypes, ZenonT(60) DEF TypeOK
  <2>2. ASSUME NEW s \in alloc_device_slot(tab),
               table' = [tab EXCEPT ![s].in_use = TRUE,
                                    ![s].id = d, ![s].sock = fd[k]],
               slot' = [slot EXCEPT ![k] = s],
               Goto(k, "registered")
        PROVE  /\ pc' \in [Conn -> Labels]
               /\ slot' \in [Conn -> Slot]
               /\ table' \in [Slot -> Entry]
    <3>1. pc' \in [Conn -> Labels]
      BY <1>3, <2>2, GotoTypes, ZenonT(60)
    <3>2. s \in Slot
      BY ZenonT(60) DEF alloc_device_slot
    <3>3. slot' \in [Conn -> Slot]
      BY <2>2, <3>2, ZenonT(60) DEF TypeOK
    <3>4. fd[k] \in Fd
      BY ZenonT(60) DEF TypeOK
    <3> HIDE DEF tab
    <3>5. table' \in [Slot -> Entry]
      BY <1>1, <2>2, <3>2, <3>4, ZenonT(60) DEF Entry
    <3> QED BY <3>1, <3>3, <3>5, ZenonT(60)
  <2> QED BY <2>1, <2>2, ZenonT(60) DEF Register
<1> QED BY <1>2, <1>4, ZenonT(60) DEF Register, TypeOK, Entry

\* REGISTER keeps the invariants: the one visible entry of the id is removed
\* before the new one appears, and a slot's mark is not touched.
LEMMA RegisterSafe ==
    ASSUME IInv, NEW k \in Conn, NEW d \in Id, Register(k, d)
    PROVE  UniqueRegistration' /\ OneClientPerSlot'
<1> DEFINE old == find_device(d)
           tab == Without(old)
<1>0. TypeOK /\ pc[k] = "read"
  BY ZenonT(60) DEF IInv, Register
<1>1. \A s \in Slot : /\ tab[s] \in Entry
                      /\ tab[s].in_use = (table[s].in_use /\ s \notin old)
                      /\ tab[s].bridging = table[s].bridging
                      /\ tab[s].id = table[s].id
  BY <1>0, WithoutEntry, ZenonT(60)
<1>2. \A s \in Slot : Visible(s) /\ table[s].id = d => s \in old
  <2> SUFFICES ASSUME NEW s \in Slot, Visible(s), table[s].id = d
               PROVE  s \in old
    BY ZenonT(60)
  <2>1. \A t \in 1..(s-1) : t \in Slot /\ t # s
    BY RelayServerAssumption DEF Slot
  <2> QED BY <2>1, ZenonT(60) DEF find_device, IInv, UniqueRegistration
<1>3. \A j \in Conn : j # k => pc'[j] = pc[j] /\ slot'[j] = slot[j]
  BY <1>0, ZenonT(60) DEF Register, Goto, TypeOK
<1>4. ~Bridging(k) /\ ~Bridging(k)'
  BY <1>0, ZenonT(60) DEF Register, Goto, TypeOK, Bridging
<1>5. \A j \in Conn : (Bridging(j)' <=> Bridging(j))
                     /\ (Bridging(j) => slot'[j] = slot[j])
  BY <1>3, <1>4, ZenonT(60) DEF Bridging
<1> HIDE DEF tab, old
<1>6. CASE table' = tab
  BY <1>1, <1>5, <1>6, Harmless, ZenonT(60)
<1>7. ASSUME NEW s \in alloc_device_slot(tab),
             table' = [tab EXCEPT ![s].in_use = TRUE,
                                  ![s].id = d, ![s].sock = fd[k]]
      PROVE  UniqueRegistration' /\ OneClientPerSlot'
  <2>1. s \in Slot /\ tab = [t \in Slot |-> tab[t]]
    BY ZenonT(60) DEF alloc_device_slot, tab, Without
  <2>2. \A t \in Slot : t # s => table'[t] = tab[t]
    BY <1>7, <2>1, ZenonT(60)
  <2>3. table'[s].id = d /\ table'[s].bridging = table[s].bridging
    BY <1>1, <1>7, <2>1, ZenonT(60) DEF Entry
  <2>4. \A t \in Slot : table'[t].bridging = table[t].bridging
    BY <1>1, <2>2, <2>3, ZenonT(60)
  <2>5. \A t \in Slot : t # s /\ Visible(t)' => Visible(t) /\ table'[t].id = table[t].id
                                              /\ table[t].id # d
    BY <1>1, <1>2, <2>2, ZenonT(60) DEF Visible
  <2>6. UniqueRegistration'
    BY <2>3, <2>5, ZenonT(60) DEF UniqueRegistration, IInv, Slot
  <2>7. OneClientPerSlot'
    BY <1>5, <2>4 DEF OneClientPerSlot, IInv, Slot
  <2> QED BY <2>6, <2>7, ZenonT(60)
<1> QED BY <1>6, <1>7, ZenonT(60) DEF Register, tab, old

\* A thread that moves on inside its bridge keeps the invariants.
LEMMA InsideBridge ==
    ASSUME IInv, UNCHANGED <<table, slot>>, NEW k \in Conn, Bridging(k),
           \/ Goto(k, "notify_device") \/ Goto(k, "bridge") \/ UNCHANGED pc
    PROVE  UniqueRegistration' /\ OneClientPerSlot'
<1>1. \A j \in Conn : Bridging(j)' <=> Bridging(j)
  BY ZenonT(60) DEF Goto, Bridging, IInv, TypeOK
<1> QED BY <1>1, Harmless, ZenonT(60)

\* CONNECT marks a slot that no other client works on.
LEMMA ConnectSafe ==
    ASSUME IInv, NEW k \in Conn, NEW d \in Id, Connect(k, d)
    PROVE  UniqueRegistration' /\ OneClientPerSlot'
<1>0. TypeOK /\ ~Bridging(k) /\ "refuse" \in Labels /\ "notify" \in Labels
  BY ZenonT(60) DEF IInv, Connect, Bridging, Labels
<1>1. CASE Goto(k, "refuse") /\ UNCHANGED <<slot, dev, table, claimed>>
  BY <1>0, <1>1, TableUntouched, ZenonT(60)
<1>2. ASSUME NEW s \in find_device(d),
             table' = [table EXCEPT ![s].bridging = TRUE],
             slot' = [slot EXCEPT ![k] = s],
             dev' = [dev EXCEPT ![k] = table[s].sock],
             claimed' = [claimed EXCEPT ![k] = sock[table[s].sock]],
             Goto(k, "notify")
      PROVE  UniqueRegistration' /\ OneClientPerSlot'
  <2>1. s \in Slot /\ Visible(s) /\ table \in [Slot -> Entry]
    BY <1>0, ZenonT(60) DEF find_device, TypeOK, Entry
  <2>2. \A t \in Slot : /\ table'[t].in_use = table[t].in_use
                        /\ table'[t].id = table[t].id
                        /\ table'[t].bridging = (t = s \/ table[t].bridging)
    BY <1>2, <2>1, ZenonT(60) DEF Entry
  <2>3. UniqueRegistration'
    BY <2>2, ZenonT(60) DEF IInv, UniqueRegistration, Visible, Slot
  <2>4. ~\E j \in Conn : Bridging(j) /\ slot[j] = s
    BY <2>1, ZenonT(60) DEF Visible, IInv, OneClientPerSlot
  <2>5. \A j \in Conn : /\ Bridging(j)' <=> (j = k \/ Bridging(j))
                        /\ slot'[j] = IF j = k THEN s ELSE slot[j]
    BY <1>0, <1>2, ZenonT(60) DEF Goto, Bridging, TypeOK
  <2>6. OneClientPerSlot'
    <3>1. \A t \in Slot : table'[t].bridging <=>
                              \E j \in Conn : Bridging(j)' /\ slot'[j] = t
      <4> SUFFICES ASSUME NEW t \in Slot
                   PROVE  table'[t].bridging <=>
                              \E j \in Conn : Bridging(j)' /\ slot'[j] = t
        BY ZenonT(60)
      <4>1. table[t].bridging <=> \E j \in Conn : Bridging(j) /\ slot[j] = t
        BY ZenonT(60) DEF IInv, OneClientPerSlot
      <4>2. (\E j \in Conn : Bridging(j)' /\ slot'[j] = t)
                <=> (t = s \/ \E j \in Conn : Bridging(j) /\ slot[j] = t)
        BY <1>0, <2>5, ZenonT(60)
      <4> QED BY <2>2, <4>1, <4>2, ZenonT(60)
    <3>2. \A i, j \in Conn : Bridging(i)' /\ Bridging(j)' /\ slot'[i] = slot'[j]
                                => i = j
      BY <2>4, <2>5, ZenonT(60) DEF IInv, OneClientPerSlot
    <3> QED BY <3>1, <3>2, ZenonT(60) DEF OneClientPerSlot, Slot
  <2> QED BY <2>3, <2>6, ZenonT(60)
<1> QED BY <1>1, <1>2, ZenonT(60) DEF Connect

\* The end of a bridge takes the mark of exactly the slot the thread worked on.
LEMMA ReleaseSafe ==
    ASSUME IInv, NEW k \in Conn, Release(k)
    PROVE  UniqueRegistration' /\ OneClientPerSlot'
<1>0. TypeOK /\ Bridging(k) /\ "close_client" \in Labels
  BY ZenonT(60) DEF IInv, Release, Bridging, Labels
<1>1. slot[k] \in Slot /\ table \in [Slot -> Entry]
  BY <1>0, ZenonT(60) DEF TypeOK, Entry
<1>2. \A t \in Slot : /\ table'[t].in_use = (table[t].in_use /\ t # slot[k])
                      /\ table'[t].id = table[t].id
                      /\ table'[t].bridging = (table[t].bridging /\ t # slot[k])
  BY <1>1, ZenonT(60) DEF Release, Entry
<1>3. \A j \in Conn : Bridging(j)' <=> (j # k /\ Bridging(j))
  BY <1>0, ZenonT(60) DEF Release, Goto, Bridging, TypeOK
<1>4. UniqueRegistration'
  BY <1>2, ZenonT(60) DEF IInv, UniqueRegistration, Visible, Slot
<1>5. OneClientPerSlot'
  <2>1. \A t \in Slot : table'[t].bridging <=>
                            \E j \in Conn : Bridging(j)' /\ slot'[j] = t
    <3> SUFFICES ASSUME NEW t \in Slot
                 PROVE  table'[t].bridging <=>
                            \E j \in Conn : Bridging(j)' /\ slot'[j] = t
      BY ZenonT(60)
    <3>1. table[t].bridging <=> \E j \in Conn : Bridging(j) /\ slot[j] = t
      BY ZenonT(60) DEF IInv, OneClientPerSlot
    <3>2. \A i, j \in Conn : Bridging(i) /\ Bridging(j) /\ slot[i] = slot[j] => i = j
      BY ZenonT(60) DEF IInv, OneClientPerSlot
    <3>3. slot' = slot
      BY ZenonT(60) DEF Release
    <3>4. (\E j \in Conn : Bridging(j)' /\ slot'[j] = t)
              <=> (t # slot[k] /\ \E j \in Conn : Bridging(j) /\ slot[j] = t)
      BY <1>0, <1>3, <3>2, <3>3, ZenonT(60)
    <3> QED BY <1>2, <3>1, <3>4, ZenonT(60)
  <2>2. \A i, j \in Conn : Bridging(i)' /\ Bridging(j)' /\ slot'[i] = slot'[j]
                              => i = j
    BY <1>3, ZenonT(60) DEF Release, IInv, OneClientPerSlot
  <2> QED BY <2>1, <2>2, ZenonT(60) DEF OneClientPerSlot, Slot
<1> QED BY <1>4, <1>5, ZenonT(60)

\* Every step keeps the types.
LEMMA StepType == TypeOK /\ [Next]_vars => TypeOK'
<1> SUFFICES ASSUME TypeOK, Next PROVE TypeOK'
  BY ZenonT(60) DEF TypeOK, vars
<1> PICK k \in Conn :
        \/ Accept(k) \/ PeerCloses(k) \/ ReadLine(k) \/ Step(k)
        \/ \E x \in Both : EndDirection(k, x)
  BY ZenonT(60) DEF Next
<1>0. /\ fd[k] \in Fd /\ dev[k] \in Fd /\ slot[k] \in Slot
      /\ table \in [Slot -> Entry]
  BY ZenonT(60) DEF TypeOK, Entry
<1>g. ASSUME NEW label \in Labels, Goto(k, label) PROVE pc' \in [Conn -> Labels]
  BY <1>g, GotoTypes, ZenonT(60)
<1>l. /\ {"read", "no_thread", "refuse", "wait", "unregister", "close"} \subseteq Labels
      /\ {"notify_device", "bridge", "close_client", "close_device", "done"} \subseteq Labels
  BY ZenonT(60) DEF Labels
<1>1. CASE Accept(k)
  <2>1. pc' \in [Conn -> Labels]
    BY <1>1, <1>g, <1>l, ZenonT(60) DEF Accept
  <2>2. PICK n \in Fd : /\ fd' = [fd EXCEPT ![k] = n]
                        /\ sock' = [sock EXCEPT ![n] = k]
                        /\ used' = used \cup {n}
    BY <1>1, ZenonT(60) DEF Accept
  <2>3. fd' \in [Conn -> Fd] /\ sock' \in [Fd -> Conn \cup {NoConn}] /\ used' \subseteq Fd
    BY <2>2, ZenonT(60) DEF TypeOK
  <2>4. up' \in [Conn -> BOOLEAN]
    BY <1>1, ZenonT(60) DEF Accept, TypeOK
  <2> QED BY <1>1, <2>1, <2>3, <2>4, ZenonT(60) DEF Accept, TypeOK
<1>2. CASE PeerCloses(k)
  BY <1>2, ZenonT(60) DEF PeerCloses, TypeOK
<1>3. ASSUME NEW d \in Id, Register(k, d) PROVE TypeOK'
  BY <1>3, RegisterType, ZenonT(60)
<1>4. ASSUME NEW d \in Id, Connect(k, d) PROVE TypeOK'
  <2>1. pc' \in [Conn -> Labels]
    BY <1>4, <1>g, <1>l, ZenonT(60) DEF Connect, Labels
  <2>2. /\ slot' \in [Conn -> Slot] /\ dev' \in [Conn -> Fd]
        /\ claimed' \in [Conn -> Conn \cup {NoConn}] /\ table' \in [Slot -> Entry]
    <3>1. CASE UNCHANGED <<slot, dev, table, claimed>>
      BY <1>0, <3>1, ZenonT(60) DEF TypeOK
    <3>2. ASSUME NEW s \in find_device(d),
                 table' = [table EXCEPT ![s].bridging = TRUE],
                 slot' = [slot EXCEPT ![k] = s],
                 dev' = [dev EXCEPT ![k] = table[s].sock],
                 claimed' = [claimed EXCEPT ![k] = sock[table[s].sock]]
          PROVE  /\ slot' \in [Conn -> Slot] /\ dev' \in [Conn -> Fd]
                 /\ claimed' \in [Conn -> Conn \cup {NoConn}]
                 /\ table' \in [Slot -> Entry]
      <4>1. s \in Slot /\ table[s] \in Entry
        BY <1>0, ZenonT(60) DEF find_device
      <4>2. table[s].sock \in Fd
        BY <4>1, ZenonT(60) DEF Entry
      <4>3. table' \in [Slot -> Entry]
        BY <1>0, <3>2, <4>1, ZenonT(60) DEF Entry
      <4> QED BY <3>2, <4>1, <4>2, <4>3, ZenonT(60) DEF TypeOK
    <3> QED BY <1>4, <3>1, <3>2, ZenonT(60) DEF Connect
  <2> QED BY <1>4, <2>1, <2>2, ZenonT(60) DEF Connect, TypeOK, Entry
<1>5. CASE ReadFails(k) \/ PeekEnds(k)
  <2>1. pc' \in [Conn -> Labels]
    BY <1>5, <1>g, <1>l, ZenonT(60) DEF ReadFails, PeekEnds
  <2> QED BY <1>5, <2>1, ZenonT(60) DEF ReadFails, PeekEnds, TypeOK
<1>6. CASE Refuse(k, "read") \/ Refuse(k, "refuse") \/ SendOk(k) \/ NotifyClient(k)
  <2>1. pc' \in [Conn -> Labels]
    BY <1>6, <1>g, <1>l, ZenonT(60) DEF Refuse, SendOk, NotifyClient
  <2>2. said' \in [Conn -> {"nothing", "OK", "ERROR", "BRIDGE"}]
    BY <1>0, <1>6, SendTypes, ZenonT(60) DEF Refuse, SendOk, NotifyClient
  <2> QED BY <1>6, <2>1, <2>2, ZenonT(60) DEF Refuse, SendOk, NotifyClient, TypeOK
<1>7. CASE Unregister(k)
  <2>1. pc' \in [Conn -> Labels]
    BY <1>7, <1>g, <1>l, ZenonT(60) DEF Unregister
  <2>2. table' \in [Slot -> Entry]
    BY <1>0, <1>7, ZenonT(60) DEF Unregister, Entry
  <2> QED BY <1>7, <2>1, <2>2, ZenonT(60) DEF Unregister, TypeOK, Entry
<1>8. CASE CloseOwn(k) \/ CloseClient(k) \/ CloseDevice(k)
  <2>1. pc' \in [Conn -> Labels]
    BY <1>8, <1>g, <1>l, ZenonT(60) DEF CloseOwn, CloseClient, CloseDevice
  <2>2. sock' \in [Fd -> Conn \cup {NoConn}] /\ up' \in [Conn -> BOOLEAN]
    BY <1>0, <1>8, SocketTypes, ZenonT(60) DEF CloseOwn, CloseClient, CloseDevice
  <2> QED BY <1>8, <2>1, <2>2, ZenonT(60) DEF CloseOwn, CloseClient, CloseDevice, TypeOK
<1>9. CASE NotifyDevice(k)
  <2>1. pc' \in [Conn -> Labels]
    BY <1>9, <1>g, <1>l, ZenonT(60) DEF NotifyDevice
  <2>2. said' \in [Conn -> {"nothing", "OK", "ERROR", "BRIDGE"}]
    BY <1>0, <1>9, SendTypes, ZenonT(60) DEF NotifyDevice
  <2>3. dirs' \in [Conn -> SUBSET Both]
    BY <1>9, ZenonT(60) DEF NotifyDevice, TypeOK
  <2> QED BY <1>9, <2>1, <2>2, <2>3, ZenonT(60) DEF NotifyDevice, TypeOK
<1>10. CASE Release(k)
  <2>1. pc' \in [Conn -> Labels]
    BY <1>10, <1>g, <1>l, ZenonT(60) DEF Release
  <2>2. table' \in [Slot -> Entry]
    BY <1>0, <1>10, ZenonT(60) DEF Release, Entry
  <2> QED BY <1>10, <2>1, <2>2, ZenonT(60) DEF Release, TypeOK, Entry
<1>11. ASSUME NEW x \in Both, EndDirection(k, x) PROVE TypeOK'
  <2>1. Target(k, x) \in Fd
    BY <1>0, ZenonT(60) DEF Target
  <2>2. sock' \in [Fd -> Conn \cup {NoConn}] /\ up' \in [Conn -> BOOLEAN]
    BY <1>11, <2>1, SocketTypes, ZenonT(60) DEF EndDirection
  <2> QED BY <1>11, <2>2, ZenonT(60) DEF EndDirection, TypeOK
<1> QED BY <1>1, <1>2, <1>3, <1>4, <1>5, <1>6, <1>7, <1>8, <1>9, <1>10, <1>11, ZenonT(60)
        DEF ReadLine, Step

\* Every step keeps the two invariants of the table.
LEMMA StepSafe == IInv /\ [Next]_vars => UniqueRegistration' /\ OneClientPerSlot'
<1> SUFFICES ASSUME IInv, [Next]_vars
             PROVE  UniqueRegistration' /\ OneClientPerSlot'
  BY ZenonT(60)
<1>s. CASE UNCHANGED vars
  BY <1>s, ZenonT(60) DEF vars, IInv, UniqueRegistration, OneClientPerSlot, Visible, Bridging
<1>n. CASE Next
  <2> PICK k \in Conn :
        \/ Accept(k) \/ PeerCloses(k) \/ ReadLine(k) \/ Step(k)
        \/ \E x \in Both : EndDirection(k, x)
    BY <1>n, ZenonT(60) DEF Next
  <2>l. /\ {"read", "no_thread", "refuse", "wait", "unregister", "close"} \subseteq Labels
        /\ {"close_client", "close_device", "done"} \subseteq Labels
    BY ZenonT(60) DEF Labels
  <2>t. ASSUME NEW label \in Labels, Goto(k, label), UNCHANGED <<table, slot>>,
               ~Bridging(k), label \notin {"notify", "notify_device", "bridge"}
        PROVE  UniqueRegistration' /\ OneClientPerSlot'
    BY <2>t, TableUntouched, ZenonT(60)
  <2>1. CASE Accept(k)
    BY <2>1, <2>t, <2>l, ZenonT(60) DEF Accept, Bridging
  <2>2. CASE PeerCloses(k)
    BY <2>2, ZenonT(60) DEF PeerCloses, IInv, UniqueRegistration, OneClientPerSlot, Visible,
                Bridging
  <2>3. CASE ReadFails(k) \/ Refuse(k, "read") \/ Refuse(k, "refuse") \/ SendOk(k)
             \/ PeekEnds(k)
    BY <2>3, <2>t, <2>l, ZenonT(60) DEF ReadFails, Refuse, SendOk, PeekEnds, Bridging
  <2>4. CASE CloseOwn(k) \/ CloseClient(k) \/ CloseDevice(k)
    BY <2>4, <2>t, <2>l, ZenonT(60) DEF CloseOwn, CloseClient, CloseDevice, Bridging
  <2>5. CASE Unregister(k)
    <3>1. slot[k] \in Slot /\ table \in [Slot -> Entry] /\ pc \in [Conn -> Labels]
      BY ZenonT(60) DEF IInv, TypeOK, Entry
    <3>2. \A s \in Slot : /\ table'[s].in_use => table[s].in_use
                          /\ table'[s].bridging = table[s].bridging
                          /\ table'[s].id = table[s].id
      BY <2>5, <3>1, ZenonT(60) DEF Unregister, Entry
    <3>3. \A j \in Conn : Bridging(j)' <=> Bridging(j)
      BY <2>5, <3>1, ZenonT(60) DEF Unregister, Goto, Bridging
    <3>4. slot' = slot
      BY <2>5, ZenonT(60) DEF Unregister
    <3> QED BY <3>2, <3>3, <3>4, Harmless, ZenonT(60)
  <2>6. CASE NotifyClient(k) \/ NotifyDevice(k)
    BY <2>6, InsideBridge, ZenonT(60) DEF NotifyClient, NotifyDevice, Bridging
  <2>7. ASSUME NEW x \in Both, EndDirection(k, x)
        PROVE  UniqueRegistration' /\ OneClientPerSlot'
    BY <2>7, InsideBridge, ZenonT(60) DEF EndDirection, Bridging
  <2>8. CASE Release(k)
    BY <2>8, ReleaseSafe, ZenonT(60)
  <2>9. ASSUME NEW d \in Id, Register(k, d)
        PROVE  UniqueRegistration' /\ OneClientPerSlot'
    BY <2>9, RegisterSafe, ZenonT(60)
  <2>10. ASSUME NEW d \in Id, Connect(k, d)
         PROVE  UniqueRegistration' /\ OneClientPerSlot'
    BY <2>10, ConnectSafe, ZenonT(60)
  <2> QED BY <2>1, <2>2, <2>3, <2>4, <2>5, <2>6, <2>7, <2>8, <2>9, <2>10, ZenonT(60)
          DEF ReadLine, Step
<1> QED BY <1>s, <1>n, ZenonT(60)

\* The relay starts with an empty table and no threads.
LEMMA InitSound == Init => IInv
<1> SUFFICES ASSUME Init PROVE IInv
  BY ZenonT(60)
<1>1. SomeFd \in Fd /\ SomeId \in Id /\ 1 \in Slot
  BY RelayServerAssumption DEF SomeFd, SomeId, Slot
<1>2. TypeOK
  BY <1>1, ZenonT(60) DEF Init, TypeOK, Labels
<1>3. UniqueRegistration /\ OneClientPerSlot
  BY ZenonT(60) DEF Init, UniqueRegistration, OneClientPerSlot, Visible, Bridging
<1> QED BY <1>2, <1>3, ZenonT(60) DEF IInv

\* Whatever connections come and go and whatever order the threads of
\* relay_server.c run in, an id has at most one entry a client can find, and
\* the bridging mark of a slot belongs to exactly one client's thread.
THEOREM TableIsSound == Spec => [](TypeOK /\ UniqueRegistration /\ OneClientPerSlot)
<1>1. Init => IInv
  BY InitSound, ZenonT(60)
<1>2. IInv /\ [Next]_vars => IInv'
  BY StepType, StepSafe, ZenonT(60) DEF IInv
<1>3. IInv => TypeOK /\ UniqueRegistration /\ OneClientPerSlot
  BY ZenonT(60) DEF IInv
<1> QED BY <1>1, <1>2, <1>3, PTL DEF Spec

\* The relay's table and its threads keep their types under every interleaving.
COROLLARY ServerTypes == Spec => []TypeOK
BY TableIsSound, PTL

\* An id has one entry that can be found, and two clients never bridge the same
\* entry of the table (relay_server.c:253-263, 315-331).
COROLLARY TableStaysSound == Spec => []TableSound
<1>1. TypeOK /\ UniqueRegistration /\ OneClientPerSlot => TableSound
  BY ZenonT(60) DEF TableSound
<1> QED BY <1>1, TableIsSound, PTL
----------------------------------------------------------------------------
(* What the relay keeps of a device, when numbers are not given out again. *)

\* The places of a device's thread while it may be in the table, and at all.
Listed == {"registered", "wait", "unregister"}
Device == Listed \cup {"close", "done"}

\* The places of a client's thread after it freed its slot, and after it took it.
Freed == {"close_client", "close_device"}
Taken == Freed \cup {"notify", "notify_device", "bridge"}

\* Every thread has a number of its own, which is open while its connection is
\* and until it has read a line.
NumbersApart ==
    /\ \A k \in Conn : pc[k] # "none" => fd[k] \in used
    /\ \A j, k \in Conn : pc[j] # "none" /\ pc[k] # "none" /\ fd[j] = fd[k] => j = k
    /\ \A k \in Conn : up[k] \/ pc[k] = "read" => pc[k] # "none" /\ sock[fd[k]] = k

\* k's thread holds slot s.
Holds(k, s) == /\ pc[k] \in Listed /\ slot[k] = s
               /\ fd[k] = table[s].sock /\ sock[fd[k]] = k

\* Every entry is that of a thread which has its socket open and will remove it.
EntriesHeld == \A s \in Slot : table[s].in_use => \E k \in Conn : Holds(k, s)

\* A client's thread knows the device that it took, and that device's entry is
\* gone before the device's socket is closed.
ClientsKnow ==
    \A j \in Conn :
        /\ claimed[j] # NoConn => pc[j] \in Taken \cup {"done"}
        /\ pc[j] \in Taken =>
              /\ claimed[j] \in Conn /\ pc[claimed[j]] \in Device
              /\ fd[claimed[j]] = dev[j] /\ slot[claimed[j]] = slot[j]
        /\ pc[j] \in Freed =>
              ~(table[slot[j]].in_use /\ table[slot[j]].sock = dev[j])

\* No client's thread has taken the slot of k.
NeverTaken(k) == \A j \in Conn : claimed[j] # NoConn => slot[j] # slot[k]

\* A registered device that is still there, and whose slot nobody took, is in it.
DevicesKept ==
    \A k \in Conn :
        pc[k] \in {"registered", "wait"} /\ up[k] /\ NeverTaken(k)
            => table[slot[k]].in_use /\ table[slot[k]].sock = fd[k]

KInv == NumbersApart /\ EntriesHeld /\ ClientsKnow /\ DevicesKept

\* A thread that stays where it is, as far as the invariants tell places apart.
KeepsPlace(j) ==
    /\ pc'[j] = "none" <=> pc[j] = "none"
    /\ pc'[j] = "read" => pc[j] = "read"
    /\ pc[j] \in Listed => pc'[j] \in Listed
    /\ pc[j] \in Device => pc'[j] \in Device
    /\ pc'[j] \in Taken => pc[j] \in Taken
    /\ pc'[j] \in Freed => pc[j] \in Freed
    /\ pc[j] \in Taken \cup {"done"} => pc'[j] \in Taken \cup {"done"}
    /\ pc'[j] \in {"registered", "wait"} => pc[j] \in {"registered", "wait"}

\* Steps that only move a thread on, end streams and close numbers that are
\* neither in the table nor those of a thread still reading its line.
LEMMA QuietStep ==
    ASSUME TypeOK, KInv, UNCHANGED <<fd, slot, dev, table, used, claimed>>,
           \A j \in Conn : KeepsPlace(j),
           \A j \in Conn : up'[j] => up[j],
           \A j \in Conn : up'[j] \/ pc'[j] = "read" => sock'[fd[j]] = sock[fd[j]],
           \A s \in Slot : table[s].in_use =>
               sock'[table[s].sock] = sock[table[s].sock]
    PROVE  KInv'
<1>1. NumbersApart'
  BY ZenonT(60) DEF KInv, NumbersApart, KeepsPlace
<1>2. EntriesHeld'
  <2> SUFFICES ASSUME NEW s \in Slot, table[s].in_use
               PROVE  \E k \in Conn : Holds(k, s)'
    BY ZenonT(60) DEF EntriesHeld, Slot
  <2> PICK k \in Conn : Holds(k, s)
    BY ZenonT(60) DEF KInv, EntriesHeld
  <2> QED BY DEF Holds, KeepsPlace
<1>3. ClientsKnow'
  BY ZenonT(60) DEF KInv, ClientsKnow, KeepsPlace
<1>4. DevicesKept'
  BY ZenonT(60) DEF KInv, DevicesKept, NeverTaken, KeepsPlace
<1> QED BY <1>1, <1>2, <1>3, <1>4, ZenonT(60) DEF KInv

\* The moves of handle_connection that keep a thread's place in that sense.
LEMMA GotoKeeps ==
    ASSUME TypeOK, NEW k \in Conn, NEW label, Goto(k, label),
           \/ pc[k] \in {"read", "refuse"} /\ label \in {"refuse", "close"}
           \/ pc[k] = "close" /\ label = "done"
           \/ pc[k] = "registered" /\ label = "wait"
           \/ pc[k] = "wait" /\ label = "unregister"
           \/ pc[k] = "notify" /\ label = "notify_device"
           \/ pc[k] = "notify_device" /\ label = "bridge"
           \/ pc[k] = "close_client" /\ label = "close_device"
           \/ pc[k] = "close_device" /\ label = "done"
    PROVE  \A j \in Conn : KeepsPlace(j)
<1>1. pc'[k] = label /\ \A j \in Conn : j # k => pc'[j] = pc[j]
  BY ZenonT(60) DEF TypeOK, Goto
<1>2. \A j \in Conn : j # k => KeepsPlace(j)
  BY <1>1, ZenonT(60) DEF KeepsPlace
<1>3. KeepsPlace(k)
  BY <1>1, ZenonT(60) DEF KeepsPlace, Device, Listed, Taken, Freed
<1> QED BY <1>2, <1>3, ZenonT(60)

\* A connection is accepted on a number that was never given out before.
LEMMA AcceptKept ==
    ASSUME TypeOK, KInv, ~ReuseNumbers, NEW k \in Conn, Accept(k)
    PROVE  KInv'
<1>1. PICK n \in Fd : /\ sock[n] = NoConn /\ n \notin used
                      /\ fd' = [fd EXCEPT ![k] = n]
                      /\ sock' = [sock EXCEPT ![n] = k]
                      /\ used' = used \cup {n}
  BY ZenonT(60) DEF Accept
<1>2. /\ pc[k] = "none" /\ pc'[k] \in {"read", "no_thread"}
      /\ \A j \in Conn : j # k => pc'[j] = pc[j] /\ fd'[j] = fd[j] /\ up'[j] = up[j]
      /\ fd'[k] = n
      /\ \A i \in Fd : sock'[i] = IF i = n THEN k ELSE sock[i]
      /\ UNCHANGED <<slot, dev, table, claimed>>
  BY <1>1, ZenonT(60) DEF Accept, Goto, TypeOK
<1>3. \A j \in Conn : pc[j] # "none" => fd[j] \in Fd /\ fd[j] # n
  BY <1>1 DEF KInv, NumbersApart, TypeOK
<1>4. NumbersApart'
  BY <1>1, <1>2, <1>3 DEF KInv, NumbersApart
<1>5. EntriesHeld'
  <2> SUFFICES ASSUME NEW s \in Slot, table[s].in_use
               PROVE  \E j \in Conn : Holds(j, s)'
    BY <1>2, ZenonT(60) DEF EntriesHeld, Slot
  <2> PICK j \in Conn : Holds(j, s)
    BY ZenonT(60) DEF KInv, EntriesHeld
  <2>1. j # k /\ pc[j] # "none"
    BY <1>2, ZenonT(60) DEF Holds, Listed
  <2> QED BY <1>2, <1>3, <2>1 DEF Holds
<1>6. k \notin {claimed[j] : j \in {i \in Conn : pc[i] \in Taken}}
  BY <1>2, ZenonT(60) DEF KInv, ClientsKnow, Device, Listed
<1>7. pc'[k] \notin Taken /\ pc'[k] \notin Freed /\ pc[k] \notin Taken \cup {"done"}
      /\ pc'[k] \notin {"registered", "wait"}
  BY <1>2, ZenonT(60) DEF Taken, Freed
<1>8. ClientsKnow'
  BY <1>2, <1>6, <1>7 DEF KInv, ClientsKnow
<1>9. DevicesKept'
  BY <1>2, <1>7, ZenonT(60) DEF KInv, DevicesKept, NeverTaken
<1> QED BY <1>4, <1>5, <1>8, <1>9, ZenonT(60) DEF KInv

\* A device's thread only removes an entry that has its own number.
LEMMA UnregisterKept ==
    ASSUME TypeOK, KInv, NEW k \in Conn, Unregister(k)
    PROVE  KInv'
<1>1. /\ pc[k] = "unregister" /\ pc'[k] = "close"
      /\ \A j \in Conn : j # k => pc'[j] = pc[j]
      /\ UNCHANGED <<fd, slot, dev, sock, used, up, claimed>>
  BY ZenonT(60) DEF Unregister, Goto, TypeOK
<1>2. slot[k] \in Slot /\ table \in [Slot -> Entry] /\ slot \in [Conn -> Slot]
  BY ZenonT(60) DEF TypeOK, Entry
<1>3. \A s \in Slot : /\ table'[s].sock = table[s].sock
                      /\ table'[s].in_use <=>
                            table[s].in_use /\ ~(s = slot[k] /\ table[s].sock = fd[k])
  BY <1>2, ZenonT(60) DEF Unregister, Entry
<1>4. NumbersApart'
  BY <1>1, ZenonT(60) DEF KInv, NumbersApart
<1>5. EntriesHeld'
  <2> SUFFICES ASSUME NEW s \in Slot, table'[s].in_use
               PROVE  \E j \in Conn : Holds(j, s)'
    BY ZenonT(60) DEF EntriesHeld, Slot
  <2> PICK j \in Conn : Holds(j, s)
    BY <1>3, ZenonT(60) DEF KInv, EntriesHeld
  <2>1. j # k
    BY <1>3, ZenonT(60) DEF Holds
  <2> QED BY <1>1, <1>3, <2>1 DEF Holds
<1>6. \A j \in Conn : /\ pc'[j] \in Taken <=> pc[j] \in Taken
                      /\ pc'[j] \in Freed <=> pc[j] \in Freed
                      /\ pc[j] \in Device => pc'[j] \in Device
                      /\ pc[j] \in Taken \cup {"done"} => pc'[j] \in Taken \cup {"done"}
  BY <1>1, ZenonT(60) DEF Taken, Freed, Device, Listed
<1>7. ClientsKnow'
  BY <1>1, <1>2, <1>3, <1>6 DEF KInv, ClientsKnow
<1>8. DevicesKept'
  <2> SUFFICES ASSUME NEW j \in Conn, pc'[j] \in {"registered", "wait"}, up[j],
                      NeverTaken(j)'
               PROVE  table'[slot[j]].in_use /\ table'[slot[j]].sock = fd[j]
    BY <1>1, ZenonT(60) DEF DevicesKept
  <2>1. j # k /\ pc[j] \in {"registered", "wait"}
    BY <1>1, ZenonT(60)
  <2>2. table[slot[j]].in_use /\ table[slot[j]].sock = fd[j]
    BY <1>1, <2>1, ZenonT(60) DEF KInv, DevicesKept, NeverTaken
  <2>3. fd[j] # fd[k]
    BY <1>1, <2>1, ZenonT(60) DEF KInv, NumbersApart
  <2> QED BY <1>2, <1>3, <2>2, <2>3, ZenonT(60)
<1> QED BY <1>4, <1>5, <1>7, <1>8, ZenonT(60) DEF KInv

\* The end of a bridge frees a slot that its thread has taken.
LEMMA ReleaseKept ==
    ASSUME TypeOK, KInv, NEW k \in Conn, Release(k)
    PROVE  KInv'
<1>1. /\ pc[k] = "bridge" /\ pc'[k] = "close_client"
      /\ \A j \in Conn : j # k => pc'[j] = pc[j]
      /\ UNCHANGED <<fd, slot, dev, sock, used, up, claimed>>
  BY ZenonT(60) DEF Release, Goto, TypeOK
<1>2. slot[k] \in Slot /\ table \in [Slot -> Entry] /\ slot \in [Conn -> Slot]
  BY ZenonT(60) DEF TypeOK, Entry
<1>3. \A s \in Slot : /\ table'[s].sock = table[s].sock
                      /\ table'[s].in_use <=> table[s].in_use /\ s # slot[k]
  BY <1>2, ZenonT(60) DEF Release, Entry
<1>4. NumbersApart'
  BY <1>1, ZenonT(60) DEF KInv, NumbersApart
<1>5. \A j \in Conn : /\ pc'[j] \in Taken <=> pc[j] \in Taken
                      /\ j # k => (pc'[j] \in Freed <=> pc[j] \in Freed)
                      /\ pc[j] \in Device => pc'[j] \in Device
                      /\ pc[j] \in Listed => pc'[j] \in Listed
                      /\ pc[j] \in Taken \cup {"done"} => pc'[j] \in Taken \cup {"done"}
  BY <1>1, ZenonT(60) DEF Taken, Freed, Device, Listed
<1>6. EntriesHeld'
  <2> SUFFICES ASSUME NEW s \in Slot, table'[s].in_use
               PROVE  \E j \in Conn : Holds(j, s)'
    BY ZenonT(60) DEF EntriesHeld, Slot
  <2> PICK j \in Conn : Holds(j, s)
    BY <1>3, ZenonT(60) DEF KInv, EntriesHeld
  <2> QED BY <1>1, <1>3, <1>5 DEF Holds
<1>7. ClientsKnow'
  BY <1>1, <1>2, <1>3, <1>5 DEF KInv, ClientsKnow
<1>8. claimed[k] # NoConn
  BY <1>1, RelayServerAssumption, ZenonT(60) DEF KInv, ClientsKnow, Taken
<1>9. DevicesKept'
  <2> SUFFICES ASSUME NEW j \in Conn, pc'[j] \in {"registered", "wait"}, up[j],
                      NeverTaken(j)'
               PROVE  table'[slot[j]].in_use /\ table'[slot[j]].sock = fd[j]
    BY <1>1, ZenonT(60) DEF DevicesKept
  <2>1. j # k /\ pc[j] \in {"registered", "wait"} /\ slot[k] # slot[j]
    BY <1>1, <1>8, ZenonT(60) DEF NeverTaken
  <2>2. table[slot[j]].in_use /\ table[slot[j]].sock = fd[j]
    BY <1>1, <2>1, ZenonT(60) DEF KInv, DevicesKept, NeverTaken
  <2> QED BY <1>2, <1>3, <2>1, <2>2, ZenonT(60)
<1> QED BY <1>4, <1>6, <1>7, <1>9, ZenonT(60) DEF KInv

\* CONNECT takes a device whose thread has its socket open.
LEMMA ConnectKept ==
    ASSUME TypeOK, KInv, NEW k \in Conn, NEW d \in Id, Connect(k, d)
    PROVE  KInv'
<1>1. CASE Goto(k, "refuse") /\ UNCHANGED <<slot, dev, table, claimed>>
  <2>1. \A j \in Conn : KeepsPlace(j)
    BY <1>1, GotoKeeps, ZenonT(60) DEF Connect
  <2> QED BY <1>1, <2>1, QuietStep, ZenonT(60) DEF Connect
<1>2. ASSUME NEW s \in find_device(d),
             table' = [table EXCEPT ![s].bridging = TRUE],
             slot' = [slot EXCEPT ![k] = s],
             dev' = [dev EXCEPT ![k] = table[s].sock],
             claimed' = [claimed EXCEPT ![k] = sock[table[s].sock]],
             Goto(k, "notify")
      PROVE  KInv'
  <2>1. s \in Slot /\ table[s].in_use /\ table \in [Slot -> Entry]
    BY ZenonT(60) DEF find_device, Visible, TypeOK, Entry
  <2>2. \A t \in Slot : table'[t].in_use = table[t].in_use /\ table'[t].sock = table[t].sock
    BY <1>2, <2>1, ZenonT(60) DEF Entry
  <2>3. /\ pc[k] = "read" /\ pc'[k] = "notify"
        /\ slot'[k] = s /\ dev'[k] = table[s].sock /\ claimed'[k] = sock[table[s].sock]
        /\ \A j \in Conn : j # k => /\ pc'[j] = pc[j] /\ slot'[j] = slot[j]
                                    /\ dev'[j] = dev[j] /\ claimed'[j] = claimed[j]
        /\ UNCHANGED <<fd, sock, used, up>>
    BY <1>2 DEF Connect, Goto, TypeOK
  <2>4. PICK h \in Conn : Holds(h, s)
    BY <2>1, ZenonT(60) DEF KInv, EntriesHeld
  <2>5. h # k /\ claimed'[k] = h /\ fd[h] = table[s].sock /\ slot[h] = s
        /\ pc[h] \in Device
    BY <2>3, <2>4, ZenonT(60) DEF Holds, Listed, Device
  <2>6. /\ pc'[k] \in Taken /\ pc'[k] \notin Freed /\ pc[k] \notin Device
        /\ pc[k] \notin Listed
    BY <2>3, ZenonT(60) DEF Taken, Freed, Device, Listed
  <2>7. NumbersApart'
    BY <2>3 DEF KInv, NumbersApart
  <2>8. EntriesHeld'
    <3> SUFFICES ASSUME NEW t \in Slot, table'[t].in_use
                 PROVE  \E j \in Conn : Holds(j, t)'
      BY ZenonT(60) DEF EntriesHeld, Slot
    <3> PICK j \in Conn : Holds(j, t)
      BY <2>2, ZenonT(60) DEF KInv, EntriesHeld
    <3>1. j # k
      BY <2>6, ZenonT(60) DEF Holds
    <3> QED BY <2>2, <2>3, <3>1 DEF Holds
  <2>9. ClientsKnow'
    <3> SUFFICES ASSUME NEW j \in Conn
                 PROVE  /\ claimed'[j] # NoConn => pc'[j] \in Taken \cup {"done"}
                        /\ pc'[j] \in Taken =>
                             /\ claimed'[j] \in Conn /\ pc'[claimed'[j]] \in Device
                             /\ fd'[claimed'[j]] = dev'[j]
                             /\ slot'[claimed'[j]] = slot'[j]
                        /\ pc'[j] \in Freed =>
                             ~(table'[slot'[j]].in_use /\ table'[slot'[j]].sock = dev'[j])
      BY ZenonT(60) DEF ClientsKnow
    <3>1. CASE j = k
      BY <2>3, <2>5, <2>6, <3>1, ZenonT(60)
    <3>2. CASE j # k
      <4>1. slot[j] \in Slot
        BY ZenonT(60) DEF TypeOK
      <4>2. pc[j] \in Taken => claimed[j] # k
        BY <2>6, ZenonT(60) DEF KInv, ClientsKnow
      <4> QED BY <2>2, <2>3, <3>2, <4>1, <4>2 DEF KInv, ClientsKnow
    <3> QED BY <3>1, <3>2, ZenonT(60)
  <2>10. DevicesKept'
    <3> SUFFICES ASSUME NEW j \in Conn, pc'[j] \in {"registered", "wait"}, up[j],
                        NeverTaken(j)'
                 PROVE  table'[slot'[j]].in_use /\ table'[slot'[j]].sock = fd[j]
      BY <2>3, ZenonT(60) DEF DevicesKept
    <3>1. j # k /\ slot[j] \in Slot
      BY <2>3, ZenonT(60) DEF TypeOK
    <3>2. claimed[k] = NoConn
      BY <2>3, ZenonT(60) DEF KInv, ClientsKnow, Taken, Freed
    <3>3. NeverTaken(j)
      BY <2>3, <3>1, <3>2 DEF NeverTaken
    <3> QED BY <2>2, <2>3, <3>1, <3>3 DEF KInv, DevicesKept
  <2> QED BY <2>7, <2>8, <2>9, <2>10, ZenonT(60) DEF KInv
<1> QED BY <1>1, <1>2, ZenonT(60) DEF Connect

\* What REGISTER does to the sockets: only that of an entry it removes is closed.
LEMMA RegisterCloses ==
    ASSUME IInv, KInv, NEW k \in Conn, NEW d \in Id, Register(k, d)
    PROVE  /\ \A j \in Conn : up'[j] => up[j]
           /\ \A j \in Conn : up'[j] \/ pc[j] = "read" => sock'[fd[j]] = sock[fd[j]]
           /\ \A s \in Slot : table[s].in_use /\ s \notin find_device(d) =>
                                  sock'[table[s].sock] = sock[table[s].sock]
           /\ \A s \in find_device(d), j \in Conn : up'[j] => sock[table[s].sock] # j
<1>1. CASE find_device(d) = {} /\ UNCHANGED <<sock, up>>
  BY <1>1, ZenonT(60)
<1>2. ASSUME NEW o \in find_device(d), Close(table[o].sock)
      PROVE  /\ \A j \in Conn : up'[j] => up[j]
             /\ \A j \in Conn : up'[j] \/ pc[j] = "read" => sock'[fd[j]] = sock[fd[j]]
             /\ \A s \in Slot : table[s].in_use /\ s \notin find_device(d) =>
                                    sock'[table[s].sock] = sock[table[s].sock]
             /\ \A s \in find_device(d), j \in Conn : up'[j] => sock[table[s].sock] # j
  <2>0. TypeOK
    BY ZenonT(60) DEF IInv
  <2>1. o \in Slot /\ table[o].in_use /\ table[o].sock \in Fd
    BY <2>0, ZenonT(60) DEF find_device, Visible, TypeOK
  <2>2. /\ \A n \in Fd : n # table[o].sock => sock'[n] = sock[n]
        /\ \A j \in Conn : up'[j] <=> up[j] /\ sock[table[o].sock] # j
    BY <1>2, <2>0, <2>1, ZenonT(60) DEF Close, TypeOK
  <2>3. PICK h \in Conn : Holds(h, o)
    BY <2>1, ZenonT(60) DEF KInv, EntriesHeld
  <2>4. pc[h] # "none" /\ pc[h] # "read" /\ fd[h] = table[o].sock
    BY <2>3, ZenonT(60) DEF Holds, Listed
  <2>5. ASSUME NEW j \in Conn, up'[j] \/ pc[j] = "read"
        PROVE  sock'[fd[j]] = sock[fd[j]]
    <3>1. pc[j] # "none" /\ sock[fd[j]] = j /\ fd[j] \in Fd
      BY <2>0, <2>2, <2>5, ZenonT(60) DEF KInv, NumbersApart, TypeOK
    <3>2. fd[j] # table[o].sock
      BY <2>2, <2>4, <2>5, <3>1 DEF KInv, NumbersApart
    <3> QED BY <2>2, <3>1, <3>2, ZenonT(60)
  <2>6. ASSUME NEW s \in Slot, table[s].in_use, s \notin find_device(d)
        PROVE  sock'[table[s].sock] = sock[table[s].sock]
    <3>1. PICK g \in Conn : Holds(g, s)
      BY <2>6, ZenonT(60) DEF KInv, EntriesHeld
    <3>2. pc[g] # "none" /\ g # h /\ fd[g] = table[s].sock /\ fd[g] \in Fd
      BY <2>0, <2>3, <2>6, <3>1, ZenonT(60) DEF Holds, Listed, TypeOK
    <3>3. fd[g] # fd[h]
      BY <2>4, <3>2, ZenonT(60) DEF KInv, NumbersApart
    <3> QED BY <2>2, <2>4, <3>2, <3>3, ZenonT(60)
  <2>7. \A s \in find_device(d) : s = o
    BY <2>1, ZenonT(60) DEF IInv, UniqueRegistration, find_device
  <2> QED BY <2>2, <2>5, <2>6, <2>7, ZenonT(60)
<1> QED BY <1>1, <1>2, ZenonT(60) DEF Register

\* REGISTER takes a slot that holds no entry.
LEMMA RegisterKept ==
    ASSUME IInv, KInv, NEW k \in Conn, NEW d \in Id, Register(k, d)
    PROVE  KInv'
<1> DEFINE old == find_device(d)
           tab == Without(old)
<1>0. TypeOK /\ pc[k] = "read"
  BY ZenonT(60) DEF IInv, Register
<1>1. \A s \in Slot : /\ tab[s] \in Entry
                      /\ tab[s].in_use = (table[s].in_use /\ s \notin old)
                      /\ tab[s].sock = table[s].sock
  BY <1>0, WithoutEntry, ZenonT(60)
<1>2. /\ \A j \in Conn : up'[j] => up[j]
      /\ \A j \in Conn : up'[j] \/ pc[j] = "read" => sock'[fd[j]] = sock[fd[j]]
      /\ \A s \in Slot : table[s].in_use /\ s \notin old =>
                             sock'[table[s].sock] = sock[table[s].sock]
      /\ \A s \in old, j \in Conn : up'[j] => sock[table[s].sock] # j
  BY RegisterCloses
<1>3. /\ pc'[k] \in {"refuse", "registered"}
      /\ \A j \in Conn : j # k => pc'[j] = pc[j] /\ slot'[j] = slot[j]
      /\ UNCHANGED <<fd, dev, used, claimed>>
  BY <1>0, ZenonT(60) DEF Register, Goto, TypeOK
<1>4. /\ pc'[k] \notin Taken /\ pc'[k] \notin Freed /\ pc[k] \notin Taken \cup {"done"}
      /\ pc[k] \notin Device /\ pc[k] \notin Listed
  BY <1>0, <1>3, ZenonT(60) DEF Taken, Freed, Device, Listed
<1>5. NumbersApart'
  BY <1>0, <1>2, <1>3 DEF KInv, NumbersApart
<1> HIDE DEF tab, old
<1>6. \/ table' = tab /\ pc'[k] = "refuse"
      \/ \E s \in Slot : /\ ~tab[s].in_use /\ slot'[k] = s /\ pc'[k] = "registered"
                         /\ table'[s].in_use /\ table'[s].sock = fd[k]
                         /\ \A t \in Slot : t # s => table'[t] = tab[t]
  <2>1. CASE table' = tab /\ Goto(k, "refuse")
    BY <1>0, <2>1, ZenonT(60) DEF Goto, TypeOK
  <2>2. ASSUME NEW s \in alloc_device_slot(tab),
               table' = [tab EXCEPT ![s].in_use = TRUE,
                                    ![s].id = d, ![s].sock = fd[k]],
               slot' = [slot EXCEPT ![k] = s], Goto(k, "registered")
        PROVE  \E t \in Slot : /\ ~tab[t].in_use /\ slot'[k] = t /\ pc'[k] = "registered"
                               /\ table'[t].in_use /\ table'[t].sock = fd[k]
                               /\ \A i \in Slot : i # t => table'[i] = tab[i]
    <3>1. s \in Slot /\ ~tab[s].in_use /\ tab = [t \in Slot |-> tab[t]] /\ tab[s] \in Entry
      BY <1>1, ZenonT(60) DEF alloc_device_slot, tab, Without
    <3>2. slot'[k] = s /\ pc'[k] = "registered"
      BY <1>0, <2>2, ZenonT(60) DEF Goto, TypeOK
    <3>3. table'[s].in_use /\ table'[s].sock = fd[k]
      BY <2>2, <3>1, ZenonT(60) DEF Entry
    <3>4. \A t \in Slot : t # s => table'[t] = tab[t]
      BY <2>2, <3>1, ZenonT(60)
    <3> QED BY <3>1, <3>2, <3>3, <3>4, ZenonT(60)
  <2> QED BY <2>1, <2>2, ZenonT(60) DEF Register, tab, old
<1>7. \A s \in Slot : \/ /\ table'[s].in_use <=> table[s].in_use /\ s \notin old
                         /\ table'[s].sock = table[s].sock
                      \/ /\ ~(table[s].in_use /\ s \notin old)
                         /\ slot'[k] = s /\ pc'[k] = "registered"
                         /\ table'[s].in_use /\ table'[s].sock = fd[k]
  BY <1>1, <1>6, ZenonT(60)
<1>8. EntriesHeld'
  <2> SUFFICES ASSUME NEW s \in Slot, table'[s].in_use
               PROVE  \E j \in Conn : Holds(j, s)'
    BY ZenonT(60) DEF EntriesHeld, Slot
  <2>1. CASE table[s].in_use /\ s \notin old /\ table'[s].sock = table[s].sock
    <3> PICK j \in Conn : Holds(j, s)
      BY <2>1, ZenonT(60) DEF KInv, EntriesHeld
    <3>1. j # k
      BY <1>4, ZenonT(60) DEF Holds
    <3> QED BY <1>2, <1>3, <2>1, <3>1 DEF Holds
  <2>2. CASE slot'[k] = s /\ pc'[k] = "registered" /\ table'[s].sock = fd[k]
    <3>1. sock'[fd[k]] = k
      BY <1>0, <1>2, ZenonT(60) DEF KInv, NumbersApart
    <3> QED BY <1>3, <2>2, <3>1, ZenonT(60) DEF Holds, Listed
  <2> QED BY <1>7, <2>1, <2>2, ZenonT(60)
<1>9. ClientsKnow'
  <2> SUFFICES ASSUME NEW j \in Conn
               PROVE  /\ claimed[j] # NoConn => pc'[j] \in Taken \cup {"done"}
                      /\ pc'[j] \in Taken =>
                           /\ claimed[j] \in Conn /\ pc'[claimed[j]] \in Device
                           /\ fd[claimed[j]] = dev[j]
                           /\ slot'[claimed[j]] = slot'[j]
                      /\ pc'[j] \in Freed =>
                           ~(table'[slot'[j]].in_use /\ table'[slot'[j]].sock = dev[j])
    BY <1>3, ZenonT(60) DEF ClientsKnow
  <2>1. CASE j = k
    BY <1>4, <2>1, ZenonT(60) DEF KInv, ClientsKnow
  <2>2. CASE j # k
    <3>1. slot[j] \in Slot /\ (pc[j] \in Freed => pc[j] \in Taken)
      BY <1>0, ZenonT(60) DEF TypeOK, Taken
    <3>2. pc[j] \in Taken => claimed[j] # k
      BY <1>4, ZenonT(60) DEF KInv, ClientsKnow
    <3>3. pc[j] \in Taken => fd[k] # dev[j]
      <4> HAVE pc[j] \in Taken
      <4>1. claimed[j] \in Conn /\ fd[claimed[j]] = dev[j] /\ pc[claimed[j]] # "none"
        BY ZenonT(60) DEF KInv, ClientsKnow, Device, Listed
      <4> QED BY <1>0, <3>2, <4>1, ZenonT(60) DEF KInv, NumbersApart
    <3>4. pc[j] \in Freed => ~(table'[slot[j]].in_use /\ table'[slot[j]].sock = dev[j])
      BY <1>7, <3>1, <3>3 DEF KInv, ClientsKnow
    <3> QED BY <1>3, <2>2, <3>2, <3>4 DEF KInv, ClientsKnow
  <2> QED BY <2>1, <2>2, ZenonT(60)
<1>10. DevicesKept'
  <2> SUFFICES ASSUME NEW j \in Conn, pc'[j] \in {"registered", "wait"}, up'[j],
                      NeverTaken(j)'
               PROVE  table'[slot'[j]].in_use /\ table'[slot'[j]].sock = fd[j]
    BY <1>3, ZenonT(60) DEF DevicesKept
  <2>1. CASE j = k
    BY <1>3, <1>6, <2>1, ZenonT(60)
  <2>2. CASE j # k
    <3>1. slot[j] \in Slot /\ claimed[k] = NoConn
      BY <1>0, <1>4, ZenonT(60) DEF TypeOK, KInv, ClientsKnow
    <3>2. NeverTaken(j)
      BY <1>3, <2>2, <3>1, ZenonT(60) DEF NeverTaken
    <3>3. table[slot[j]].in_use /\ table[slot[j]].sock = fd[j] /\ sock[fd[j]] = j
      BY <1>2, <1>3, <2>2, <3>2, ZenonT(60) DEF KInv, DevicesKept, NumbersApart
    <3>4. slot[j] \notin old
      BY <1>2, <3>3
    <3> QED BY <1>3, <1>7, <2>2, <3>1, <3>3, <3>4
  <2> QED BY <2>1, <2>2, ZenonT(60)
<1> QED BY <1>5, <1>8, <1>9, <1>10, ZenonT(60) DEF KInv

\* A thread closes its own number after it has left the table, and that of a
\* device after the device's entry is gone.
LEMMA CloseKept ==
    ASSUME TypeOK, KInv, NEW k \in Conn, CloseOwn(k) \/ CloseClient(k) \/ CloseDevice(k)
    PROVE  KInv'
<1>1. PICK n \in Fd : /\ Close(n)
                      /\ \/ pc[k] \in {"close", "close_client"} /\ n = fd[k]
                         \/ pc[k] = "close_device" /\ n = dev[k]
  BY ZenonT(60) DEF CloseOwn, CloseClient, CloseDevice, TypeOK
<1>2. /\ \A i \in Fd : i # n => sock'[i] = sock[i]
      /\ \A j \in Conn : up'[j] <=> up[j] /\ sock[n] # j
  BY <1>1, ZenonT(60) DEF Close, TypeOK
<1>3. PICK g \in Conn : /\ fd[g] = n
                        /\ pc[g] \in Device \cup {"close_client"}
                        /\ pc[g] \in Listed =>
                              /\ pc[k] \in Freed /\ slot[g] = slot[k] /\ dev[k] = n
  <2>1. CASE pc[k] \in {"close", "close_client"} /\ n = fd[k]
    BY <2>1, ZenonT(60) DEF Device, Listed
  <2>2. CASE pc[k] = "close_device" /\ n = dev[k]
    <3>1. pc[k] \in Freed /\ pc[k] \in Taken
      BY <2>2, ZenonT(60) DEF Freed, Taken
    <3> QED BY <2>2, <3>1, ZenonT(60) DEF KInv, ClientsKnow
  <2> QED BY <1>1, <2>1, <2>2, ZenonT(60)
<1>4. pc[g] # "none" /\ pc[g] # "read"
  BY <1>3, ZenonT(60) DEF Device, Listed
<1>5. \A j \in Conn : up'[j] => sock'[fd[j]] = sock[fd[j]]
  BY <1>2 DEF KInv, NumbersApart, TypeOK
<1>6. \A j \in Conn : pc[j] = "read" => sock'[fd[j]] = sock[fd[j]]
  BY <1>2, <1>3, <1>4, ZenonT(60) DEF KInv, NumbersApart, TypeOK
<1>7. ASSUME NEW s \in Slot, table[s].in_use
      PROVE  sock'[table[s].sock] = sock[table[s].sock]
  <2>1. PICK h \in Conn : Holds(h, s)
    BY <1>7, ZenonT(60) DEF KInv, EntriesHeld
  <2>2. pc[h] # "none" /\ fd[h] = table[s].sock /\ fd[h] \in Fd
    BY <2>1, ZenonT(60) DEF Holds, Listed, TypeOK
  <2>3. fd[h] # n
    <3> SUFFICES ASSUME fd[h] = n PROVE FALSE
      BY ZenonT(60)
    <3>1. h = g
      BY <1>3, <1>4, <2>2, ZenonT(60) DEF KInv, NumbersApart
    <3> QED BY <1>3, <1>7, <2>1, <2>2, <3>1 DEF Holds, KInv, ClientsKnow
  <2> QED BY <1>2, <2>2, <2>3, ZenonT(60)
<1>8. \A j \in Conn : KeepsPlace(j)
  BY GotoKeeps, ZenonT(60) DEF CloseOwn, CloseClient, CloseDevice
<1>9. \A j \in Conn : pc'[j] = "read" => pc[j] = "read"
  BY <1>8, ZenonT(60) DEF KeepsPlace
<1> QED BY <1>2, <1>5, <1>6, <1>7, <1>8, <1>9, QuietStep, ZenonT(60)
        DEF CloseOwn, CloseClient, CloseDevice

\* Every step keeps what the relay knows of its devices.
LEMMA StepKept == IInv /\ KInv /\ ~ReuseNumbers /\ [Next]_vars => KInv'
<1> SUFFICES ASSUME IInv, KInv, ~ReuseNumbers, [Next]_vars PROVE KInv'
  BY ZenonT(60)
<1>0. TypeOK
  BY ZenonT(60) DEF IInv
<1>s. CASE UNCHANGED vars
  <2>1. \A j \in Conn : KeepsPlace(j)
    BY <1>s, ZenonT(60) DEF vars, KeepsPlace
  <2> QED BY <1>0, <1>s, <2>1, QuietStep, ZenonT(60) DEF vars
<1>n. CASE Next
  <2> PICK k \in Conn :
        \/ Accept(k) \/ PeerCloses(k) \/ ReadLine(k) \/ Step(k)
        \/ \E x \in Both : EndDirection(k, x)
    BY <1>n, ZenonT(60) DEF Next
  <2>1. CASE Accept(k)
    BY <1>0, <2>1, AcceptKept, ZenonT(60)
  <2>2. CASE PeerCloses(k)
    <3>1. \A j \in Conn : KeepsPlace(j)
      BY <2>2, ZenonT(60) DEF PeerCloses, KeepsPlace
    <3>2. \A j \in Conn : up'[j] => up[j]
      BY <1>0, <2>2, ZenonT(60) DEF PeerCloses, TypeOK
    <3> QED BY <1>0, <2>2, <3>1, <3>2, QuietStep, ZenonT(60) DEF PeerCloses
  <2>3. CASE ReadFails(k) \/ Refuse(k, "read") \/ Refuse(k, "refuse") \/ SendOk(k)
             \/ PeekEnds(k) \/ NotifyClient(k) \/ NotifyDevice(k)
    <3>1. \A j \in Conn : KeepsPlace(j)
      BY <1>0, <2>3, GotoKeeps, ZenonT(60)
         DEF ReadFails, Refuse, SendOk, PeekEnds, NotifyClient, NotifyDevice
    <3>2. UNCHANGED <<fd, slot, dev, table, used, claimed, sock, up>>
      BY <2>3, ZenonT(60) DEF ReadFails, Refuse, SendOk, PeekEnds, NotifyClient, NotifyDevice
    <3> QED BY <1>0, <3>1, <3>2, QuietStep, ZenonT(60)
  <2>4. CASE CloseOwn(k) \/ CloseClient(k) \/ CloseDevice(k)
    BY <1>0, <2>4, CloseKept, ZenonT(60)
  <2>5. CASE Unregister(k)
    BY <1>0, <2>5, UnregisterKept, ZenonT(60)
  <2>6. ASSUME NEW x \in Both, EndDirection(k, x) PROVE KInv'
    <3>1. UNCHANGED <<fd, slot, dev, table, used, claimed, sock, pc>>
      BY <2>6, ZenonT(60) DEF EndDirection, Shutdown
    <3>2. \A j \in Conn : KeepsPlace(j)
      BY <3>1, ZenonT(60) DEF KeepsPlace
    <3>3. \A j \in Conn : up'[j] => up[j]
      BY <2>6, ZenonT(60) DEF EndDirection, Shutdown
    <3> QED BY <1>0, <3>1, <3>2, <3>3, QuietStep, ZenonT(60)
  <2>7. CASE Release(k)
    BY <1>0, <2>7, ReleaseKept, ZenonT(60)
  <2>8. ASSUME NEW d \in Id, Register(k, d) PROVE KInv'
    BY <2>8, RegisterKept, ZenonT(60)
  <2>9. ASSUME NEW d \in Id, Connect(k, d) PROVE KInv'
    BY <1>0, <2>9, ConnectKept, ZenonT(60)
  <2> QED BY <2>1, <2>2, <2>3, <2>4, <2>5, <2>6, <2>7, <2>8, <2>9, ZenonT(60) DEF ReadLine, Step
<1> QED BY <1>s, <1>n, ZenonT(60)

\* "Device keeps connection open, relay holds it for bridging"
\* (relay_server.c:11): with numbers that are not given out again, a device that
\* was told OK and is still connected keeps its entry in the table, unless a
\* client's thread has taken its slot, however many devices and clients there
\* are and whatever order their threads run in.
THEOREM DeviceIsHeld == Spec => []HeldUnlessSlotBridged
<1>1. Init => IInv /\ KInv
  <2> SUFFICES ASSUME Init PROVE IInv /\ KInv
    BY ZenonT(60)
  <2>1. IInv
    BY InitSound, ZenonT(60)
  <2>2. NumbersApart /\ ClientsKnow /\ DevicesKept
    BY ZenonT(60) DEF Init, NumbersApart, ClientsKnow, DevicesKept, Taken, Freed
  <2>3. EntriesHeld
    BY ZenonT(60) DEF Init, EntriesHeld
  <2> QED BY <2>1, <2>2, <2>3, ZenonT(60) DEF KInv
<1>2. IInv /\ (~ReuseNumbers => KInv) /\ [Next]_vars => (IInv /\ (~ReuseNumbers => KInv))'
  <2>1. IInv /\ [Next]_vars => IInv'
    BY StepType, StepSafe, ZenonT(60) DEF IInv
  <2> QED BY <2>1, StepKept, ZenonT(60)
<1>3. IInv /\ (~ReuseNumbers => KInv) => HeldUnlessSlotBridged
  BY ZenonT(60) DEF KInv, DevicesKept, NeverTaken, HeldUnlessSlotBridged
<1> QED BY <1>1, <1>2, <1>3, PTL DEF Spec
=============================================================================
