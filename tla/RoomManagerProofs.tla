------------------------- MODULE RoomManagerProofs -------------------------
(***************************************************************************)
(* Proofs about RoomManager, for any number of peers, rooms, accounts and  *)
(* Room objects: TypeOK, MutualAwareness, NoLeakedRoom, NoSlotLeak and     *)
(* ListedNameIsBound are invariants of Spec.  None of the last four is     *)
(* inductive; IInv adds what each call has established by the step it is   *)
(* at (Control), which Room an Arc may be (Sharing), why a peer is listed  *)
(* (Listing), and the pairwise bookkeeping of a join that is still under   *)
(* way (Awareness).                                                        *)
(***************************************************************************)
EXTENDS RoomManager, TLAPS

JoinPC  == {"joinEntry", "joinSnapshot", "joinAdd", "joinScan"}
LeavePC == {"leaveRoom", "leaveScan", "leaveRemove"}

\* What the step a session is at says about its own state.
ControlOf(p) ==
  /\ pc[p] \in JoinPC \cup {"idle", "setName", "relabel"} => p \in registered
  /\ p \notin registered => roomIds[p] = {}
  /\ pc[p] = "off" => queue[p] = {} /\ p \notin registered
  /\ pc[p] = "gone" => p \notin registered
  /\ pc[p] \in JoinPC => room[p] \in roomIds[p]
  /\ pc[p] \in LeavePC => room[p] \in RoomId /\ room[p] \notin roomIds[p]
  /\ arc[p] # None <=> pc[p] \in {"joinSnapshot", "joinAdd"}

Control == \A p \in Peer : ControlOf(p)

\* A Room object serves one id, and an Arc to it is held for that id only.
Sharing ==
  /\ \A r, s \in RoomId : rooms[r] # None /\ rooms[r] = rooms[s] => r = s
  /\ \A p \in Peer, r \in RoomId :
       arc[p] # None /\ arc[p] = rooms[r] => room[p] = r

\* p has set the flag of r but has not listed itself yet.
Entering(p, r) ==
  /\ room[p] = r
  /\ pc[p] \in {"joinEntry", "joinSnapshot", "joinAdd"}
  /\ ~rejoin[p]

\* A live room lists a peer only between its add_peer and its remove_peer.
Reason(p, r) ==
  \/ r \in roomIds[p] /\ ~Entering(p, r)
  \/ room[p] = r /\ pc[p] = "leaveRoom"
  \/ p \notin registered /\ r \in queue[p]

Listing == \A r \in RoomId : \A p \in Members(r) : Reason(p, r)

\* p is listed by the live room of r, or about to be.
Present(p, r) ==
  \/ p \in Members(r)
  \/ pc[p] = "joinAdd" /\ room[p] = r /\ arc[p] = rooms[r]

\* p knows q, or q's broadcast has still to visit p, or p has q in the roster
\* it is about to return.
Informed(p, q, r) ==
  \/ q \in view[p][r]
  \/ pc[q] = "joinScan" /\ room[q] = r /\ p \in todo[q]
  \/ pc[p] \in {"joinAdd", "joinScan"} /\ room[p] = r /\ q \in roster[p]

Awareness ==
  \A r \in RoomId : \A p, q \in Peer :
    (/\ p # q
     /\ r \in roomIds[p] /\ Present(p, r)
     /\ r \in roomIds[q] /\ q \in Members(r))
      => Informed(p, q, r)

\* The accounts whose slot p may hold at its step.
Slots(p) ==
  IF p \in registered
  THEN IF pc[p] = "unbind" THEN {acct[p].old, acct[p].new}
       ELSE IF pc[p] \in {"unbindRemove", "setName"} THEN {acct[p].new}
       ELSE {account[p]}
  ELSE IF pc[p] \in {"off", "gone", "unbindRemove"} THEN {}
       ELSE {acct[p].old}

SlotInv ==
  \A a \in Account : accounts[a] # None =>
    \A p \in accounts[a] : a \in Slots(p)

LabelInv ==
  \A r \in RoomId : \A p \in Members(r) :
    p \in registered =>
      \/ label[rooms[r]][p] = account[p]
      \/ pc[p] = "relabel" /\ r \in queue[p]

IInv ==
  /\ TypeOK /\ Control /\ Sharing /\ Listing /\ Awareness
  /\ NoLeakedRoom /\ SlotInv /\ LabelInv
-----------------------------------------------------------------------------
LEMMA InitIInv == Init => IInv
<1> SUFFICES ASSUME Init PROVE IInv
  OBVIOUS
<1>1. TypeOK
  BY DEF Init, TypeOK, PC, AcctLocal
<1>2. ASSUME NEW p \in Peer PROVE ControlOf(p)
  BY DEF Init, ControlOf, JoinPC, LeavePC
<1>3. Sharing /\ Listing /\ Awareness
  BY DEF Init, Sharing, Listing, Awareness, Members
<1>4. NoLeakedRoom /\ SlotInv /\ LabelInv
  BY DEF Init, NoLeakedRoom, SlotInv, LabelInv, Members
<1>5. QED
  BY <1>1, <1>2, <1>3, <1>4 DEF IInv, Control

LEMMA TypeStep ==
  ASSUME TypeOK, Control, NEW p \in Peer, Session(p)
  PROVE  TypeOK'
<1> USE DEF Goto, Others, dirVars, localVars
<1>0. /\ pc[p] \in {"joinEntry", "joinSnapshot", "joinAdd", "joinScan",
                    "leaveRoom", "leaveScan", "leaveRemove"}
            => room[p] \in RoomId
      /\ pc[p] \in {"joinSnapshot", "joinAdd"} => arc[p] \in Instance
  BY DEF TypeOK, Control, ControlOf, JoinPC, LeavePC
<1>1. registered \subseteq Peer
  BY DEF TypeOK
<1>2. roomIds \in [Peer -> SUBSET RoomId]
  BY DEF TypeOK
<1>3. account \in [Peer -> Account \cup {None}]
  BY DEF TypeOK
<1>4. rooms \in [RoomId -> Instance \cup {None}]
  BY DEF TypeOK
<1>5. listed \in [Instance -> SUBSET Peer]
  BY DEF TypeOK
<1>6. label \in [Instance -> [Peer -> Account \cup {None}]]
  BY DEF TypeOK
<1>7. accounts \in [Account -> {None} \cup SUBSET Peer]
  BY DEF TypeOK
<1>8. readers \in [RoomId -> SUBSET Peer]
  BY DEF TypeOK
<1>9. pc \in [Peer -> PC]
  BY DEF TypeOK
<1>10. room \in [Peer -> RoomId \cup {None}]
  BY DEF TypeOK
<1>11. arc \in [Peer -> Instance \cup {None}]
  BY DEF TypeOK
<1>12. rejoin \in [Peer -> BOOLEAN]
  BY DEF TypeOK
<1>13. roster \in [Peer -> SUBSET Peer]
  BY DEF TypeOK
<1>14. todo \in [Peer -> SUBSET Peer]
  BY DEF TypeOK
<1>15. queue \in [Peer -> SUBSET RoomId]
  BY DEF TypeOK
<1>16. acct \in [Peer -> AcctLocal]
  BY DEF TypeOK
<1>17. view \in [Peer -> [RoomId -> SUBSET Peer]]
  BY DEF TypeOK
<1>18. CASE Register(p)
  <2>1. registered' \subseteq Peer
    BY <1>18, <1>1 DEF Register
  <2>2. pc' \in [Peer -> PC]
    BY <1>18, <1>9 DEF Register, PC
  <2>3. UNCHANGED <<roomIds, account, rooms, listed, label, accounts, readers,
     room, arc, rejoin, roster, todo, queue, acct, view>>
    BY <1>18 DEF Register
  <2>4. QED
    BY <2>1, <2>2, <2>3 DEF TypeOK
<1>19. ASSUME NEW r \in RoomId, JoinFlag(p, r) PROVE TypeOK'
  <2>1. roomIds' \in [Peer -> SUBSET RoomId]
    BY <1>19, <1>2 DEF JoinFlag
  <2>2. rejoin' \in [Peer -> BOOLEAN]
    BY <1>19, <1>12 DEF JoinFlag
  <2>3. room' \in [Peer -> RoomId \cup {None}]
    BY <1>19, <1>10 DEF JoinFlag
  <2>4. pc' \in [Peer -> PC]
    BY <1>19, <1>9 DEF JoinFlag, PC
  <2>5. UNCHANGED <<registered, account, rooms, listed, label, accounts,
     readers, arc, roster, todo, queue, acct, view>>
    BY <1>19 DEF JoinFlag
  <2>6. QED
    BY <2>1, <2>2, <2>3, <2>4, <2>5 DEF TypeOK
<1>20. CASE JoinEntry(p)
  <2>1. arc' \in [Peer -> Instance \cup {None}]
    BY <1>20, <1>11, <1>4, <1>0 DEF JoinEntry, EmptyRoom
  <2>2. rooms' \in [RoomId -> Instance \cup {None}]
    BY <1>20, <1>4, <1>0 DEF JoinEntry, EmptyRoom
  <2>3. listed' \in [Instance -> SUBSET Peer]
    BY <1>20, <1>5 DEF JoinEntry, EmptyRoom
  <2>4. label' \in [Instance -> [Peer -> Account \cup {None}]]
    BY <1>20, <1>6 DEF JoinEntry, EmptyRoom
  <2>5. pc' \in [Peer -> PC]
    BY <1>20, <1>9 DEF JoinEntry, EmptyRoom, PC
  <2>6. UNCHANGED <<registered, roomIds, account, accounts, readers, room,
     rejoin, roster, todo, queue, acct, view>>
    BY <1>20 DEF JoinEntry
  <2>7. QED
    BY <2>1, <2>2, <2>3, <2>4, <2>5, <2>6 DEF TypeOK
<1>21. CASE JoinSnapshot(p)
  <2>1. roster' \in [Peer -> SUBSET Peer]
    BY <1>21, <1>13, <1>5, <1>0 DEF JoinSnapshot, EmptyRoom
  <2>2. pc' \in [Peer -> PC]
    BY <1>21, <1>9 DEF JoinSnapshot, EmptyRoom, PC
  <2>3. listed' \in [Instance -> SUBSET Peer]
    BY <1>21, <1>5, <1>0 DEF JoinSnapshot, EmptyRoom
  <2>4. label' \in [Instance -> [Peer -> Account \cup {None}]]
    BY <1>21, <1>6, <1>0 DEF JoinSnapshot, EmptyRoom
  <2>5. arc' \in [Peer -> Instance \cup {None}]
    BY <1>21, <1>11 DEF JoinSnapshot, EmptyRoom
  <2>6. UNCHANGED <<registered, roomIds, account, rooms, accounts, readers,
     room, rejoin, todo, queue, acct, view>>
    BY <1>21 DEF JoinSnapshot
  <2>7. QED
    BY <2>1, <2>2, <2>3, <2>4, <2>5, <2>6 DEF TypeOK
<1>22. CASE JoinAdd(p)
  <2>1. listed' \in [Instance -> SUBSET Peer]
    BY <1>22, <1>5, <1>0 DEF JoinAdd, EmptyRoom
  <2>2. label' \in [Instance -> [Peer -> Account \cup {None}]]
    BY <1>22, <1>6, <1>0, <1>3 DEF JoinAdd, EmptyRoom
  <2>3. arc' \in [Peer -> Instance \cup {None}]
    BY <1>22, <1>11 DEF JoinAdd, EmptyRoom
  <2>4. todo' \in [Peer -> SUBSET Peer]
    BY <1>22, <1>14 DEF JoinAdd, EmptyRoom
  <2>5. pc' \in [Peer -> PC]
    BY <1>22, <1>9 DEF JoinAdd, EmptyRoom, PC
  <2>6. UNCHANGED <<registered, roomIds, account, rooms, accounts, readers,
     room, rejoin, roster, queue, acct, view>>
    BY <1>22 DEF JoinAdd
  <2>7. QED
    BY <2>1, <2>2, <2>3, <2>4, <2>5, <2>6 DEF TypeOK
<1>23. ASSUME NEW q \in Peer, JoinScan(p, q) PROVE TypeOK'
  <2>1. view' \in [Peer -> [RoomId -> SUBSET Peer]]
    BY <1>23, <1>17, <1>0 DEF JoinScan, Flagged
  <2>2. todo' \in [Peer -> SUBSET Peer]
    BY <1>23, <1>14 DEF JoinScan, Flagged
  <2>3. UNCHANGED <<registered, roomIds, account, rooms, listed, label,
     accounts, readers, pc, room, arc, rejoin, roster, queue, acct>>
    BY <1>23 DEF JoinScan, Flagged
  <2>4. QED
    BY <2>1, <2>2, <2>3 DEF TypeOK
<1>24. CASE JoinReturn(p)
  <2>1. view' \in [Peer -> [RoomId -> SUBSET Peer]]
    BY <1>24, <1>17, <1>0, <1>13 DEF JoinReturn
  <2>2. roster' \in [Peer -> SUBSET Peer]
    BY <1>24, <1>13 DEF JoinReturn
  <2>3. room' \in [Peer -> RoomId \cup {None}]
    BY <1>24, <1>10 DEF JoinReturn
  <2>4. rejoin' \in [Peer -> BOOLEAN]
    BY <1>24, <1>12 DEF JoinReturn
  <2>5. pc' \in [Peer -> PC]
    BY <1>24, <1>9 DEF JoinReturn, PC
  <2>6. UNCHANGED <<registered, roomIds, account, rooms, listed, label,
     accounts, readers, arc, todo, queue, acct>>
    BY <1>24 DEF JoinReturn
  <2>7. QED
    BY <2>1, <2>2, <2>3, <2>4, <2>5, <2>6 DEF TypeOK
<1>25. ASSUME NEW r \in RoomId, Leave(p, r) PROVE TypeOK'
  <2>1. queue' \in [Peer -> SUBSET RoomId]
    BY <1>25, <1>15 DEF Leave
  <2>2. pc' \in [Peer -> PC]
    BY <1>25, <1>9 DEF Leave, PC
  <2>3. UNCHANGED <<registered, roomIds, account, rooms, listed, label,
     accounts, readers, room, arc, rejoin, roster, todo, acct, view>>
    BY <1>25 DEF Leave
  <2>4. QED
    BY <2>1, <2>2, <2>3 DEF TypeOK
<1>26. CASE LeaveAll(p)
  <2>1. queue' \in [Peer -> SUBSET RoomId]
    BY <1>26, <1>15, <1>2 DEF LeaveAll
  <2>2. pc' \in [Peer -> PC]
    BY <1>26, <1>9 DEF LeaveAll, PC
  <2>3. UNCHANGED <<registered, roomIds, account, rooms, listed, label,
     accounts, readers, room, arc, rejoin, roster, todo, acct, view>>
    BY <1>26 DEF LeaveAll
  <2>4. QED
    BY <2>1, <2>2, <2>3 DEF TypeOK
<1>27. CASE Unregister(p)
  <2>1. registered' \subseteq Peer
    BY <1>27, <1>1 DEF Unregister
  <2>2. queue' \in [Peer -> SUBSET RoomId]
    BY <1>27, <1>15, <1>2 DEF Unregister
  <2>3. acct' \in [Peer -> AcctLocal]
    BY <1>27, <1>16, <1>3 DEF Unregister, AcctLocal
  <2>4. roomIds' \in [Peer -> SUBSET RoomId]
    BY <1>27, <1>2 DEF Unregister
  <2>5. account' \in [Peer -> Account \cup {None}]
    BY <1>27, <1>3 DEF Unregister
  <2>6. view' \in [Peer -> [RoomId -> SUBSET Peer]]
    BY <1>27, <1>17 DEF Unregister
  <2>7. pc' \in [Peer -> PC]
    BY <1>27, <1>9 DEF Unregister, PC
  <2>8. UNCHANGED <<rooms, listed, label, accounts, readers, room, arc,
     rejoin, roster, todo>>
    BY <1>27 DEF Unregister
  <2>9. QED
    BY <2>1, <2>2, <2>3, <2>4, <2>5, <2>6, <2>7, <2>8 DEF TypeOK
<1>28. ASSUME NEW r \in RoomId, LeaveFlag(p, r) PROVE TypeOK'
  <2>1. queue' \in [Peer -> SUBSET RoomId]
    BY <1>28, <1>15 DEF LeaveFlag, WasMember, AfterRoom
  <2>2. roomIds' \in [Peer -> SUBSET RoomId]
    BY <1>28, <1>2 DEF LeaveFlag, WasMember, AfterRoom
  <2>3. view' \in [Peer -> [RoomId -> SUBSET Peer]]
    BY <1>28, <1>17 DEF LeaveFlag, WasMember, AfterRoom
  <2>4. room' \in [Peer -> RoomId \cup {None}]
    BY <1>28, <1>10 DEF LeaveFlag, WasMember, AfterRoom
  <2>5. pc' \in [Peer -> PC]
    BY <1>28, <1>9 DEF LeaveFlag, WasMember, AfterRoom, PC
  <2>6. UNCHANGED <<registered, account, rooms, listed, label, accounts,
     readers, arc, rejoin, roster, todo, acct>>
    BY <1>28 DEF LeaveFlag, WasMember
  <2>7. QED
    BY <2>1, <2>2, <2>3, <2>4, <2>5, <2>6 DEF TypeOK
<1>29. CASE LeaveRoom(p)
  <2>1. room' \in [Peer -> RoomId \cup {None}]
    BY <1>29, <1>10 DEF LeaveRoom, AfterRoom
  <2>2. pc' \in [Peer -> PC]
    BY <1>29, <1>9 DEF LeaveRoom, AfterRoom, PC
  <2>3. readers' \in [RoomId -> SUBSET Peer]
    BY <1>29, <1>8, <1>0 DEF LeaveRoom, AfterRoom
  <2>4. listed' \in [Instance -> SUBSET Peer]
    BY <1>29, <1>5, <1>4, <1>0 DEF LeaveRoom, AfterRoom
  <2>5. label' \in [Instance -> [Peer -> Account \cup {None}]]
    BY <1>29, <1>6, <1>4, <1>0 DEF LeaveRoom, AfterRoom
  <2>6. todo' \in [Peer -> SUBSET Peer]
    BY <1>29, <1>14 DEF LeaveRoom, AfterRoom
  <2>7. UNCHANGED <<registered, roomIds, account, rooms, accounts, arc,
     rejoin, roster, queue, acct, view>>
    BY <1>29 DEF LeaveRoom
  <2>8. QED
    BY <2>1, <2>2, <2>3, <2>4, <2>5, <2>6, <2>7 DEF TypeOK
<1>30. ASSUME NEW q \in Peer, LeaveScan(p, q) PROVE TypeOK'
  <2>1. view' \in [Peer -> [RoomId -> SUBSET Peer]]
    BY <1>30, <1>17, <1>0 DEF LeaveScan, Flagged
  <2>2. todo' \in [Peer -> SUBSET Peer]
    BY <1>30, <1>14 DEF LeaveScan, Flagged
  <2>3. UNCHANGED <<registered, roomIds, account, rooms, listed, label,
     accounts, readers, pc, room, arc, rejoin, roster, queue, acct>>
    BY <1>30 DEF LeaveScan, Flagged
  <2>4. QED
    BY <2>1, <2>2, <2>3 DEF TypeOK
<1>31. CASE LeaveCheck(p)
  <2>1. readers' \in [RoomId -> SUBSET Peer]
    BY <1>31, <1>8, <1>0 DEF LeaveCheck, AfterRoom
  <2>2. pc' \in [Peer -> PC]
    BY <1>31, <1>9 DEF LeaveCheck, AfterRoom, PC
  <2>3. room' \in [Peer -> RoomId \cup {None}]
    BY <1>31, <1>10 DEF LeaveCheck, AfterRoom
  <2>4. UNCHANGED <<registered, roomIds, account, rooms, listed, label,
     accounts, arc, rejoin, roster, todo, queue, acct, view>>
    BY <1>31 DEF LeaveCheck
  <2>5. QED
    BY <2>1, <2>2, <2>3, <2>4 DEF TypeOK
<1>32. CASE LeaveRemove(p)
  <2>1. rooms' \in [RoomId -> Instance \cup {None}]
    BY <1>32, <1>4, <1>0 DEF LeaveRemove, AfterRoom, EmptyRoom
  <2>2. listed' \in [Instance -> SUBSET Peer]
    BY <1>32, <1>5, <1>4, <1>0 DEF LeaveRemove, AfterRoom, EmptyRoom
  <2>3. label' \in [Instance -> [Peer -> Account \cup {None}]]
    BY <1>32, <1>6, <1>4, <1>0 DEF LeaveRemove, AfterRoom, EmptyRoom
  <2>4. room' \in [Peer -> RoomId \cup {None}]
    BY <1>32, <1>10 DEF LeaveRemove, AfterRoom, EmptyRoom
  <2>5. pc' \in [Peer -> PC]
    BY <1>32, <1>9 DEF LeaveRemove, AfterRoom, EmptyRoom, PC
  <2>6. UNCHANGED <<registered, roomIds, account, accounts, readers, arc,
     rejoin, roster, todo, queue, acct, view>>
    BY <1>32 DEF LeaveRemove
  <2>7. QED
    BY <2>1, <2>2, <2>3, <2>4, <2>5, <2>6 DEF TypeOK
<1>33. ASSUME NEW a \in Account \cup {None}, SetAccount(p, a) PROVE TypeOK'
  <2>1. accounts' \in [Account -> {None} \cup SUBSET Peer]
    BY <1>33, <1>7 DEF SetAccount, AfterReserve
  <2>2. acct' \in [Peer -> AcctLocal]
    BY <1>33, <1>16, <1>3 DEF SetAccount, AfterReserve, AcctLocal
  <2>3. pc' \in [Peer -> PC]
    BY <1>33, <1>9 DEF SetAccount, AfterReserve, PC
  <2>4. UNCHANGED <<registered, roomIds, account, rooms, listed, label,
     readers, room, arc, rejoin, roster, todo, queue, view>>
    BY <1>33 DEF SetAccount, AfterReserve
  <2>5. QED
    BY <2>1, <2>2, <2>3, <2>4 DEF TypeOK
<1>34. CASE Unbind(p)
  <2>1. accounts' \in [Account -> {None} \cup SUBSET Peer]
    BY <1>34, <1>7, <1>16 DEF Unbind, AfterUnbind, AcctLocal
  <2>2. pc' \in [Peer -> PC]
    BY <1>34, <1>9 DEF Unbind, AfterUnbind, PC
  <2>3. UNCHANGED <<registered, roomIds, account, rooms, listed, label,
     readers, room, arc, rejoin, roster, todo, queue, acct, view>>
    BY <1>34 DEF Unbind
  <2>4. QED
    BY <2>1, <2>2, <2>3 DEF TypeOK
<1>35. CASE UnbindRemove(p)
  <2>1. accounts' \in [Account -> {None} \cup SUBSET Peer]
    BY <1>35, <1>7, <1>16 DEF UnbindRemove, AfterUnbind, AcctLocal
  <2>2. pc' \in [Peer -> PC]
    BY <1>35, <1>9 DEF UnbindRemove, AfterUnbind, PC
  <2>3. UNCHANGED <<registered, roomIds, account, rooms, listed, label,
     readers, room, arc, rejoin, roster, todo, queue, acct, view>>
    BY <1>35 DEF UnbindRemove
  <2>4. QED
    BY <2>1, <2>2, <2>3 DEF TypeOK
<1>36. CASE SetName(p)
  <2>1. account' \in [Peer -> Account \cup {None}]
    BY <1>36, <1>3, <1>16 DEF SetName, AcctLocal
  <2>2. acct' \in [Peer -> AcctLocal]
    BY <1>36, <1>16 DEF SetName, AcctLocal
  <2>3. queue' \in [Peer -> SUBSET RoomId]
    BY <1>36, <1>15, <1>2 DEF SetName
  <2>4. pc' \in [Peer -> PC]
    BY <1>36, <1>9 DEF SetName, PC
  <2>5. UNCHANGED <<registered, roomIds, rooms, listed, label, accounts,
     readers, room, arc, rejoin, roster, todo, view>>
    BY <1>36 DEF SetName
  <2>6. QED
    BY <2>1, <2>2, <2>3, <2>4, <2>5 DEF TypeOK
<1>37. ASSUME NEW r \in RoomId, Relabel(p, r) PROVE TypeOK'
  <2>1. queue' \in [Peer -> SUBSET RoomId]
    BY <1>37, <1>15 DEF Relabel, Remaining
  <2>2. label' \in [Instance -> [Peer -> Account \cup {None}]]
    BY <1>37, <1>6, <1>4, <1>3 DEF Relabel, Remaining
  <2>3. UNCHANGED <<registered, roomIds, account, rooms, listed, accounts,
     readers, pc, room, arc, rejoin, roster, todo, acct, view>>
    BY <1>37 DEF Relabel, Remaining
  <2>4. QED
    BY <2>1, <2>2, <2>3 DEF TypeOK
<1>38. CASE RelabelDone(p)
  <2>1. pc' \in [Peer -> PC]
    BY <1>38, <1>9 DEF RelabelDone, PC
  <2>2. UNCHANGED <<registered, roomIds, account, rooms, listed, label,
     accounts, readers, room, arc, rejoin, roster, todo, queue, acct, view>>
    BY <1>38 DEF RelabelDone
  <2>3. QED
    BY <2>1, <2>2 DEF TypeOK
<1>39. QED
  BY <1>18, <1>19, <1>20, <1>21, <1>22, <1>23, <1>24, <1>25, <1>26, <1>27,
     <1>28, <1>29, <1>30, <1>31, <1>32, <1>33, <1>34, <1>35, <1>36, <1>37,
        <1>38 DEF Session

\* A session's locals, its flags and its account name change in its own steps
\* only.
SameLocals(x) ==
  /\ x \in registered' <=> x \in registered
  /\ roomIds'[x] = roomIds[x] /\ account'[x] = account[x]
  /\ pc'[x] = pc[x] /\ room'[x] = room[x] /\ arc'[x] = arc[x]
  /\ rejoin'[x] = rejoin[x] /\ roster'[x] = roster[x] /\ todo'[x] = todo[x]
  /\ queue'[x] = queue[x] /\ acct'[x] = acct[x]

LEMMA LocalStep ==
  ASSUME TypeOK, NEW p \in Peer, Session(p), NEW x \in Peer, x # p
  PROVE  SameLocals(x)
<1>0. /\ roomIds \in [Peer -> SUBSET RoomId]
      /\ account \in [Peer -> Account \cup {None}]
      /\ pc \in [Peer -> PC]
      /\ room \in [Peer -> RoomId \cup {None}]
      /\ arc \in [Peer -> Instance \cup {None}]
      /\ rejoin \in [Peer -> BOOLEAN]
      /\ roster \in [Peer -> SUBSET Peer]
      /\ todo \in [Peer -> SUBSET Peer]
      /\ queue \in [Peer -> SUBSET RoomId]
      /\ acct \in [Peer -> AcctLocal]
  BY DEF TypeOK
<1> USE DEF SameLocals, Goto, Others, dirVars, localVars
<1>1. CASE Register(p)
  BY <1>1, <1>0, x # p DEF Register
<1>2. ASSUME NEW r \in RoomId, JoinFlag(p, r) PROVE SameLocals(x)
  BY <1>2, <1>0, x # p DEF JoinFlag
<1>3. CASE JoinEntry(p)
  BY <1>3, <1>0, x # p DEF JoinEntry
<1>4. CASE JoinSnapshot(p)
  BY <1>4, <1>0, x # p DEF JoinSnapshot
<1>5. CASE JoinAdd(p)
  BY <1>5, <1>0, x # p DEF JoinAdd
<1>6. ASSUME NEW q \in Peer, JoinScan(p, q) PROVE SameLocals(x)
  BY <1>6, <1>0, x # p DEF JoinScan, Flagged
<1>7. CASE JoinReturn(p)
  BY <1>7, <1>0, x # p DEF JoinReturn
<1>8. ASSUME NEW r \in RoomId, Leave(p, r) PROVE SameLocals(x)
  BY <1>8, <1>0, x # p DEF Leave
<1>9. CASE LeaveAll(p)
  BY <1>9, <1>0, x # p DEF LeaveAll
<1>10. CASE Unregister(p)
  BY <1>10, <1>0, x # p DEF Unregister
<1>11. ASSUME NEW r \in RoomId, LeaveFlag(p, r) PROVE SameLocals(x)
  BY <1>11, <1>0, x # p DEF LeaveFlag, WasMember
<1>12. CASE LeaveRoom(p)
  BY <1>12, <1>0, x # p DEF LeaveRoom
<1>13. ASSUME NEW q \in Peer, LeaveScan(p, q) PROVE SameLocals(x)
  BY <1>13, <1>0, x # p DEF LeaveScan, Flagged
<1>14. CASE LeaveCheck(p)
  BY <1>14, <1>0, x # p DEF LeaveCheck
<1>15. CASE LeaveRemove(p)
  BY <1>15, <1>0, x # p DEF LeaveRemove
<1>16. ASSUME NEW a \in Account \cup {None}, SetAccount(p,
   a) PROVE SameLocals(x)
  BY <1>16, <1>0, x # p DEF SetAccount, AfterReserve
<1>17. CASE Unbind(p)
  BY <1>17, <1>0, x # p DEF Unbind
<1>18. CASE UnbindRemove(p)
  BY <1>18, <1>0, x # p DEF UnbindRemove
<1>19. CASE SetName(p)
  BY <1>19, <1>0, x # p DEF SetName
<1>20. ASSUME NEW r \in RoomId, Relabel(p, r) PROVE SameLocals(x)
  BY <1>20, <1>0, x # p DEF Relabel, Remaining
<1>21. CASE RelabelDone(p)
  BY <1>21, <1>0, x # p DEF RelabelDone
<1>22. QED
  BY <1>1, <1>2, <1>3, <1>4, <1>5, <1>6, <1>7, <1>8, <1>9, <1>10, <1>11,
     <1>12, <1>13, <1>14, <1>15, <1>16, <1>17, <1>18, <1>19, <1>20,
        <1>21 DEF Session

LEMMA ControlStep ==
  ASSUME TypeOK, Control, NEW p \in Peer, Session(p)
  PROVE  Control'
<1> SUFFICES ASSUME NEW x \in Peer PROVE ControlOf(x)'
  BY DEF Control
<1>a. ControlOf(x)
  BY DEF Control
<1>b. CASE x # p
  BY <1>a, <1>b, LocalStep DEF SameLocals, ControlOf
<1>c. CASE x = p
  <2>0. /\ registered \subseteq Peer
        /\ roomIds \in [Peer -> SUBSET RoomId]
        /\ pc \in [Peer -> PC]
        /\ room \in [Peer -> RoomId \cup {None}]
        /\ arc \in [Peer -> Instance \cup {None}]
        /\ queue \in [Peer -> SUBSET RoomId]
        /\ rooms \in [RoomId -> Instance \cup {None}]
        /\ None \notin Instance
    BY NoneAssumption DEF TypeOK
  <2> USE DEF ControlOf, JoinPC, LeavePC, Goto, Others, dirVars, localVars
  <2>1. CASE Register(p)
    BY <2>1, <2>0, <1>a, <1>c DEF Register
  <2>2. ASSUME NEW r \in RoomId, JoinFlag(p, r) PROVE ControlOf(x)'
    BY <2>2, <2>0, <1>a, <1>c DEF JoinFlag
  <2>3. CASE JoinEntry(p)
    BY <2>3, <2>0, <1>a, <1>c DEF JoinEntry, EmptyRoom
  <2>4. CASE JoinSnapshot(p)
    BY <2>4, <2>0, <1>a, <1>c DEF JoinSnapshot, EmptyRoom
  <2>5. CASE JoinAdd(p)
    BY <2>5, <2>0, <1>a, <1>c DEF JoinAdd, EmptyRoom
  <2>6. ASSUME NEW q \in Peer, JoinScan(p, q) PROVE ControlOf(x)'
    BY <2>6, <2>0, <1>a, <1>c DEF JoinScan, Flagged
  <2>7. CASE JoinReturn(p)
    BY <2>7, <2>0, <1>a, <1>c DEF JoinReturn
  <2>8. ASSUME NEW r \in RoomId, Leave(p, r) PROVE ControlOf(x)'
    BY <2>8, <2>0, <1>a, <1>c DEF Leave
  <2>9. CASE LeaveAll(p)
    BY <2>9, <2>0, <1>a, <1>c DEF LeaveAll
  <2>10. CASE Unregister(p)
    BY <2>10, <2>0, <1>a, <1>c DEF Unregister
  <2>11. ASSUME NEW r \in RoomId, LeaveFlag(p, r) PROVE ControlOf(x)'
    BY <2>11, <2>0, <1>a, <1>c DEF LeaveFlag, WasMember, AfterRoom
  <2>12. CASE LeaveRoom(p)
    BY <2>12, <2>0, <1>a, <1>c DEF LeaveRoom, AfterRoom
  <2>13. ASSUME NEW q \in Peer, LeaveScan(p, q) PROVE ControlOf(x)'
    BY <2>13, <2>0, <1>a, <1>c DEF LeaveScan, Flagged
  <2>14. CASE LeaveCheck(p)
    BY <2>14, <2>0, <1>a, <1>c DEF LeaveCheck, AfterRoom
  <2>15. CASE LeaveRemove(p)
    BY <2>15, <2>0, <1>a, <1>c DEF LeaveRemove, AfterRoom, EmptyRoom
  <2>16. ASSUME NEW a \in Account \cup {None}, SetAccount(p,
     a) PROVE ControlOf(x)'
    BY <2>16, <2>0, <1>a, <1>c DEF SetAccount, AfterReserve
  <2>17. CASE Unbind(p)
    BY <2>17, <2>0, <1>a, <1>c DEF Unbind, AfterUnbind
  <2>18. CASE UnbindRemove(p)
    BY <2>18, <2>0, <1>a, <1>c DEF UnbindRemove, AfterUnbind
  <2>19. CASE SetName(p)
    BY <2>19, <2>0, <1>a, <1>c DEF SetName
  <2>20. ASSUME NEW r \in RoomId, Relabel(p, r) PROVE ControlOf(x)'
    BY <2>20, <2>0, <1>a, <1>c DEF Relabel, Remaining
  <2>21. CASE RelabelDone(p)
    BY <2>21, <2>0, <1>a, <1>c DEF RelabelDone
  <2>22. QED
    BY <2>1, <2>2, <2>3, <2>4, <2>5, <2>6, <2>7, <2>8, <2>9, <2>10, <2>11,
       <2>12, <2>13, <2>14, <2>15, <2>16, <2>17, <2>18, <2>19, <2>20,
          <2>21 DEF Session
<1>d. QED
  BY <1>b, <1>c

\* The steps that touch the directory of rooms or an Arc to one of them.
LEMMA DirectoryFrame ==
  ASSUME NEW p \in Peer, Session(p)
  PROVE  \/ UNCHANGED <<rooms, listed, label, arc>>
         \/ JoinEntry(p) \/ JoinSnapshot(p) \/ JoinAdd(p)
         \/ LeaveRoom(p) \/ LeaveRemove(p)
         \/ \E r \in RoomId : Relabel(p, r)
BY DEF Session, dirVars, localVars, Register, JoinFlag, JoinScan, JoinReturn,
       Leave, LeaveAll, Unregister, LeaveFlag, LeaveScan, LeaveCheck,
       SetAccount, Unbind, UnbindRemove, SetName, RelabelDone

\* A session that holds an Arc stays with its room.
LEMMA ArcHolderStays ==
  ASSUME Control, NEW p \in Peer, Session(p), arc[p] # None
  PROVE  room' = room
<1>1. pc[p] \in {"joinSnapshot", "joinAdd"}
  BY DEF Control, ControlOf
<1>2. QED
  BY <1>1 DEF Session, dirVars, localVars, Register, JoinFlag, JoinEntry,
       JoinSnapshot, JoinAdd, JoinScan, JoinReturn, Leave, LeaveAll,
       Unregister, LeaveFlag, LeaveRoom, LeaveScan, LeaveCheck, LeaveRemove,
       SetAccount, Unbind, UnbindRemove, SetName, Relabel, RelabelDone

LEMMA SharingStep ==
  ASSUME TypeOK, Control, Sharing, NEW p \in Peer, Session(p)
  PROVE  Sharing'
<1>0. /\ rooms \in [RoomId -> Instance \cup {None}]
      /\ arc \in [Peer -> Instance \cup {None}]
      /\ room \in [Peer -> RoomId \cup {None}]
      /\ pc[p] = "joinEntry" => room[p] \in RoomId
      /\ None \notin Instance
      /\ pc[p] \in {"joinEntry", "leaveRemove"} => arc[p] = None
      /\ pc[p] = "leaveRemove" => room[p] \in RoomId
  BY NoneAssumption DEF TypeOK, Control, ControlOf, JoinPC, LeavePC
<1>1. \A x \in Peer \ {p} : room'[x] = room[x] /\ arc'[x] = arc[x]
  BY LocalStep DEF SameLocals
<1>2. arc[p] # None => room'[p] = room[p]
  BY ArcHolderStays
<1>3. CASE UNCHANGED <<rooms, arc>>
  BY <1>1, <1>2, <1>3 DEF Sharing
<1>4. CASE JoinEntry(p)
  <2>1. CASE rooms[room[p]] # None
    BY <1>0, <1>1, <1>4, <2>1 DEF JoinEntry, Sharing
  <2>2. CASE rooms[room[p]] = None
    <3>1. PICK i \in Instance :
            /\ ~Mapped(i) /\ ~HeldBesides(p, i)
            /\ arc' = [arc EXCEPT ![p] = i]
            /\ rooms' = [rooms EXCEPT ![room[p]] = i]
      BY <1>4, <2>2 DEF JoinEntry
    <3>2. \A x \in Peer \ {p} : arc[x] # i
      BY <3>1 DEF HeldBesides, Others
    <3>3. \A r \in RoomId : rooms[r] # i
      BY <3>1 DEF Mapped
    <3>4. room' = room
      BY <1>4 DEF JoinEntry
    <3>5. QED
      BY <1>0, <1>4, <3>1, <3>2, <3>3, <3>4 DEF JoinEntry, Sharing
  <2>3. QED
    BY <2>1, <2>2
<1>5. CASE JoinSnapshot(p) \/ JoinAdd(p)
  <2>1. rooms' = rooms /\ room' = room /\ arc'[p] \in {arc[p], None}
    BY <1>0, <1>5 DEF JoinSnapshot, JoinAdd
  <2>2. QED
    BY <1>1, <2>1 DEF Sharing
<1>6. CASE LeaveRemove(p)
  <2>1. /\ rooms' = [rooms EXCEPT ![room[p]] = None]
        /\ arc' = arc /\ arc[p] = None
    BY <1>0, <1>6 DEF LeaveRemove
  <2>2. QED
    BY <1>0, <1>1, <1>6, <2>1 DEF Sharing, LeaveRemove
<1>7. CASE LeaveRoom(p) \/ \E r \in RoomId : Relabel(p, r)
  BY <1>3, <1>7 DEF LeaveRoom, Relabel
<1>8. QED
  BY <1>3, <1>4, <1>5, <1>6, <1>7, DirectoryFrame

\* A live room gains members by add_peer on the Arc that is mapped, only.
LEMMA MembersStep ==
  ASSUME TypeOK, Control, Sharing, NEW p \in Peer, Session(p),
         NEW r \in RoomId
  PROVE  \/ Members(r)' \subseteq Members(r)
         \/ /\ JoinAdd(p) /\ room[p] = r /\ arc[p] = rooms[r]
            /\ Members(r)' = Members(r) \cup {p}
<1>0. /\ rooms \in [RoomId -> Instance \cup {None}]
      /\ arc \in [Peer -> Instance \cup {None}]
      /\ listed \in [Instance -> SUBSET Peer]
      /\ pc[p] \in {"joinSnapshot", "joinAdd"} => arc[p] \in Instance
      /\ pc[p] \in {"joinEntry", "leaveRoom", "leaveRemove"}
            => room[p] \in RoomId
      /\ None \notin Instance
  BY NoneAssumption DEF TypeOK, Control, ControlOf, JoinPC, LeavePC
<1>1. CASE UNCHANGED <<rooms, listed>>
  BY <1>1 DEF Members
<1>2. CASE JoinEntry(p)
  BY <1>0, <1>1, <1>2 DEF JoinEntry, Members, EmptyRoom, Mapped
<1>3. CASE JoinSnapshot(p)
  BY <1>0, <1>1, <1>3 DEF JoinSnapshot, Members, EmptyRoom
<1>4. CASE JoinAdd(p)
  <2>1. CASE arc[p] = rooms[r]
    <3>1. room[p] = r
      BY <1>0, <1>4, <2>1 DEF Sharing, JoinAdd
    <3>2. listed' = [listed EXCEPT ![arc[p]] = @ \cup {p}] /\ rooms' = rooms
      BY <1>4, <2>1 DEF JoinAdd, Mapped
    <3>3. QED
      BY <1>0, <1>4, <2>1, <3>1, <3>2 DEF Members, JoinAdd
  <2>2. CASE arc[p] # rooms[r]
    BY <1>0, <1>4, <2>2 DEF JoinAdd, Members, EmptyRoom
  <2>3. QED
    BY <2>1, <2>2
<1>5. CASE LeaveRoom(p)
  BY <1>0, <1>1, <1>5 DEF LeaveRoom, Members
<1>6. CASE LeaveRemove(p)
  BY <1>0, <1>6 DEF LeaveRemove, Members, EmptyRoom
<1>7. CASE \E s \in RoomId : Relabel(p, s)
  BY <1>1, <1>7 DEF Relabel, Remaining
<1>8. QED
  BY <1>1, <1>2, <1>3, <1>4, <1>5, <1>6, <1>7, DirectoryFrame

LEMMA ListingStep ==
  ASSUME TypeOK, Control, Sharing, Listing, NEW p \in Peer, Session(p)
  PROVE  Listing'
<1> SUFFICES ASSUME NEW r \in RoomId, NEW x \in Members(r)'
             PROVE  Reason(x, r)'
  BY DEF Listing
<1>0. /\ registered \subseteq Peer
      /\ roomIds \in [Peer -> SUBSET RoomId]
      /\ pc \in [Peer -> PC]
      /\ room \in [Peer -> RoomId \cup {None}]
      /\ rejoin \in [Peer -> BOOLEAN]
      /\ queue \in [Peer -> SUBSET RoomId]
      /\ rooms \in [RoomId -> Instance \cup {None}]
      /\ listed \in [Instance -> SUBSET Peer]
      /\ None \notin Instance
      /\ ControlOf(p)
  BY NoneAssumption DEF TypeOK, Control
<1>1. CASE x \notin Members(r)
  <2>1. JoinAdd(p) /\ room[p] = r /\ x = p
    BY <1>1, MembersStep
  <2>2. QED
    BY <1>0, <2>1 DEF Reason, Entering, JoinAdd, ControlOf, JoinPC, Goto
<1>2. CASE x \in Members(r) /\ x # p
  <2>1. x \in Peer /\ Reason(x, r)
    BY <1>0, <1>2 DEF Members, Listing
  <2>2. SameLocals(x)
    BY <1>2, <2>1, LocalStep
  <2>3. QED
    BY <2>1, <2>2 DEF SameLocals, Reason, Entering
<1>3. CASE x \in Members(r) /\ x = p
  <2>a. Reason(p, r) /\ p \in Members(r)
    BY <1>3 DEF Listing
  <2>b. ~(LeaveRoom(p) /\ room[p] = r)
    BY <1>0, <1>3 DEF LeaveRoom, Members
  <2>c. Reason(p, r)'
    <3> USE DEF Reason, Entering, ControlOf, JoinPC, LeavePC, Goto, Others,
            dirVars, localVars
    <3>1. CASE Register(p)
      BY <3>1, <1>0, <2>a, <2>b DEF Register
    <3>2. ASSUME NEW s \in RoomId, JoinFlag(p, s) PROVE Reason(p, r)'
      BY <3>2, <1>0, <2>a, <2>b DEF JoinFlag
    <3>3. CASE JoinEntry(p)
      BY <3>3, <1>0, <2>a, <2>b DEF JoinEntry, EmptyRoom
    <3>4. CASE JoinSnapshot(p)
      BY <3>4, <1>0, <2>a, <2>b DEF JoinSnapshot, EmptyRoom
    <3>5. CASE JoinAdd(p)
      BY <3>5, <1>0, <2>a, <2>b DEF JoinAdd, EmptyRoom
    <3>6. ASSUME NEW q \in Peer, JoinScan(p, q) PROVE Reason(p, r)'
      BY <3>6, <1>0, <2>a, <2>b DEF JoinScan, Flagged
    <3>7. CASE JoinReturn(p)
      BY <3>7, <1>0, <2>a, <2>b DEF JoinReturn
    <3>8. ASSUME NEW s \in RoomId, Leave(p, s) PROVE Reason(p, r)'
      BY <3>8, <1>0, <2>a, <2>b DEF Leave
    <3>9. CASE LeaveAll(p)
      BY <3>9, <1>0, <2>a, <2>b DEF LeaveAll
    <3>10. CASE Unregister(p)
      BY <3>10, <1>0, <2>a, <2>b DEF Unregister
    <3>11. ASSUME NEW s \in RoomId, LeaveFlag(p, s) PROVE Reason(p, r)'
      BY <3>11, <1>0, <2>a, <2>b DEF LeaveFlag, WasMember, AfterRoom
    <3>12. CASE LeaveRoom(p)
      BY <3>12, <1>0, <2>a, <2>b DEF LeaveRoom, AfterRoom
    <3>13. ASSUME NEW q \in Peer, LeaveScan(p, q) PROVE Reason(p, r)'
      BY <3>13, <1>0, <2>a, <2>b DEF LeaveScan, Flagged
    <3>14. CASE LeaveCheck(p)
      BY <3>14, <1>0, <2>a, <2>b DEF LeaveCheck, AfterRoom
    <3>15. CASE LeaveRemove(p)
      BY <3>15, <1>0, <2>a, <2>b DEF LeaveRemove, AfterRoom, EmptyRoom
    <3>16. ASSUME NEW a \in Account \cup {None}, SetAccount(p,
       a) PROVE Reason(p, r)'
      BY <3>16, <1>0, <2>a, <2>b DEF SetAccount, AfterReserve
    <3>17. CASE Unbind(p)
      BY <3>17, <1>0, <2>a, <2>b DEF Unbind, AfterUnbind
    <3>18. CASE UnbindRemove(p)
      BY <3>18, <1>0, <2>a, <2>b DEF UnbindRemove, AfterUnbind
    <3>19. CASE SetName(p)
      BY <3>19, <1>0, <2>a, <2>b DEF SetName
    <3>20. ASSUME NEW s \in RoomId, Relabel(p, s) PROVE Reason(p, r)'
      BY <3>20, <1>0, <2>a, <2>b DEF Relabel, Remaining
    <3>21. CASE RelabelDone(p)
      BY <3>21, <1>0, <2>a, <2>b DEF RelabelDone
    <3>22. QED
      BY <3>1, <3>2, <3>3, <3>4, <3>5, <3>6, <3>7, <3>8, <3>9, <3>10, <3>11,
         <3>12, <3>13, <3>14, <3>15, <3>16, <3>17, <3>18, <3>19, <3>20,
            <3>21 DEF Session
  <2>d. QED
    BY <1>3, <2>c
<1>4. QED
  BY <1>1, <1>2, <1>3

\* A peer becomes present in a room when it has read the live room's roster.
LEMMA PresentStep ==
  ASSUME TypeOK, Control, Sharing, NEW p \in Peer, Session(p),
         NEW r \in RoomId, NEW x \in Peer, Present(x, r)'
  PROVE  \/ Present(x, r)
         \/ JoinSnapshot(p) /\ x = p /\ room[p] = r /\ arc[p] = rooms[r]
<1>0. /\ rooms \in [RoomId -> Instance \cup {None}]
      /\ pc \in [Peer -> PC]
      /\ arc \in [Peer -> Instance \cup {None}]
      /\ pc[x] = "joinAdd" => arc[x] # None
  BY DEF TypeOK, Control, ControlOf
<1>1. CASE x \in Members(r)'
  BY <1>1, MembersStep DEF Present, JoinAdd
<1>2. CASE pc'[x] = "joinAdd" /\ room'[x] = r /\ arc'[x] = rooms'[r]
  <2>1. CASE x # p
    <3>1. pc[x] = "joinAdd" /\ room[x] = r /\ arc[x] = rooms'[r]
      BY <1>2, <2>1, LocalStep DEF SameLocals
    <3>2. rooms'[r] = rooms[r]
      <4>1. CASE JoinEntry(p)
        BY <1>0, <2>1, <3>1, <4>1 DEF JoinEntry, HeldBesides, Others
      <4>2. CASE LeaveRemove(p)
        BY <1>0, <3>1, <4>2 DEF LeaveRemove
      <4>3. QED
        BY <4>1, <4>2, DirectoryFrame
           DEF JoinSnapshot, JoinAdd, LeaveRoom, Relabel
    <3>3. QED
      BY <3>1, <3>2 DEF Present
  <2>2. CASE x = p
    <3>1. JoinSnapshot(p)
      BY <1>0, <1>2, <2>2
         DEF Session, PC, Goto, dirVars, localVars, Register, JoinFlag,
             JoinEntry, JoinAdd, JoinScan, JoinReturn, Leave, LeaveAll,
             Unregister, LeaveFlag, LeaveRoom, LeaveScan, LeaveCheck,
             LeaveRemove, SetAccount, Unbind, UnbindRemove, SetName, Relabel,
             RelabelDone, AfterRoom, AfterReserve, AfterUnbind
    <3>2. QED
      BY <1>0, <1>2, <2>2, <3>1 DEF JoinSnapshot, Goto
  <2>3. QED
    BY <2>1, <2>2
<1>3. QED
  BY <1>1, <1>2 DEF Present

\* The steps that tell a client something.
LEMMA ViewFrame ==
  ASSUME NEW p \in Peer, Session(p)
  PROVE  \/ UNCHANGED view
         \/ \E q \in Peer : JoinScan(p, q)
         \/ JoinReturn(p) \/ Unregister(p)
         \/ \E r \in RoomId : LeaveFlag(p, r)
         \/ \E q \in Peer : LeaveScan(p, q)
BY DEF Session, Register, JoinFlag, JoinEntry, JoinSnapshot, JoinAdd, Leave,
       LeaveAll, LeaveRoom, LeaveCheck, LeaveRemove, SetAccount, Unbind,
       UnbindRemove, SetName, Relabel, RelabelDone

\* The steps that set or drop a flag.
LEMMA FlagFrame ==
  ASSUME NEW p \in Peer, Session(p)
  PROVE  \/ UNCHANGED roomIds
         \/ Unregister(p)
         \/ \E r \in RoomId : JoinFlag(p, r) \/ LeaveFlag(p, r)
BY DEF Session, dirVars, Register, JoinEntry, JoinSnapshot, JoinAdd, JoinScan,
       JoinReturn, Leave, LeaveAll, LeaveRoom, LeaveScan, LeaveCheck,
       LeaveRemove, SetAccount, Unbind, UnbindRemove, SetName, Relabel,
       RelabelDone

\* A client that knows of a member, or is sure to be told, stays so.
LEMMA InformedStep ==
  ASSUME TypeOK, Control, NEW p \in Peer, Session(p),
         NEW r \in RoomId, NEW x \in Peer, NEW y \in Peer, x # y,
         r \in roomIds[x], r \in roomIds'[x], r \in roomIds[y],
         Informed(x, y, r)
  PROVE  Informed(x, y, r)'
<1>0. /\ roomIds \in [Peer -> SUBSET RoomId]
      /\ pc \in [Peer -> PC]
      /\ room \in [Peer -> RoomId \cup {None}]
      /\ roster \in [Peer -> SUBSET Peer]
      /\ todo \in [Peer -> SUBSET Peer]
      /\ view \in [Peer -> [RoomId -> SUBSET Peer]]
      /\ pc[y] = "leaveScan" => room[y] # r
      /\ pc[p] \in {"joinScan", "leaveScan"} => room[p] \in RoomId
  BY DEF TypeOK, Control, ControlOf, JoinPC, LeavePC
<1>1. CASE y \in view[x][r]
  <2>1. ASSUME NEW q \in Peer, JoinScan(p, q) PROVE y \in view'[x][r]
    BY <1>0, <1>1, <2>1 DEF JoinScan, Flagged
  <2>2. CASE JoinReturn(p)
    <3>1. /\ view' = [view EXCEPT ![p][room[p]] = @ \cup (roster[p] \ {p})]
          /\ room[p] \in RoomId
      BY <1>0, <2>2 DEF JoinReturn
    <3>2. QED
      BY <1>0, <1>1, <3>1 DEF Informed
  <2>3. CASE Unregister(p)
    <3>1. /\ view' = [view EXCEPT ![p] = [s \in RoomId |-> {}]]
          /\ roomIds' = [roomIds EXCEPT ![p] = {}]
      BY <2>3 DEF Unregister
    <3>2. x # p
      BY <1>0, <3>1
    <3>3. QED
      BY <1>0, <1>1, <3>1, <3>2 DEF Informed
  <2>4. ASSUME NEW s \in RoomId, LeaveFlag(p, s) PROVE y \in view'[x][r]
    BY <1>0, <1>1, <2>4 DEF LeaveFlag, WasMember
  <2>5. ASSUME NEW q \in Peer, LeaveScan(p, q) PROVE y \in view'[x][r]
    BY <1>0, <1>1, <2>5 DEF LeaveScan, Flagged
  <2>6. QED
    BY <1>1, <2>1, <2>2, <2>3, <2>4, <2>5, ViewFrame DEF Informed
<1>2. CASE pc[y] = "joinScan" /\ room[y] = r /\ x \in todo[y]
  <2>1. CASE y # p
    BY <1>2, <2>1, LocalStep DEF SameLocals, Informed
  <2>2. CASE y = p
    <3>1. PICK q \in Peer : JoinScan(p, q)
      BY <1>2, <2>2
         DEF Session, Register, JoinFlag, JoinEntry, JoinSnapshot, JoinAdd,
             JoinReturn, Leave, LeaveAll, Unregister, LeaveFlag, LeaveRoom,
             LeaveScan, LeaveCheck, LeaveRemove, SetAccount, Unbind,
             UnbindRemove, SetName, Relabel, RelabelDone
    <3>2. QED
      BY <1>0, <1>2, <2>2, <3>1 DEF JoinScan, Flagged, Informed
  <2>3. QED
    BY <2>1, <2>2
<1>3. CASE pc[x] \in {"joinAdd", "joinScan"} /\ room[x] = r /\ y \in roster[x]
  <2>1. CASE x # p
    BY <1>3, <2>1, LocalStep DEF SameLocals, Informed
  <2>2. CASE x = p
    <3>1. \/ JoinAdd(p) \/ JoinReturn(p) \/ \E q \in Peer : JoinScan(p, q)
      BY <1>3, <2>2
         DEF Session, Register, JoinFlag, JoinEntry, JoinSnapshot, Leave,
             LeaveAll, Unregister, LeaveFlag, LeaveRoom, LeaveScan,
             LeaveCheck, LeaveRemove, SetAccount, Unbind, UnbindRemove,
             SetName, Relabel, RelabelDone
    <3>2. QED
      BY <1>0, <1>3, <2>2, <3>1
         DEF JoinAdd, JoinReturn, JoinScan, Goto, Informed
  <2>3. QED
    BY <2>1, <2>2
<1>4. QED
  BY <1>1, <1>2, <1>3 DEF Informed

LEMMA AwarenessStep ==
  ASSUME TypeOK, Control, Sharing, Listing, Awareness,
         NEW p \in Peer, Session(p)
  PROVE  Awareness'
<1> SUFFICES ASSUME NEW r \in RoomId, NEW x \in Peer, NEW y \in Peer, x # y,
                    r \in roomIds'[x], Present(x, r)',
                    r \in roomIds'[y], y \in Members(r)'
             PROVE  Informed(x, y, r)'
  BY DEF Awareness
<1>0. /\ registered \subseteq Peer
      /\ roomIds \in [Peer -> SUBSET RoomId]
      /\ pc \in [Peer -> PC]
      /\ rooms \in [RoomId -> Instance \cup {None}]
      /\ listed \in [Instance -> SUBSET Peer]
      /\ arc \in [Peer -> Instance \cup {None}]
      /\ room \in [Peer -> RoomId \cup {None}]
      /\ roster \in [Peer -> SUBSET Peer]
      /\ todo \in [Peer -> SUBSET Peer]
      /\ \A z \in Peer : pc[z] \in JoinPC => room[z] \in roomIds[z]
      /\ \A z \in Peer : pc[z] = "idle" => z \in registered
      /\ pc[x] = "joinAdd" => room[x] \in roomIds[x]
      /\ None \notin Instance
  BY NoneAssumption DEF TypeOK, Control, ControlOf, JoinPC
<1>1. CASE y \notin Members(r)
  <2>1. JoinAdd(p) /\ room[p] = r /\ y = p
    BY <1>1, MembersStep
  <2>2. QED
    BY <1>0, <2>1 DEF JoinAdd, Informed, Others, Goto
<1>2. CASE y \in Members(r) /\ ~Present(x, r)
  <2>1. JoinSnapshot(p) /\ x = p /\ room[p] = r /\ arc[p] = rooms[r]
    BY <1>2, PresentStep
  <2>2. y \in listed[arc[p]]
    BY <1>0, <1>2, <2>1 DEF Members
  <2>3. roster'[p] = listed[arc[p]] /\ room' = room
    BY <1>0, <2>1 DEF JoinSnapshot
  <2>4. pc'[p] \in {"joinAdd", "joinScan"}
    BY <1>0, <2>1 DEF JoinSnapshot, Goto
  <2>5. QED
    BY <2>1, <2>2, <2>3, <2>4 DEF Informed
<1>3. CASE y \in Members(r) /\ Present(x, r)
  \* Only JoinFlag sets a flag, and a listed peer between calls has it set.
  <2>1. \A z \in Peer : r \in roomIds'[z] /\ r \notin roomIds[z]
                          => JoinFlag(p, r) /\ z = p
    <3> SUFFICES ASSUME NEW z \in Peer, r \in roomIds'[z], r \notin roomIds[z]
                 PROVE  JoinFlag(p, r) /\ z = p
      OBVIOUS
    <3>1. z = p
      BY LocalStep DEF SameLocals
    <3>2. ~Unregister(p)
      BY <1>0, <3>1 DEF Unregister
    <3>3. \A s \in RoomId : ~LeaveFlag(p, s)
      BY <1>0, <3>1 DEF LeaveFlag, WasMember
    <3>4. PICK s \in RoomId : JoinFlag(p, s)
      BY <3>2, <3>3, FlagFrame
    <3>5. roomIds' = [roomIds EXCEPT ![p] = @ \cup {s}]
      BY <3>4 DEF JoinFlag
    <3>6. QED
      BY <1>0, <3>1, <3>4, <3>5
  <2>2. \A z \in Members(r) : r \in roomIds'[z] => r \in roomIds[z]
    <3> SUFFICES ASSUME NEW z \in Members(r), r \in roomIds'[z],
                        r \notin roomIds[z]
                 PROVE  FALSE
      OBVIOUS
    <3>1. z \in Peer
      BY <1>0 DEF Members
    <3>2. pc[z] = "idle" /\ Reason(z, r)
      BY <2>1, <3>1 DEF JoinFlag, Listing
    <3>3. QED
      BY <1>0, <3>1, <3>2 DEF Reason
  <2>3. r \in roomIds[x] /\ r \in roomIds[y]
    <3>1. CASE x \in Members(r)
      BY <1>3, <2>2, <3>1
    <3>2. CASE pc[x] = "joinAdd" /\ room[x] = r
      BY <1>0, <1>3, <2>2, <3>2
    <3>3. QED
      BY <1>3, <3>1, <3>2 DEF Present
  <2>4. Informed(x, y, r)
    BY <1>3, <2>3 DEF Awareness
  <2>5. QED
    BY <2>3, <2>4, InformedStep
<1>4. QED
  BY <1>1, <1>2, <1>3

\* An entry of `rooms` keeps a session that will take it out.
LEMMA LeakStep ==
  ASSUME TypeOK, Control, Listing, NoLeakedRoom, NEW p \in Peer, Session(p)
  PROVE  NoLeakedRoom'
<1> SUFFICES ASSUME NEW r \in RoomId, rooms'[r] # None
             PROVE  \E x \in Peer : Responsible(x, r)'
  BY DEF NoLeakedRoom
<1>0. /\ registered \subseteq Peer
      /\ roomIds \in [Peer -> SUBSET RoomId]
      /\ pc \in [Peer -> PC]
      /\ room \in [Peer -> RoomId \cup {None}]
      /\ queue \in [Peer -> SUBSET RoomId]
      /\ rooms \in [RoomId -> Instance \cup {None}]
      /\ listed \in [Instance -> SUBSET Peer]
      /\ ControlOf(p)
  BY DEF TypeOK, Control
<1>1. CASE rooms[r] = None
  <2>1. JoinEntry(p)
    BY <1>0, <1>1, DirectoryFrame
       DEF JoinSnapshot, JoinAdd, LeaveRoom, LeaveRemove, Relabel
  <2>2. room[p] = r /\ roomIds' = roomIds
    BY <1>0, <1>1, <2>1 DEF JoinEntry
  <2>3. r \in roomIds'[p]
    BY <1>0, <2>1, <2>2 DEF JoinEntry, ControlOf, JoinPC
  <2>4. QED
    BY <2>3 DEF Responsible
<1>2. CASE rooms[r] # None
  <2>1. PICK x \in Peer : Responsible(x, r)
    BY <1>2 DEF NoLeakedRoom
  <2>2. CASE x # p
    BY <2>1, <2>2, LocalStep DEF SameLocals, Responsible
  <2>3. CASE x = p
    <3>a. Responsible(p, r)
      BY <2>1, <2>3
    <3>b. CASE LeaveCheck(p) /\ room[p] = r /\ Members(r) # {}
      <4>1. PICK y \in Peer : Reason(y, r)
        BY <1>0, <3>b DEF Members, Listing
      <4>2. CASE y # p
        BY <4>1, <4>2, LocalStep DEF SameLocals, Reason, Responsible
      <4>3. CASE y = p
        BY <3>b, <4>1, <4>3
           DEF LeaveCheck, dirVars, Reason, Responsible
      <4>4. QED
        BY <4>2, <4>3
    <3>c. CASE ~(LeaveCheck(p) /\ room[p] = r /\ Members(r) # {})
      <4>a. Responsible(p, r)'
        <5> USE DEF Responsible, ControlOf, JoinPC, LeavePC, Goto, Others,
           dirVars, localVars
        <5>1. CASE Register(p)
          BY <5>1, <1>0, <1>2, <3>a DEF Register
        <5>2. ASSUME NEW s \in RoomId, JoinFlag(p, s) PROVE Responsible(p, r)'
          BY <5>2, <1>0, <1>2, <3>a DEF JoinFlag
        <5>3. CASE JoinEntry(p)
          BY <5>3, <1>0, <1>2, <3>a DEF JoinEntry, EmptyRoom
        <5>4. CASE JoinSnapshot(p)
          BY <5>4, <1>0, <1>2, <3>a DEF JoinSnapshot, EmptyRoom
        <5>5. CASE JoinAdd(p)
          BY <5>5, <1>0, <1>2, <3>a DEF JoinAdd, EmptyRoom
        <5>6. ASSUME NEW q \in Peer, JoinScan(p, q) PROVE Responsible(p, r)'
          BY <5>6, <1>0, <1>2, <3>a DEF JoinScan, Flagged
        <5>7. CASE JoinReturn(p)
          BY <5>7, <1>0, <1>2, <3>a DEF JoinReturn
        <5>8. ASSUME NEW s \in RoomId, Leave(p, s) PROVE Responsible(p, r)'
          BY <5>8, <1>0, <1>2, <3>a DEF Leave
        <5>9. CASE LeaveAll(p)
          BY <5>9, <1>0, <1>2, <3>a DEF LeaveAll
        <5>10. CASE Unregister(p)
          BY <5>10, <1>0, <1>2, <3>a DEF Unregister
        <5>11. ASSUME NEW s \in RoomId, LeaveFlag(p, s) PROVE Responsible(p,
           r)'
          BY <5>11, <1>0, <1>2, <3>a DEF LeaveFlag, WasMember, AfterRoom
        <5>12. CASE LeaveRoom(p)
          BY <5>12, <1>0, <1>2, <3>a DEF LeaveRoom, AfterRoom
        <5>13. ASSUME NEW q \in Peer, LeaveScan(p, q) PROVE Responsible(p, r)'
          BY <5>13, <1>0, <1>2, <3>a DEF LeaveScan, Flagged
        <5>14. CASE LeaveCheck(p)
          BY <5>14, <1>0, <1>2, <3>a, <3>c DEF LeaveCheck, AfterRoom, Members
        <5>15. CASE LeaveRemove(p)
          BY <5>15, <1>0, <1>2, <3>a DEF LeaveRemove, AfterRoom, EmptyRoom
        <5>16. ASSUME NEW a \in Account \cup {None}, SetAccount(p,
           a) PROVE Responsible(p, r)'
          BY <5>16, <1>0, <1>2, <3>a DEF SetAccount, AfterReserve
        <5>17. CASE Unbind(p)
          BY <5>17, <1>0, <1>2, <3>a DEF Unbind, AfterUnbind
        <5>18. CASE UnbindRemove(p)
          BY <5>18, <1>0, <1>2, <3>a DEF UnbindRemove, AfterUnbind
        <5>19. CASE SetName(p)
          BY <5>19, <1>0, <1>2, <3>a DEF SetName
        <5>20. ASSUME NEW s \in RoomId, Relabel(p, s) PROVE Responsible(p, r)'
          BY <5>20, <1>0, <1>2, <3>a DEF Relabel, Remaining
        <5>21. CASE RelabelDone(p)
          BY <5>21, <1>0, <1>2, <3>a DEF RelabelDone
        <5>22. QED
          BY <5>1, <5>2, <5>3, <5>4, <5>5, <5>6, <5>7, <5>8, <5>9, <5>10,
             <5>11, <5>12, <5>13, <5>14, <5>15, <5>16, <5>17, <5>18, <5>19,
                <5>20, <5>21 DEF Session
      <4>b. QED
        BY <4>a
    <3>d. QED
      BY <3>b, <3>c
  <2>4. QED
    BY <2>2, <2>3
<1>3. QED
  BY <1>1, <1>2

LEMMA SlotStep ==
  ASSUME TypeOK, Control, SlotInv, NEW p \in Peer, Session(p)
  PROVE  SlotInv'
<1> SUFFICES ASSUME NEW a \in Account, accounts'[a] # None,
                    NEW x \in accounts'[a]
             PROVE  a \in Slots(x)'
  BY DEF SlotInv
<1>0. /\ registered \subseteq Peer
      /\ account \in [Peer -> Account \cup {None}]
      /\ accounts \in [Account -> {None} \cup SUBSET Peer]
      /\ pc \in [Peer -> PC]
      /\ acct \in [Peer -> AcctLocal]
      /\ acct[p] \in [old : Account \cup {None}, new : Account \cup {None}]
      /\ None \notin Account
      /\ ControlOf(p)
  BY NoneAssumption DEF TypeOK, Control, AcctLocal
<1>1. x \in Peer
  BY TypeStep DEF TypeOK
<1>2. CASE accounts[a] = None \/ x \notin accounts[a]
  <2>1. SetAccount(p, a) /\ x = p
    <3>1. PICK b \in Account \cup {None} : SetAccount(p, b)
      BY <1>0, <1>2
         DEF Session, dirVars, Register, JoinFlag, JoinEntry, JoinSnapshot,
             JoinAdd, JoinScan, JoinReturn, Leave, LeaveAll, Unregister,
             LeaveFlag, LeaveRoom, LeaveScan, LeaveCheck, LeaveRemove,
             Unbind, UnbindRemove, SetName, Relabel, RelabelDone
    <3> DEFINE ids == IF accounts[b] = None THEN {} ELSE accounts[b]
    <3>2. b # None /\ accounts' = [accounts EXCEPT ![b] = ids \cup {p}]
      BY <1>2, <3>1 DEF SetAccount, AfterReserve
    <3>3. b = a
      BY <1>0, <1>2, <3>2
    <3>4. accounts'[a] = ids \cup {p}
      BY <1>0, <3>2, <3>3
    <3>5. x \notin ids
      BY <1>2, <3>3
    <3>6. QED
      BY <3>1, <3>3, <3>4, <3>5
  <2>2. QED
    BY <1>0, <2>1 DEF SetAccount, AfterReserve, Goto, Slots, ControlOf
<1>3. CASE accounts[a] # None /\ x \in accounts[a] /\ x # p
  BY <1>1, <1>3, LocalStep DEF SlotInv, SameLocals, Slots
<1>4. CASE accounts[a] # None /\ x \in accounts[a] /\ x = p
  <2>a. a \in Slots(p) /\ accounts[a] # None /\ p \in accounts'[a]
    BY <1>4 DEF SlotInv
  <2>b. a \in Slots(p)'
    <3> USE DEF Slots, ControlOf, JoinPC, Goto, dirVars, localVars
    <3>1. CASE Register(p)
      BY <3>1, <1>0, <2>a DEF Register
    <3>2. ASSUME NEW s \in RoomId, JoinFlag(p, s) PROVE a \in Slots(p)'
      BY <3>2, <1>0, <2>a DEF JoinFlag
    <3>3. CASE JoinEntry(p)
      BY <3>3, <1>0, <2>a DEF JoinEntry, EmptyRoom
    <3>4. CASE JoinSnapshot(p)
      BY <3>4, <1>0, <2>a DEF JoinSnapshot, EmptyRoom
    <3>5. CASE JoinAdd(p)
      BY <3>5, <1>0, <2>a DEF JoinAdd, EmptyRoom
    <3>6. ASSUME NEW q \in Peer, JoinScan(p, q) PROVE a \in Slots(p)'
      BY <3>6, <1>0, <2>a DEF JoinScan, Flagged
    <3>7. CASE JoinReturn(p)
      BY <3>7, <1>0, <2>a DEF JoinReturn
    <3>8. ASSUME NEW s \in RoomId, Leave(p, s) PROVE a \in Slots(p)'
      BY <3>8, <1>0, <2>a DEF Leave
    <3>9. CASE LeaveAll(p)
      BY <3>9, <1>0, <2>a DEF LeaveAll
    <3>10. CASE Unregister(p)
      BY <3>10, <1>0, <2>a DEF Unregister
    <3>11. ASSUME NEW s \in RoomId, LeaveFlag(p, s) PROVE a \in Slots(p)'
      BY <3>11, <1>0, <2>a DEF LeaveFlag, WasMember, AfterRoom
    <3>12. CASE LeaveRoom(p)
      BY <3>12, <1>0, <2>a DEF LeaveRoom, AfterRoom
    <3>13. ASSUME NEW q \in Peer, LeaveScan(p, q) PROVE a \in Slots(p)'
      BY <3>13, <1>0, <2>a DEF LeaveScan, Flagged
    <3>14. CASE LeaveCheck(p)
      BY <3>14, <1>0, <2>a DEF LeaveCheck, AfterRoom
    <3>15. CASE LeaveRemove(p)
      BY <3>15, <1>0, <2>a DEF LeaveRemove, AfterRoom, EmptyRoom
    <3>16. ASSUME NEW b \in Account \cup {None}, SetAccount(p,
       b) PROVE a \in Slots(p)'
      BY <3>16, <1>0, <2>a DEF SetAccount, AfterReserve
    <3>17. CASE Unbind(p)
      BY <3>17, <1>0, <2>a DEF Unbind, AfterUnbind
    <3>18. CASE UnbindRemove(p)
      BY <3>18, <1>0, <2>a DEF UnbindRemove, AfterUnbind
    <3>19. CASE SetName(p)
      BY <3>19, <1>0, <2>a DEF SetName
    <3>20. ASSUME NEW s \in RoomId, Relabel(p, s) PROVE a \in Slots(p)'
      BY <3>20, <1>0, <2>a DEF Relabel, Remaining
    <3>21. CASE RelabelDone(p)
      BY <3>21, <1>0, <2>a DEF RelabelDone
    <3>22. QED
      BY <3>1, <3>2, <3>3, <3>4, <3>5, <3>6, <3>7, <3>8, <3>9, <3>10, <3>11,
         <3>12, <3>13, <3>14, <3>15, <3>16, <3>17, <3>18, <3>19, <3>20,
            <3>21 DEF Session
  <2>c. QED
    BY <1>4, <2>b
<1>5. QED
  BY <1>2, <1>3, <1>4

\* The name a room lists a member with follows its account.
LEMMA LabelStep ==
  ASSUME TypeOK, Control, Sharing, Listing, LabelInv,
         NEW p \in Peer, Session(p)
  PROVE  LabelInv'
<1> SUFFICES ASSUME NEW r \in RoomId, NEW x \in Members(r)',
                    x \in registered'
             PROVE  \/ label'[rooms'[r]][x] = account'[x]
                    \/ pc'[x] = "relabel" /\ r \in queue'[x]
  BY DEF LabelInv
<1>0. /\ registered \subseteq Peer
      /\ account \in [Peer -> Account \cup {None}]
      /\ pc \in [Peer -> PC]
      /\ queue \in [Peer -> SUBSET RoomId]
      /\ rooms \in [RoomId -> Instance \cup {None}]
      /\ listed \in [Instance -> SUBSET Peer]
      /\ label \in [Instance -> [Peer -> Account \cup {None}]]
      /\ pc[p] \in {"joinSnapshot", "joinAdd"} => arc[p] \in Instance
      /\ pc[p] \in {"joinEntry", "leaveRoom", "leaveRemove"}
            => room[p] \in RoomId
      /\ None \notin Instance
  BY NoneAssumption DEF TypeOK, Control, ControlOf, JoinPC, LeavePC
<1>1. x \in Peer
  BY TypeStep DEF TypeOK, Members
<1>2. CASE x \notin Members(r)
  <2>1. JoinAdd(p) /\ arc[p] = rooms[r] /\ x = p
    BY <1>2, MembersStep
  <2>2. /\ label' = [label EXCEPT ![arc[p]][p] = account[p]]
        /\ rooms' = rooms /\ account' = account
    BY <2>1 DEF JoinAdd, Mapped
  <2>3. arc[p] \in Instance
    BY <1>0, <2>1 DEF JoinAdd
  <2>4. QED
    BY <1>0, <2>1, <2>2, <2>3
<1>3. CASE x \in Members(r)
  <2>a. /\ rooms[r] \in Instance /\ rooms'[r] # None
        /\ x \in listed[rooms[r]] /\ x \in listed'[rooms'[r]]
        /\ Reason(x, r)
    BY <1>0, <1>3 DEF Members, Listing
  <2>1. /\ rooms'[r] = rooms[r]
        /\ \/ label'[rooms[r]][x] = label[rooms[r]][x]
           \/ x = p /\ label'[rooms[r]][x] = account'[x]
    <3>1. CASE UNCHANGED <<rooms, label>>
      BY <3>1
    <3>2. CASE JoinEntry(p)
      BY <1>0, <2>a, <3>2 DEF JoinEntry, EmptyRoom, Mapped
    <3>3. CASE JoinSnapshot(p)
      BY <1>0, <2>a, <3>3 DEF JoinSnapshot, EmptyRoom
    <3>4. CASE JoinAdd(p)
      BY <1>0, <2>a, <3>4 DEF JoinAdd, EmptyRoom
    <3>5. CASE LeaveRoom(p)
      BY <1>0, <2>a, <3>5 DEF LeaveRoom
    <3>6. CASE LeaveRemove(p)
      BY <1>0, <2>a, <3>6 DEF LeaveRemove, EmptyRoom
    <3>7. ASSUME NEW s \in RoomId, Relabel(p, s)
          PROVE  /\ rooms'[r] = rooms[r]
                 /\ \/ label'[rooms[r]][x] = label[rooms[r]][x]
                    \/ x = p /\ label'[rooms[r]][x] = account'[x]
      BY <1>0, <2>a, <3>7 DEF Relabel, Remaining
    <3>8. QED
      BY <3>1, <3>2, <3>3, <3>4, <3>5, <3>6, <3>7, DirectoryFrame
  <2>2. CASE x # p
    BY <1>1, <1>3, <2>1, <2>2, LocalStep DEF SameLocals, LabelInv
  <2>3. CASE x = p
    <3>1. p \in registered
      <4>1. CASE Register(p)
        BY <1>0, <2>3, <2>a, <4>1 DEF Register, Reason, Control, ControlOf
      <4>2. CASE ~Register(p)
        BY <1>0, <2>3, <4>2
           DEF Session, dirVars, JoinFlag, JoinEntry, JoinSnapshot, JoinAdd,
               JoinScan, JoinReturn, Leave, LeaveAll, Unregister, LeaveFlag,
               LeaveRoom, LeaveScan, LeaveCheck, LeaveRemove, SetAccount,
               Unbind, UnbindRemove, SetName, Relabel, RelabelDone
      <4>3. QED
        BY <4>1, <4>2
    <3>2. CASE label[rooms[r]][p] = account[p]
      <4>1. CASE account'[p] = account[p]
        BY <2>1, <2>3, <3>2, <4>1
      <4>2. CASE SetName(p)
        BY <1>0, <2>3, <2>a, <3>1, <4>2 DEF SetName, Reason, Goto
      <4>3. QED
        BY <2>3, <4>1, <4>2
           DEF Session, dirVars, Register, JoinFlag, JoinEntry, JoinSnapshot,
               JoinAdd, JoinScan, JoinReturn, Leave, LeaveAll, Unregister,
               LeaveFlag, LeaveRoom, LeaveScan, LeaveCheck, LeaveRemove,
               SetAccount, Unbind, UnbindRemove, Relabel, RelabelDone
    <3>3. CASE pc[p] = "relabel" /\ r \in queue[p]
      <4>1. PICK s \in RoomId : Relabel(p, s)
        BY <3>3
           DEF Session, Register, JoinFlag, JoinEntry, JoinSnapshot, JoinAdd,
               JoinScan, JoinReturn, Leave, LeaveAll, Unregister, LeaveFlag,
               LeaveRoom, LeaveScan, LeaveCheck, LeaveRemove, SetAccount,
               Unbind, UnbindRemove, SetName, RelabelDone
      <4>2. CASE s = r
        BY <1>0, <2>3, <2>a, <4>1, <4>2 DEF Relabel, Remaining
      <4>3. CASE s # r
        BY <1>0, <2>3, <3>3, <4>1, <4>3 DEF Relabel, Remaining
      <4>4. QED
        BY <4>2, <4>3
    <3>4. QED
      BY <1>3, <2>3, <3>1, <3>2, <3>3 DEF LabelInv
  <2>4. QED
    BY <2>2, <2>3
<1>4. QED
  BY <1>2, <1>3

LEMMA StepIInv == IInv /\ [Next]_vars => IInv'
<1> SUFFICES ASSUME IInv, [Next]_vars PROVE IInv'
  OBVIOUS
<1>1. CASE UNCHANGED vars
  BY <1>1 DEF IInv, vars, TypeOK, Control, ControlOf, Sharing, Listing,
       Reason, Entering, Awareness, Present, Informed, NoLeakedRoom,
       Responsible, SlotInv, Slots, LabelInv, Members
<1>2. ASSUME NEW p \in Peer, Session(p) PROVE IInv'
  <2>1. TypeOK /\ Control /\ Sharing /\ Listing /\ Awareness
    BY DEF IInv
  <2>2. NoLeakedRoom /\ SlotInv /\ LabelInv
    BY DEF IInv
  <2>3. TypeOK' /\ Control' /\ Sharing' /\ Listing'
    BY <1>2, <2>1, TypeStep, ControlStep, SharingStep, ListingStep
  <2>4. Awareness' /\ NoLeakedRoom' /\ SlotInv' /\ LabelInv'
    BY <1>2, <2>1, <2>2, AwarenessStep, LeakStep, SlotStep, LabelStep
  <2>5. QED
    BY <2>3, <2>4 DEF IInv
<1>3. QED
  BY <1>1, <1>2 DEF Next, AllGone

THEOREM Invariance == Spec => []IInv
BY InitIInv, StepIInv, PTL DEF Spec
-----------------------------------------------------------------------------
\* Every variable keeps its type (rooms.rs: the fields and locals of each
\* call hold what their declarations say).
THEOREM TypeCorrect == Spec => []TypeOK
BY Invariance, PTL DEF IInv

\* Two members of one live room, neither in the middle of a join, have been
\* told of each other, however many sessions race (join_room).
THEOREM MembersAreAware == Spec => []MutualAwareness
<1>1. IInv => MutualAwareness
  <2> SUFFICES ASSUME IInv, NEW r \in RoomId,
                      NEW x \in Members(r), NEW y \in Members(r), x # y,
                      r \in roomIds[x], ~Joining(x, r),
                      r \in roomIds[y], ~Joining(y, r)
               PROVE  y \in view[x][r]
    BY DEF MutualAwareness
  <2>1. x \in Peer /\ y \in Peer
    BY DEF IInv, TypeOK, Members
  <2>2. Informed(x, y, r)
    BY <2>1 DEF IInv, Awareness, Present
  <2>3. QED
    BY <2>2 DEF Informed, Joining
<1>2. QED
  BY <1>1, Invariance, PTL

\* No entry of `rooms` outlives the last peer that would remove it
\* (leave_room, unregister_peer).
THEOREM NoRoomLeaks == Spec => []NoLeakedRoom
BY Invariance, PTL DEF IInv

\* No slot of an account's cap is lost to a connection that is gone
\* (try_set_account_name, unbind_account, unregister_peer).
THEOREM NoSlotLeaks == Spec => []NoSlotLeak
<1>1. IInv => NoSlotLeak
  <2> SUFFICES ASSUME IInv, NEW a \in Account, accounts[a] # None,
                      NEW x \in accounts[a]
               PROVE  \/ account[x] = a
                      \/ /\ acct[x].new = a
                         /\ pc[x] \in {"unbind", "unbindRemove", "setName"}
                      \/ /\ acct[x].old = a
                         /\ \/ pc[x] = "unbind"
                            \/ x \notin registered /\ pc[x] # "gone"
    BY DEF NoSlotLeak
  <2>1. a \in Slots(x)
    BY DEF IInv, SlotInv
  <2>2. QED
    BY <2>1 DEF Slots
<1>2. QED
  BY <1>1, Invariance, PTL

\* Rosters name the account a connection is bound to (add_peer,
\* try_set_account_name).
THEOREM RostersNameTheBoundAccount == Spec => []ListedNameIsBound
<1>1. IInv => ListedNameIsBound
  <2> SUFFICES ASSUME IInv, NEW r \in RoomId, NEW x \in Members(r),
                      pc[x] = "idle"
               PROVE  label[rooms[r]][x] = account[x]
    BY DEF ListedNameIsBound
  <2>1. x \in Peer
    BY DEF IInv, TypeOK, Members
  <2>2. x \in registered
    BY <2>1 DEF IInv, Control, ControlOf
  <2>3. QED
    BY <2>2 DEF IInv, LabelInv
<1>2. QED
  BY <1>1, Invariance, PTL
=============================================================================
