---------------------------- MODULE SioHubProofs ----------------------------
(***************************************************************************)
(* Proofs about SioHub, for any number of sockets, rooms and goroutines.   *)
(***************************************************************************)
EXTENDS SioHub, TLAPS

\* The initial state is well typed.
LEMMA InitTyped == Init => TypeOK /\ CallTyped
<1> SUFFICES ASSUME Init PROVE TypeOK /\ CallTyped
  OBVIOUS
<1>1. \A s \in Sockets : me[s] = s
  BY DEF Init, Threads
<1>2. \A t \in Threads : pc[t] \in {"new", "idle"}
  BY DEF Init, Threads
<1>3. hpc = "select" /\ htodo = {} /\ hx = {}
  BY DEF Init
<1>4. CallTyped
  BY <1>1, <1>2, <1>3 DEF CallTyped
<1>5. publishing \in Nat
  BY HubAssumption DEF Init
<1>6. fatal \in BOOLEAN
  BY DEF Init
<1>7. TypeOK
  BY <1>5, <1>6 DEF Init, TypeOK, Threads, Rooms
<1> QED
  BY <1>4, <1>7

\* Every step keeps the types.
LEMMA TypeStep == TypeOK /\ CallTyped /\ [Next]_vars => TypeOK'
<1> SUFFICES ASSUME TypeOK, CallTyped, [Next]_vars PROVE TypeOK'
  OBVIOUS
<1> USE HubAssumption DEF TypeOK, CallTyped, Receivers, Threads, Rooms, OwnRoom, threadVars, stopVars, sockVars,
   hubCtl, hubData, backVars, LeaveEnds, Goto, Call, Return, CallFrom, Advance, Finish,
   HubTake, HubTakeMessage, HubIdle, HubApplied, PingStep
<1>1. ASSUME NEW s \in Sockets, Connect(s) PROVE TypeOK'
  BY <1>1 DEF Connect
<1>2. ASSUME NEW s \in Sockets, StartLoop(s) PROVE TypeOK'
  BY <1>2 DEF StartLoop
<1>3. ASSUME NEW s \in Sockets, LoopEnds(s) PROVE TypeOK'
  BY <1>3 DEF LoopEnds
<1>4. ASSUME NEW s \in Sockets, HubRecvAdd(s) PROVE TypeOK'
  BY <1>4 DEF HubRecvAdd
<1>5. ASSUME NEW s \in Sockets, PingTick(s) PROVE TypeOK'
  BY <1>5 DEF PingTick
<1>6. ASSUME NEW s \in Sockets, PingWritten(s) PROVE TypeOK'
  BY <1>6 DEF PingWritten
<1>7. ASSUME NEW t \in Handlers, CallJoin(t) PROVE TypeOK'
  BY <1>7 DEF CallJoin
<1>8. ASSUME NEW t \in Handlers, CallLeave(t) PROVE TypeOK'
  BY <1>8 DEF CallLeave
<1>9. ASSUME NEW t \in Handlers, CallLeaveAll(t) PROVE TypeOK'
  BY <1>9 DEF CallLeaveAll
<1>10. ASSUME NEW t \in Handlers, CallClose(t) PROVE TypeOK'
  BY <1>10 DEF CallClose
<1>11. ASSUME NEW t \in Handlers, CallEmit(t) PROVE TypeOK'
  BY <1>11 DEF CallEmit
<1>12. ASSUME NEW t \in Handlers, CallServer(t) PROVE TypeOK'
  BY <1>12 DEF CallServer
<1>13. ASSUME NEW t \in Stoppers, CallShutdown(t) PROVE TypeOK'
  BY <1>13 DEF CallShutdown
<1>14. ASSUME NEW t \in Stoppers, HubRecvShutdown(t) PROVE TypeOK'
  BY <1>14 DEF HubRecvShutdown
<1>15. ASSUME NEW t \in Stoppers, ShutdownClose(t) PROVE TypeOK'
  BY <1>15 DEF ShutdownClose
<1>16. ASSUME NEW t \in Stoppers, ShutdownBackend(t) PROVE TypeOK'
  BY <1>16 DEF ShutdownBackend
<1>17. ASSUME NEW t \in Threads, JoinLock(t) PROVE TypeOK'
  BY <1>17 DEF JoinLock
<1>18. ASSUME NEW t \in Threads, LeaveLock(t) PROVE TypeOK'
  BY <1>18 DEF LeaveLock
<1>19. ASSUME NEW t \in Threads, CloseFlag(t) PROVE TypeOK'
  <2>1. CASE me[t] \in closed
    BY SMTT(40), <1>19, <2>1 DEF CloseFlag
  <2>2. CASE me[t] \notin closed
    BY SMTT(40), <1>19, <2>2 DEF CloseFlag
  <2> QED
    BY <2>1, <2>2
<1>20. ASSUME NEW t \in Threads, CloseSnapshot(t) PROVE TypeOK'
  BY <1>20 DEF CloseSnapshot
<1>21. ASSUME NEW t \in Threads, EmitLock(t) PROVE TypeOK'
  BY <1>21 DEF EmitLock
<1>22. ASSUME NEW t \in Threads, HubRecvDel(t) PROVE TypeOK'
  BY <1>22 DEF HubRecvDel
<1>23. ASSUME NEW t \in Threads, HubRecvJoin(t) PROVE TypeOK'
  BY <1>23 DEF HubRecvJoin
<1>24. ASSUME NEW t \in Threads, HubRecvLeave(t) PROVE TypeOK'
  BY <1>24 DEF HubRecvLeave
<1>25. ASSUME NEW t \in Threads, HubRecvCast(t) PROVE TypeOK'
  BY <1>25 DEF HubRecvCast
<1>26. ASSUME NEW t \in Threads, JoinReturn(t) PROVE TypeOK'
  BY <1>26 DEF JoinReturn
<1>27. ASSUME NEW t \in Threads, LeaveReturn(t) PROVE TypeOK'
  BY <1>27 DEF LeaveReturn
<1>28. ASSUME NEW t \in Threads, LeaveAllGoesOn(t) PROVE TypeOK'
  BY <1>28 DEF LeaveAllGoesOn
<1>29. ASSUME NEW t \in Threads, CloseGoesOn(t) PROVE TypeOK'
  BY <1>29 DEF CloseGoesOn
<1>30. ASSUME NEW t \in Threads, RangeNext(t) PROVE TypeOK'
  BY <1>30 DEF RangeNext
<1>31. ASSUME NEW t \in Threads, RangeEnd(t) PROVE TypeOK'
  BY <1>31 DEF RangeEnd
<1>32. ASSUME NEW t \in Threads, CloseWs(t) PROVE TypeOK'
  BY <1>32 DEF CloseWs
<1>33. ASSUME NEW t \in Threads, CloseWsFails(t) PROVE TypeOK'
  BY <1>33 DEF CloseWsFails
<1>34. ASSUME NEW t \in Threads, CloseLeaves(t) PROVE TypeOK'
  BY <1>34 DEF CloseLeaves
<1>35. ASSUME NEW t \in Threads, CloseDisconnected(t) PROVE TypeOK'
  BY <1>35 DEF CloseDisconnected
<1>36. ASSUME NEW t \in Threads, CloseDisconnectFails(t) PROVE TypeOK'
  BY <1>36 DEF CloseDisconnectFails
<1>37. ASSUME NEW t \in Threads, CloseStopTicker(t) PROVE TypeOK'
  BY <1>37 DEF CloseStopTicker
<1>38. ASSUME NEW t \in Threads, CloseStopPing(t) PROVE TypeOK'
  BY <1>38 DEF CloseStopPing
<1>39. ASSUME NEW t \in Threads, EmitWritten(t) PROVE TypeOK'
  BY <1>39 DEF EmitWritten
<1>40. ASSUME NEW t \in Threads, ListRead(t) PROVE TypeOK'
  <2>1. CASE Finish(t, "socketlist", "recv")
    BY <2>1
  <2>2. CASE Finish(t, "roomlist", "recv")
    BY <2>2
  <2> QED
    BY <1>40, <2>1, <2>2 DEF ListRead
<1>41. ASSUME HubAdd PROVE TypeOK'
  BY <1>41 DEF HubAdd
<1>42. ASSUME HubDel PROVE TypeOK'
  BY <1>42 DEF HubDel
<1>43. ASSUME HubJoin PROVE TypeOK'
  BY <1>43 DEF HubJoin
<1>44. ASSUME HubLeave PROVE TypeOK'
  BY <1>44 DEF HubLeave
<1>45. ASSUME HubEmit PROVE TypeOK'
  BY <1>45 DEF HubEmit
<1>46. ASSUME HubWritten PROVE TypeOK'
  BY <1>46 DEF HubWritten
<1>47. ASSUME HubDispatched PROVE TypeOK'
  BY <1>47 DEF HubDispatched
<1>48. ASSUME NEW t \in Stoppers, HubSendList(t) PROVE TypeOK'
  BY <1>48 DEF HubSendList
<1>49. ASSUME HubRecvBackend PROVE TypeOK'
  BY <1>49 DEF HubRecvBackend
<1>50. ASSUME SetMultihomeBackend PROVE TypeOK'
  BY <1>50 DEF SetMultihomeBackend
<1>51. ASSUME Published PROVE TypeOK'
  BY <1>51 DEF Published
<1>52. ASSUME RaceAbort PROVE TypeOK'
  BY <1>52 DEF RaceAbort
<1>53. ASSUME UNCHANGED vars PROVE TypeOK'
  BY <1>53 DEF vars
<1> QED
  BY <1>1, <1>2, <1>3, <1>4, <1>5, <1>6, <1>7, <1>8, <1>9, <1>10, <1>11, <1>12, <1>13,
     <1>14, <1>15, <1>16, <1>17, <1>18, <1>19, <1>20, <1>21, <1>22, <1>23, <1>24, <1>25,
     <1>26, <1>27, <1>28, <1>29, <1>30, <1>31, <1>32, <1>33, <1>34, <1>35, <1>36, <1>37,
     <1>38, <1>39, <1>40, <1>41, <1>42, <1>43, <1>44, <1>45, <1>46, <1>47, <1>48, <1>49,
     <1>50, <1>51, <1>52, <1>53 DEF Next, Step, Aborted, LoopStep, HandlerCall, Acquire,
     HubRecv, Proceed, HubStep

\* Every step keeps calls and hub requests about a socket and a room.
LEMMA CallStep == TypeOK /\ CallTyped /\ [Next]_vars => CallTyped'
<1> SUFFICES ASSUME TypeOK, CallTyped, [Next]_vars PROVE CallTyped'
  OBVIOUS
<1> USE HubAssumption DEF TypeOK, CallTyped, Receivers, Threads, Rooms, OwnRoom, threadVars, stopVars, sockVars,
   hubCtl, hubData, backVars, LeaveEnds, Goto, Call, Return, CallFrom, Advance, Finish,
   HubTake, HubTakeMessage, HubIdle, HubApplied, PingStep
<1>1. ASSUME NEW s \in Sockets, Connect(s) PROVE CallTyped'
  BY <1>1 DEF Connect
<1>2. ASSUME NEW s \in Sockets, StartLoop(s) PROVE CallTyped'
  BY <1>2 DEF StartLoop
<1>3. ASSUME NEW s \in Sockets, LoopEnds(s) PROVE CallTyped'
  BY <1>3 DEF LoopEnds
<1>4. ASSUME NEW s \in Sockets, HubRecvAdd(s) PROVE CallTyped'
  BY <1>4 DEF HubRecvAdd
<1>5. ASSUME NEW s \in Sockets, PingTick(s) PROVE CallTyped'
  BY <1>5 DEF PingTick
<1>6. ASSUME NEW s \in Sockets, PingWritten(s) PROVE CallTyped'
  BY <1>6 DEF PingWritten
<1>7. ASSUME NEW t \in Handlers, CallJoin(t) PROVE CallTyped'
  BY <1>7 DEF CallJoin
<1>8. ASSUME NEW t \in Handlers, CallLeave(t) PROVE CallTyped'
  BY <1>8 DEF CallLeave
<1>9. ASSUME NEW t \in Handlers, CallLeaveAll(t) PROVE CallTyped'
  BY <1>9 DEF CallLeaveAll
<1>10. ASSUME NEW t \in Handlers, CallClose(t) PROVE CallTyped'
  BY <1>10 DEF CallClose
<1>11. ASSUME NEW t \in Handlers, CallEmit(t) PROVE CallTyped'
  BY <1>11 DEF CallEmit
<1>12. ASSUME NEW t \in Handlers, CallServer(t) PROVE CallTyped'
  BY <1>12 DEF CallServer
<1>13. ASSUME NEW t \in Stoppers, CallShutdown(t) PROVE CallTyped'
  BY <1>13 DEF CallShutdown
<1>14. ASSUME NEW t \in Stoppers, HubRecvShutdown(t) PROVE CallTyped'
  BY <1>14 DEF HubRecvShutdown
<1>15. ASSUME NEW t \in Stoppers, ShutdownClose(t) PROVE CallTyped'
  BY <1>15 DEF ShutdownClose
<1>16. ASSUME NEW t \in Stoppers, ShutdownBackend(t) PROVE CallTyped'
  BY <1>16 DEF ShutdownBackend
<1>17. ASSUME NEW t \in Threads, JoinLock(t) PROVE CallTyped'
  BY <1>17 DEF JoinLock
<1>18. ASSUME NEW t \in Threads, LeaveLock(t) PROVE CallTyped'
  BY <1>18 DEF LeaveLock
<1>19. ASSUME NEW t \in Threads, CloseFlag(t) PROVE CallTyped'
  <2>1. CASE me[t] \in closed
    BY SMTT(40), <1>19, <2>1 DEF CloseFlag
  <2>2. CASE me[t] \notin closed
    BY <1>19, <2>2 DEF CloseFlag
  <2> QED
    BY <2>1, <2>2
<1>20. ASSUME NEW t \in Threads, CloseSnapshot(t) PROVE CallTyped'
  BY <1>20 DEF CloseSnapshot
<1>21. ASSUME NEW t \in Threads, EmitLock(t) PROVE CallTyped'
  BY <1>21 DEF EmitLock
<1>22. ASSUME NEW t \in Threads, HubRecvDel(t) PROVE CallTyped'
  BY <1>22 DEF HubRecvDel
<1>23. ASSUME NEW t \in Threads, HubRecvJoin(t) PROVE CallTyped'
  BY <1>23 DEF HubRecvJoin
<1>24. ASSUME NEW t \in Threads, HubRecvLeave(t) PROVE CallTyped'
  BY <1>24 DEF HubRecvLeave
<1>25. ASSUME NEW t \in Threads, HubRecvCast(t) PROVE CallTyped'
  BY <1>25 DEF HubRecvCast
<1>26. ASSUME NEW t \in Threads, JoinReturn(t) PROVE CallTyped'
  BY <1>26 DEF JoinReturn
<1>27. ASSUME NEW t \in Threads, LeaveReturn(t) PROVE CallTyped'
  BY <1>27 DEF LeaveReturn
<1>28. ASSUME NEW t \in Threads, LeaveAllGoesOn(t) PROVE CallTyped'
  BY <1>28 DEF LeaveAllGoesOn
<1>29. ASSUME NEW t \in Threads, CloseGoesOn(t) PROVE CallTyped'
  BY <1>29 DEF CloseGoesOn
<1>30. ASSUME NEW t \in Threads, RangeNext(t) PROVE CallTyped'
  BY <1>30 DEF RangeNext
<1>31. ASSUME NEW t \in Threads, RangeEnd(t) PROVE CallTyped'
  BY <1>31 DEF RangeEnd
<1>32. ASSUME NEW t \in Threads, CloseWs(t) PROVE CallTyped'
  BY <1>32 DEF CloseWs
<1>33. ASSUME NEW t \in Threads, CloseWsFails(t) PROVE CallTyped'
  BY <1>33 DEF CloseWsFails
<1>34. ASSUME NEW t \in Threads, CloseLeaves(t) PROVE CallTyped'
  BY <1>34 DEF CloseLeaves
<1>35. ASSUME NEW t \in Threads, CloseDisconnected(t) PROVE CallTyped'
  BY <1>35 DEF CloseDisconnected
<1>36. ASSUME NEW t \in Threads, CloseDisconnectFails(t) PROVE CallTyped'
  BY <1>36 DEF CloseDisconnectFails
<1>37. ASSUME NEW t \in Threads, CloseStopTicker(t) PROVE CallTyped'
  BY <1>37 DEF CloseStopTicker
<1>38. ASSUME NEW t \in Threads, CloseStopPing(t) PROVE CallTyped'
  BY <1>38 DEF CloseStopPing
<1>39. ASSUME NEW t \in Threads, EmitWritten(t) PROVE CallTyped'
  BY <1>39 DEF EmitWritten
<1>40. ASSUME NEW t \in Threads, ListRead(t) PROVE CallTyped'
  BY <1>40 DEF ListRead
<1>41. ASSUME HubAdd PROVE CallTyped'
  BY <1>41 DEF HubAdd
<1>42. ASSUME HubDel PROVE CallTyped'
  BY <1>42 DEF HubDel
<1>43. ASSUME HubJoin PROVE CallTyped'
  BY <1>43 DEF HubJoin
<1>44. ASSUME HubLeave PROVE CallTyped'
  BY <1>44 DEF HubLeave
<1>45. ASSUME HubEmit PROVE CallTyped'
  BY <1>45 DEF HubEmit
<1>46. ASSUME HubWritten PROVE CallTyped'
  BY <1>46 DEF HubWritten
<1>47. ASSUME HubDispatched PROVE CallTyped'
  BY <1>47 DEF HubDispatched
<1>48. ASSUME NEW t \in Stoppers, HubSendList(t) PROVE CallTyped'
  BY <1>48 DEF HubSendList
<1>49. ASSUME HubRecvBackend PROVE CallTyped'
  BY <1>49 DEF HubRecvBackend
<1>50. ASSUME SetMultihomeBackend PROVE CallTyped'
  BY <1>50 DEF SetMultihomeBackend
<1>51. ASSUME Published PROVE CallTyped'
  BY <1>51 DEF Published
<1>52. ASSUME RaceAbort PROVE CallTyped'
  BY <1>52 DEF RaceAbort
<1>53. ASSUME UNCHANGED vars PROVE CallTyped'
  BY <1>53 DEF vars
<1> QED
  BY <1>1, <1>2, <1>3, <1>4, <1>5, <1>6, <1>7, <1>8, <1>9, <1>10, <1>11, <1>12, <1>13,
     <1>14, <1>15, <1>16, <1>17, <1>18, <1>19, <1>20, <1>21, <1>22, <1>23, <1>24, <1>25,
     <1>26, <1>27, <1>28, <1>29, <1>30, <1>31, <1>32, <1>33, <1>34, <1>35, <1>36, <1>37,
     <1>38, <1>39, <1>40, <1>41, <1>42, <1>43, <1>44, <1>45, <1>46, <1>47, <1>48, <1>49,
     <1>50, <1>51, <1>52, <1>53 DEF Next, Step, Aborted, LoopStep, HandlerCall, Acquire,
     HubRecv, Proceed, HubStep

\* The types hold for ever, whatever the application calls and however the
\* goroutines interleave; with CallTyped, no request reaches the hub about
\* no socket or no room.
THEOREM TypeCorrect == Spec => [](TypeOK /\ CallTyped)
<1>1. TypeOK /\ CallTyped /\ [Next]_vars => (TypeOK /\ CallTyped)'
  BY TypeStep, CallStep
<1> QED
  BY InitTyped, <1>1, PTL DEF Spec

\* Every step keeps roomsl with one holder.
LEMMA LockStep == TypeOK /\ CallTyped /\ RoomsLockHeldOnce /\ [Next]_vars => RoomsLockHeldOnce'
<1> SUFFICES ASSUME TypeOK, CallTyped, RoomsLockHeldOnce, [Next]_vars PROVE RoomsLockHeldOnce'
  OBVIOUS
<1> USE HubAssumption DEF TypeOK, CallTyped, RoomsLockHeldOnce, RoomsCritical, Threads, Rooms, OwnRoom, threadVars,
   stopVars, sockVars, hubCtl, hubData, backVars, LeaveEnds, Goto, Call, Return, CallFrom,
   Advance, Finish, HubTake, HubTakeMessage, HubIdle, HubApplied, PingStep
<1>1. ASSUME NEW s \in Sockets, Connect(s) PROVE RoomsLockHeldOnce'
  BY <1>1 DEF Connect
<1>2. ASSUME NEW s \in Sockets, StartLoop(s) PROVE RoomsLockHeldOnce'
  BY <1>2 DEF StartLoop
<1>3. ASSUME NEW s \in Sockets, LoopEnds(s) PROVE RoomsLockHeldOnce'
  BY <1>3 DEF LoopEnds
<1>4. ASSUME NEW s \in Sockets, HubRecvAdd(s) PROVE RoomsLockHeldOnce'
  BY <1>4 DEF HubRecvAdd
<1>5. ASSUME NEW s \in Sockets, PingTick(s) PROVE RoomsLockHeldOnce'
  BY <1>5 DEF PingTick
<1>6. ASSUME NEW s \in Sockets, PingWritten(s) PROVE RoomsLockHeldOnce'
  BY <1>6 DEF PingWritten
<1>7. ASSUME NEW t \in Handlers, CallJoin(t) PROVE RoomsLockHeldOnce'
  BY <1>7 DEF CallJoin
<1>8. ASSUME NEW t \in Handlers, CallLeave(t) PROVE RoomsLockHeldOnce'
  BY <1>8 DEF CallLeave
<1>9. ASSUME NEW t \in Handlers, CallLeaveAll(t) PROVE RoomsLockHeldOnce'
  BY <1>9 DEF CallLeaveAll
<1>10. ASSUME NEW t \in Handlers, CallClose(t) PROVE RoomsLockHeldOnce'
  BY <1>10 DEF CallClose
<1>11. ASSUME NEW t \in Handlers, CallEmit(t) PROVE RoomsLockHeldOnce'
  BY <1>11 DEF CallEmit
<1>12. ASSUME NEW t \in Handlers, CallServer(t) PROVE RoomsLockHeldOnce'
  BY <1>12 DEF CallServer
<1>13. ASSUME NEW t \in Stoppers, CallShutdown(t) PROVE RoomsLockHeldOnce'
  BY <1>13 DEF CallShutdown
<1>14. ASSUME NEW t \in Stoppers, HubRecvShutdown(t) PROVE RoomsLockHeldOnce'
  BY <1>14 DEF HubRecvShutdown
<1>15. ASSUME NEW t \in Stoppers, ShutdownClose(t) PROVE RoomsLockHeldOnce'
  BY <1>15 DEF ShutdownClose
<1>16. ASSUME NEW t \in Stoppers, ShutdownBackend(t) PROVE RoomsLockHeldOnce'
  BY <1>16 DEF ShutdownBackend
<1>17. ASSUME NEW t \in Threads, JoinLock(t) PROVE RoomsLockHeldOnce'
  BY <1>17 DEF JoinLock, RoomsLockFree
<1>18. ASSUME NEW t \in Threads, LeaveLock(t) PROVE RoomsLockHeldOnce'
  BY <1>18 DEF LeaveLock, RoomsLockFree
<1>19. ASSUME NEW t \in Threads, CloseFlag(t) PROVE RoomsLockHeldOnce'
  <2>1. CASE me[t] \in closed
    BY <1>19, <2>1 DEF CloseFlag
  <2>2. CASE me[t] \notin closed
    BY <1>19, <2>2 DEF CloseFlag
  <2> QED
    BY <2>1, <2>2
<1>20. ASSUME NEW t \in Threads, CloseSnapshot(t) PROVE RoomsLockHeldOnce'
  BY <1>20 DEF CloseSnapshot
<1>21. ASSUME NEW t \in Threads, EmitLock(t) PROVE RoomsLockHeldOnce'
  BY <1>21 DEF EmitLock
<1>22. ASSUME NEW t \in Threads, HubRecvDel(t) PROVE RoomsLockHeldOnce'
  BY <1>22 DEF HubRecvDel
<1>23. ASSUME NEW t \in Threads, HubRecvJoin(t) PROVE RoomsLockHeldOnce'
  BY <1>23 DEF HubRecvJoin
<1>24. ASSUME NEW t \in Threads, HubRecvLeave(t) PROVE RoomsLockHeldOnce'
  BY <1>24 DEF HubRecvLeave
<1>25. ASSUME NEW t \in Threads, HubRecvCast(t) PROVE RoomsLockHeldOnce'
  BY <1>25 DEF HubRecvCast
<1>26. ASSUME NEW t \in Threads, JoinReturn(t) PROVE RoomsLockHeldOnce'
  BY <1>26 DEF JoinReturn
<1>27. ASSUME NEW t \in Threads, LeaveReturn(t) PROVE RoomsLockHeldOnce'
  BY <1>27 DEF LeaveReturn
<1>28. ASSUME NEW t \in Threads, LeaveAllGoesOn(t) PROVE RoomsLockHeldOnce'
  BY <1>28 DEF LeaveAllGoesOn
<1>29. ASSUME NEW t \in Threads, CloseGoesOn(t) PROVE RoomsLockHeldOnce'
  BY <1>29 DEF CloseGoesOn
<1>30. ASSUME NEW t \in Threads, RangeNext(t) PROVE RoomsLockHeldOnce'
  BY <1>30 DEF RangeNext
<1>31. ASSUME NEW t \in Threads, RangeEnd(t) PROVE RoomsLockHeldOnce'
  BY <1>31 DEF RangeEnd
<1>32. ASSUME NEW t \in Threads, CloseWs(t) PROVE RoomsLockHeldOnce'
  BY <1>32 DEF CloseWs
<1>33. ASSUME NEW t \in Threads, CloseWsFails(t) PROVE RoomsLockHeldOnce'
  BY <1>33 DEF CloseWsFails
<1>34. ASSUME NEW t \in Threads, CloseLeaves(t) PROVE RoomsLockHeldOnce'
  BY <1>34 DEF CloseLeaves
<1>35. ASSUME NEW t \in Threads, CloseDisconnected(t) PROVE RoomsLockHeldOnce'
  BY <1>35 DEF CloseDisconnected
<1>36. ASSUME NEW t \in Threads, CloseDisconnectFails(t) PROVE RoomsLockHeldOnce'
  BY <1>36 DEF CloseDisconnectFails
<1>37. ASSUME NEW t \in Threads, CloseStopTicker(t) PROVE RoomsLockHeldOnce'
  BY <1>37 DEF CloseStopTicker
<1>38. ASSUME NEW t \in Threads, CloseStopPing(t) PROVE RoomsLockHeldOnce'
  BY <1>38 DEF CloseStopPing
<1>39. ASSUME NEW t \in Threads, EmitWritten(t) PROVE RoomsLockHeldOnce'
  BY <1>39 DEF EmitWritten
<1>40. ASSUME NEW t \in Threads, ListRead(t) PROVE RoomsLockHeldOnce'
  <2>1. CASE Finish(t, "socketlist", "recv")
    BY <2>1
  <2>2. CASE Finish(t, "roomlist", "recv")
    BY <2>2
  <2> QED
    BY <1>40, <2>1, <2>2 DEF ListRead
<1>41. ASSUME HubAdd PROVE RoomsLockHeldOnce'
  BY <1>41 DEF HubAdd
<1>42. ASSUME HubDel PROVE RoomsLockHeldOnce'
  BY <1>42 DEF HubDel
<1>43. ASSUME HubJoin PROVE RoomsLockHeldOnce'
  BY <1>43 DEF HubJoin
<1>44. ASSUME HubLeave PROVE RoomsLockHeldOnce'
  BY <1>44 DEF HubLeave
<1>45. ASSUME HubEmit PROVE RoomsLockHeldOnce'
  BY <1>45 DEF HubEmit
<1>46. ASSUME HubWritten PROVE RoomsLockHeldOnce'
  BY <1>46 DEF HubWritten
<1>47. ASSUME HubDispatched PROVE RoomsLockHeldOnce'
  BY <1>47 DEF HubDispatched
<1>48. ASSUME NEW t \in Stoppers, HubSendList(t) PROVE RoomsLockHeldOnce'
  BY <1>48 DEF HubSendList
<1>49. ASSUME HubRecvBackend PROVE RoomsLockHeldOnce'
  BY <1>49 DEF HubRecvBackend
<1>50. ASSUME SetMultihomeBackend PROVE RoomsLockHeldOnce'
  BY <1>50 DEF SetMultihomeBackend
<1>51. ASSUME Published PROVE RoomsLockHeldOnce'
  BY <1>51 DEF Published
<1>52. ASSUME RaceAbort PROVE RoomsLockHeldOnce'
  BY <1>52 DEF RaceAbort
<1>53. ASSUME UNCHANGED vars PROVE RoomsLockHeldOnce'
  BY <1>53 DEF vars
<1> QED
  BY <1>1, <1>2, <1>3, <1>4, <1>5, <1>6, <1>7, <1>8, <1>9, <1>10, <1>11, <1>12, <1>13,
     <1>14, <1>15, <1>16, <1>17, <1>18, <1>19, <1>20, <1>21, <1>22, <1>23, <1>24, <1>25,
     <1>26, <1>27, <1>28, <1>29, <1>30, <1>31, <1>32, <1>33, <1>34, <1>35, <1>36, <1>37,
     <1>38, <1>39, <1>40, <1>41, <1>42, <1>43, <1>44, <1>45, <1>46, <1>47, <1>48, <1>49,
     <1>50, <1>51, <1>52, <1>53 DEF Next, Step, Aborted, LoopStep, HandlerCall, Acquire,
     HubRecv, Proceed, HubStep

\* What a goroutine does outside the two points after the hub took its
\* request leaves the socket's view of the membership alone.
LEMMA QuietStep ==
  ASSUME TypeOK, RoomsAgree, NEW t \in Threads,
         pc[t] \notin {"jset", "ldel"}, pc'[t] \notin {"jset", "ldel"},
         \A u \in Threads \ {t} : pc'[u] = pc[u] /\ me'[u] = me[u] /\ arg'[u] = arg[u],
         rooms' = rooms, members' = members,
         hpc' = hpc \/ (hpc \notin {"join", "leave"} /\ hpc' \notin {"join", "leave"}),
         hpc \in {"join", "leave"} => hs' = hs /\ hr' = hr
  PROVE  RoomsAgree'
<1> SUFFICES ASSUME NEW s \in Sockets, NEW r \in Rooms PROVE HubHas(s, r)' <=> SockHas(s, r)'
  BY DEF RoomsAgree
<1>1. HubHas(s, r)' <=> HubHas(s, r)
  BY DEF HubHas
<1>2. SockHas(s, r)' <=> SockHas(s, r)
  BY DEF SockHas
<1> QED
  BY <1>1, <1>2 DEF RoomsAgree

\* After the hub took a request, the goroutine that sent it writes s.rooms:
\* it does what SockHas foretold, and no other goroutine is at that point.
LEMMA WriteRooms ==
  ASSUME TypeOK, CallTyped, RoomsLockHeldOnce, RoomsAgree, NEW t \in Threads,
         pc'[t] \notin RoomsCritical,
         \A u \in Threads \ {t} : pc'[u] = pc[u] /\ me'[u] = me[u] /\ arg'[u] = arg[u],
         UNCHANGED <<members, hpc, hs, hr>>,
         \/ pc[t] = "jset" /\ rooms' = [rooms EXCEPT ![me[t]] = @ \cup {arg[t]}]
         \/ pc[t] = "ldel" /\ rooms' = [rooms EXCEPT ![me[t]] = @ \ {arg[t]}]
  PROVE  RoomsAgree'
<1> SUFFICES ASSUME NEW s \in Sockets, NEW r \in Rooms PROVE HubHas(s, r)' <=> SockHas(s, r)'
  BY DEF RoomsAgree
<1>1. HubHas(s, r)' <=> HubHas(s, r)
  BY DEF HubHas
<1>2. \A u \in Threads \ {t} : me[u] = me[t] => pc[u] \notin {"jset", "ldel"}
  BY DEF RoomsLockHeldOnce, RoomsCritical
<1>3. CASE s = me[t] /\ r = arg[t]
  <2>1. \A u \in Threads : ~(me'[u] = s /\ pc'[u] \in {"jset", "ldel"})
    BY <1>2, <1>3 DEF RoomsCritical
  <2>2. CASE pc[t] = "jset"
    <3>1. SockHas(s, r)
      BY <1>3, <2>2 DEF SockHas
    <3>2. r \in rooms'[s]
      BY <1>3, <2>2 DEF TypeOK
    <3> QED
      BY <1>1, <2>1, <3>1, <3>2 DEF SockHas, RoomsAgree
  <2>3. CASE pc[t] = "ldel"
    <3>1. ~SockHas(s, r)
      BY <1>2, <1>3, <2>3 DEF SockHas
    <3>2. r \notin rooms'[s]
      BY <1>3, <2>3 DEF TypeOK
    <3> QED
      BY <1>1, <2>1, <3>1, <3>2 DEF SockHas, RoomsAgree
  <2> QED
    BY <2>2, <2>3
<1>4. CASE ~(s = me[t] /\ r = arg[t])
  <2>1. r \in rooms'[s] <=> r \in rooms[s]
    BY <1>4 DEF TypeOK, CallTyped
  <2>2. \A p \in {"jset", "ldel"} : (\E u \in Threads : me'[u] = s /\ arg'[u] = r /\ pc'[u] = p)
                                  <=> (\E u \in Threads : me[u] = s /\ arg[u] = r /\ pc[u] = p)
    BY <1>4 DEF RoomsCritical
  <2> QED
    BY <1>1, <2>1, <2>2 DEF SockHas, RoomsAgree
<1> QED
  BY <1>1, <1>3, <1>4 DEF RoomsAgree

\* The hub takes a request: it and the socket change their mind together.
LEMMA TakeRequest ==
  ASSUME TypeOK, CallTyped, RoomsLockHeldOnce, RoomsAgree, NEW t \in Threads,
         HubRecvJoin(t) \/ HubRecvLeave(t)
  PROVE  RoomsAgree'
<1> SUFFICES ASSUME NEW s \in Sockets, NEW r \in Rooms PROVE HubHas(s, r)' <=> SockHas(s, r)'
  BY DEF RoomsAgree
<1> USE DEF HubRecvJoin, HubRecvLeave, HubTake, Goto, TypeOK, CallTyped
<1>1. \A u \in Threads \ {t} : me[u] = me[t] => pc[u] \notin {"jset", "ldel"}
  BY DEF RoomsLockHeldOnce, RoomsCritical
<1>2. \A u \in Threads \ {t} : pc'[u] = pc[u]
  OBVIOUS
<1>3. CASE s = me[t] /\ r = arg[t]
  BY <1>1, <1>2, <1>3 DEF HubHas, SockHas
<1>4. CASE ~(s = me[t] /\ r = arg[t])
  <2>1. HubHas(s, r)' <=> HubHas(s, r)
    BY <1>4 DEF HubHas, sockVars, hubData
  <2>2. \A p \in {"jset", "ldel"} : (\E u \in Threads : me'[u] = s /\ arg'[u] = r /\ pc'[u] = p)
                                  <=> (\E u \in Threads : me[u] = s /\ arg[u] = r /\ pc[u] = p)
    BY <1>2, <1>4
  <2> QED
    BY <2>1, <2>2 DEF SockHas, RoomsAgree, sockVars
<1> QED
  BY <1>3, <1>4

\* Every step keeps the rooms of the hub non-empty.
LEMMA EmptyStep == TypeOK /\ CallTyped /\ NoEmptyRoom /\ [Next]_vars => NoEmptyRoom'
<1> SUFFICES ASSUME TypeOK, CallTyped, NoEmptyRoom, [Next]_vars PROVE NoEmptyRoom'
  OBVIOUS
<1> USE HubAssumption DEF TypeOK, CallTyped, NoEmptyRoom, Threads, Rooms, OwnRoom, threadVars, stopVars, sockVars,
   hubCtl, hubData, backVars, LeaveEnds, Goto, Call, Return, CallFrom, Advance, Finish,
   HubTake, HubTakeMessage, HubIdle, HubApplied, PingStep
<1>1. ASSUME NEW s \in Sockets, Connect(s) PROVE NoEmptyRoom'
  BY <1>1 DEF Connect
<1>2. ASSUME NEW s \in Sockets, StartLoop(s) PROVE NoEmptyRoom'
  BY <1>2 DEF StartLoop
<1>3. ASSUME NEW s \in Sockets, LoopEnds(s) PROVE NoEmptyRoom'
  BY <1>3 DEF LoopEnds
<1>4. ASSUME NEW s \in Sockets, HubRecvAdd(s) PROVE NoEmptyRoom'
  BY <1>4 DEF HubRecvAdd
<1>5. ASSUME NEW s \in Sockets, PingTick(s) PROVE NoEmptyRoom'
  BY <1>5 DEF PingTick
<1>6. ASSUME NEW s \in Sockets, PingWritten(s) PROVE NoEmptyRoom'
  BY <1>6 DEF PingWritten
<1>7. ASSUME NEW t \in Handlers, CallJoin(t) PROVE NoEmptyRoom'
  BY <1>7 DEF CallJoin
<1>8. ASSUME NEW t \in Handlers, CallLeave(t) PROVE NoEmptyRoom'
  BY <1>8 DEF CallLeave
<1>9. ASSUME NEW t \in Handlers, CallLeaveAll(t) PROVE NoEmptyRoom'
  BY <1>9 DEF CallLeaveAll
<1>10. ASSUME NEW t \in Handlers, CallClose(t) PROVE NoEmptyRoom'
  BY <1>10 DEF CallClose
<1>11. ASSUME NEW t \in Handlers, CallEmit(t) PROVE NoEmptyRoom'
  BY <1>11 DEF CallEmit
<1>12. ASSUME NEW t \in Handlers, CallServer(t) PROVE NoEmptyRoom'
  BY <1>12 DEF CallServer
<1>13. ASSUME NEW t \in Stoppers, CallShutdown(t) PROVE NoEmptyRoom'
  BY <1>13 DEF CallShutdown
<1>14. ASSUME NEW t \in Stoppers, HubRecvShutdown(t) PROVE NoEmptyRoom'
  BY <1>14 DEF HubRecvShutdown
<1>15. ASSUME NEW t \in Stoppers, ShutdownClose(t) PROVE NoEmptyRoom'
  BY <1>15 DEF ShutdownClose
<1>16. ASSUME NEW t \in Stoppers, ShutdownBackend(t) PROVE NoEmptyRoom'
  BY <1>16 DEF ShutdownBackend
<1>17. ASSUME NEW t \in Threads, JoinLock(t) PROVE NoEmptyRoom'
  BY <1>17 DEF JoinLock
<1>18. ASSUME NEW t \in Threads, LeaveLock(t) PROVE NoEmptyRoom'
  BY <1>18 DEF LeaveLock
<1>19. ASSUME NEW t \in Threads, CloseFlag(t) PROVE NoEmptyRoom'
  <2>1. CASE me[t] \in closed
    BY <1>19, <2>1 DEF CloseFlag
  <2>2. CASE me[t] \notin closed
    BY <1>19, <2>2 DEF CloseFlag
  <2> QED
    BY <2>1, <2>2
<1>20. ASSUME NEW t \in Threads, CloseSnapshot(t) PROVE NoEmptyRoom'
  BY <1>20 DEF CloseSnapshot
<1>21. ASSUME NEW t \in Threads, EmitLock(t) PROVE NoEmptyRoom'
  BY <1>21 DEF EmitLock
<1>22. ASSUME NEW t \in Threads, HubRecvDel(t) PROVE NoEmptyRoom'
  BY <1>22 DEF HubRecvDel
<1>23. ASSUME NEW t \in Threads, HubRecvJoin(t) PROVE NoEmptyRoom'
  BY <1>23 DEF HubRecvJoin
<1>24. ASSUME NEW t \in Threads, HubRecvLeave(t) PROVE NoEmptyRoom'
  BY <1>24 DEF HubRecvLeave
<1>25. ASSUME NEW t \in Threads, HubRecvCast(t) PROVE NoEmptyRoom'
  BY <1>25 DEF HubRecvCast
<1>26. ASSUME NEW t \in Threads, JoinReturn(t) PROVE NoEmptyRoom'
  BY <1>26 DEF JoinReturn
<1>27. ASSUME NEW t \in Threads, LeaveReturn(t) PROVE NoEmptyRoom'
  BY <1>27 DEF LeaveReturn
<1>28. ASSUME NEW t \in Threads, LeaveAllGoesOn(t) PROVE NoEmptyRoom'
  BY <1>28 DEF LeaveAllGoesOn
<1>29. ASSUME NEW t \in Threads, CloseGoesOn(t) PROVE NoEmptyRoom'
  BY <1>29 DEF CloseGoesOn
<1>30. ASSUME NEW t \in Threads, RangeNext(t) PROVE NoEmptyRoom'
  BY <1>30 DEF RangeNext
<1>31. ASSUME NEW t \in Threads, RangeEnd(t) PROVE NoEmptyRoom'
  BY <1>31 DEF RangeEnd
<1>32. ASSUME NEW t \in Threads, CloseWs(t) PROVE NoEmptyRoom'
  BY <1>32 DEF CloseWs
<1>33. ASSUME NEW t \in Threads, CloseWsFails(t) PROVE NoEmptyRoom'
  BY <1>33 DEF CloseWsFails
<1>34. ASSUME NEW t \in Threads, CloseLeaves(t) PROVE NoEmptyRoom'
  BY <1>34 DEF CloseLeaves
<1>35. ASSUME NEW t \in Threads, CloseDisconnected(t) PROVE NoEmptyRoom'
  BY <1>35 DEF CloseDisconnected
<1>36. ASSUME NEW t \in Threads, CloseDisconnectFails(t) PROVE NoEmptyRoom'
  BY <1>36 DEF CloseDisconnectFails
<1>37. ASSUME NEW t \in Threads, CloseStopTicker(t) PROVE NoEmptyRoom'
  BY <1>37 DEF CloseStopTicker
<1>38. ASSUME NEW t \in Threads, CloseStopPing(t) PROVE NoEmptyRoom'
  BY <1>38 DEF CloseStopPing
<1>39. ASSUME NEW t \in Threads, EmitWritten(t) PROVE NoEmptyRoom'
  BY <1>39 DEF EmitWritten
<1>40. ASSUME NEW t \in Threads, ListRead(t) PROVE NoEmptyRoom'
  <2>1. CASE Finish(t, "socketlist", "recv")
    BY <2>1
  <2>2. CASE Finish(t, "roomlist", "recv")
    BY <2>2
  <2> QED
    BY <1>40, <2>1, <2>2 DEF ListRead
<1>41. ASSUME HubAdd PROVE NoEmptyRoom'
  BY <1>41 DEF HubAdd
<1>42. ASSUME HubDel PROVE NoEmptyRoom'
  BY <1>42 DEF HubDel
<1>43. ASSUME HubJoin PROVE NoEmptyRoom'
  BY <1>43 DEF HubJoin
<1>44. ASSUME HubLeave PROVE NoEmptyRoom'
  BY SMTT(40), <1>44 DEF HubLeave
<1>45. ASSUME HubEmit PROVE NoEmptyRoom'
  BY <1>45 DEF HubEmit
<1>46. ASSUME HubWritten PROVE NoEmptyRoom'
  BY <1>46 DEF HubWritten
<1>47. ASSUME HubDispatched PROVE NoEmptyRoom'
  BY <1>47 DEF HubDispatched
<1>48. ASSUME NEW t \in Stoppers, HubSendList(t) PROVE NoEmptyRoom'
  BY <1>48 DEF HubSendList
<1>49. ASSUME HubRecvBackend PROVE NoEmptyRoom'
  BY <1>49 DEF HubRecvBackend
<1>50. ASSUME SetMultihomeBackend PROVE NoEmptyRoom'
  BY <1>50 DEF SetMultihomeBackend
<1>51. ASSUME Published PROVE NoEmptyRoom'
  BY <1>51 DEF Published
<1>52. ASSUME RaceAbort PROVE NoEmptyRoom'
  BY <1>52 DEF RaceAbort
<1>53. ASSUME UNCHANGED vars PROVE NoEmptyRoom'
  BY <1>53 DEF vars
<1> QED
  BY <1>1, <1>2, <1>3, <1>4, <1>5, <1>6, <1>7, <1>8, <1>9, <1>10, <1>11, <1>12, <1>13,
     <1>14, <1>15, <1>16, <1>17, <1>18, <1>19, <1>20, <1>21, <1>22, <1>23, <1>24, <1>25,
     <1>26, <1>27, <1>28, <1>29, <1>30, <1>31, <1>32, <1>33, <1>34, <1>35, <1>36, <1>37,
     <1>38, <1>39, <1>40, <1>41, <1>42, <1>43, <1>44, <1>45, <1>46, <1>47, <1>48, <1>49,
     <1>50, <1>51, <1>52, <1>53 DEF Next, Step, Aborted, LoopStep, HandlerCall, Acquire,
     HubRecv, Proceed, HubStep

\* Every step keeps the two copies of the membership in agreement.
LEMMA RoomsStep == TypeOK /\ CallTyped /\ RoomsLockHeldOnce /\ NoEmptyRoom /\ RoomsAgree /\ [Next]_vars => RoomsAgree'
<1> SUFFICES ASSUME TypeOK, CallTyped, RoomsLockHeldOnce, NoEmptyRoom, RoomsAgree, [Next]_vars PROVE RoomsAgree'
  OBVIOUS
<1> USE HubAssumption DEF TypeOK, CallTyped, Threads, Rooms, OwnRoom, threadVars, stopVars, sockVars, hubCtl, hubData,
   backVars, LeaveEnds, Goto, Call, Return, CallFrom, Advance, Finish, HubTake,
   HubTakeMessage, HubIdle, HubApplied, PingStep
<1>1. ASSUME NEW s \in Sockets, Connect(s) PROVE RoomsAgree'
  BY <1>1, QuietStep DEF Connect
<1>2. ASSUME NEW s \in Sockets, StartLoop(s) PROVE RoomsAgree'
  BY <1>2, QuietStep DEF StartLoop
<1>3. ASSUME NEW s \in Sockets, LoopEnds(s) PROVE RoomsAgree'
  BY <1>3, QuietStep DEF LoopEnds
<1>4. ASSUME NEW s \in Sockets, HubRecvAdd(s) PROVE RoomsAgree'
  BY <1>4, QuietStep DEF HubRecvAdd
<1>5. ASSUME NEW s \in Sockets, PingTick(s) PROVE RoomsAgree'
  BY <1>5 DEF PingTick, RoomsAgree, HubHas, SockHas
<1>6. ASSUME NEW s \in Sockets, PingWritten(s) PROVE RoomsAgree'
  BY <1>6 DEF PingWritten, RoomsAgree, HubHas, SockHas
<1>7. ASSUME NEW t \in Handlers, CallJoin(t) PROVE RoomsAgree'
  BY <1>7 DEF CallJoin, RoomsAgree, HubHas, SockHas
<1>8. ASSUME NEW t \in Handlers, CallLeave(t) PROVE RoomsAgree'
  BY <1>8 DEF CallLeave, RoomsAgree, HubHas, SockHas
<1>9. ASSUME NEW t \in Handlers, CallLeaveAll(t) PROVE RoomsAgree'
  BY <1>9, QuietStep DEF CallLeaveAll
<1>10. ASSUME NEW t \in Handlers, CallClose(t) PROVE RoomsAgree'
  BY <1>10, QuietStep DEF CallClose
<1>11. ASSUME NEW t \in Handlers, CallEmit(t) PROVE RoomsAgree'
  BY <1>11, QuietStep DEF CallEmit
<1>12. ASSUME NEW t \in Handlers, CallServer(t) PROVE RoomsAgree'
  BY SMTT(40), <1>12, QuietStep DEF CallServer
<1>13. ASSUME NEW t \in Stoppers, CallShutdown(t) PROVE RoomsAgree'
  BY <1>13, QuietStep DEF CallShutdown
<1>14. ASSUME NEW t \in Stoppers, HubRecvShutdown(t) PROVE RoomsAgree'
  BY <1>14, QuietStep DEF HubRecvShutdown
<1>15. ASSUME NEW t \in Stoppers, ShutdownClose(t) PROVE RoomsAgree'
  <2>1. PICK s \in rest[t] : Call(t, s, "close", None, "flag")
    BY <1>15 DEF ShutdownClose
  <2> QED
    BY <1>15, <2>1, QuietStep DEF ShutdownClose
<1>16. ASSUME NEW t \in Stoppers, ShutdownBackend(t) PROVE RoomsAgree'
  BY <1>16, QuietStep DEF ShutdownBackend
<1>17. ASSUME NEW t \in Threads, JoinLock(t) PROVE RoomsAgree'
  BY <1>17, QuietStep DEF JoinLock
<1>18. ASSUME NEW t \in Threads, LeaveLock(t) PROVE RoomsAgree'
  BY <1>18, QuietStep DEF LeaveLock
<1>19. ASSUME NEW t \in Threads, CloseFlag(t) PROVE RoomsAgree'
  <2>1. CASE me[t] \in closed
    BY SMTT(40), <1>19, <2>1, QuietStep DEF CloseFlag
  <2>2. CASE me[t] \notin closed
    BY <1>19, <2>2, QuietStep DEF CloseFlag
  <2> QED
    BY <2>1, <2>2
<1>20. ASSUME NEW t \in Threads, CloseSnapshot(t) PROVE RoomsAgree'
  BY <1>20, QuietStep DEF CloseSnapshot
<1>21. ASSUME NEW t \in Threads, EmitLock(t) PROVE RoomsAgree'
  BY <1>21, QuietStep DEF EmitLock
<1>22. ASSUME NEW t \in Threads, HubRecvDel(t) PROVE RoomsAgree'
  BY <1>22, QuietStep DEF HubRecvDel
<1>23. ASSUME NEW t \in Threads, HubRecvJoin(t) PROVE RoomsAgree'
  BY <1>23, TakeRequest
<1>24. ASSUME NEW t \in Threads, HubRecvLeave(t) PROVE RoomsAgree'
  BY <1>24, TakeRequest
<1>25. ASSUME NEW t \in Threads, HubRecvCast(t) PROVE RoomsAgree'
  BY <1>25, QuietStep DEF HubRecvCast
<1>26. ASSUME NEW t \in Threads, JoinReturn(t) PROVE RoomsAgree'
  BY <1>26, WriteRooms DEF JoinReturn, RoomsCritical
<1>27. ASSUME NEW t \in Threads, LeaveReturn(t) PROVE RoomsAgree'
  BY <1>27, WriteRooms DEF LeaveReturn, RoomsCritical
<1>28. ASSUME NEW t \in Threads, LeaveAllGoesOn(t) PROVE RoomsAgree'
  BY <1>28, WriteRooms DEF LeaveAllGoesOn, RoomsCritical
<1>29. ASSUME NEW t \in Threads, CloseGoesOn(t) PROVE RoomsAgree'
  BY <1>29, WriteRooms DEF CloseGoesOn, RoomsCritical
<1>30. ASSUME NEW t \in Threads, RangeNext(t) PROVE RoomsAgree'
  BY <1>30, QuietStep DEF RangeNext
<1>31. ASSUME NEW t \in Threads, RangeEnd(t) PROVE RoomsAgree'
  BY <1>31, QuietStep DEF RangeEnd
<1>32. ASSUME NEW t \in Threads, CloseWs(t) PROVE RoomsAgree'
  BY <1>32, QuietStep DEF CloseWs
<1>33. ASSUME NEW t \in Threads, CloseWsFails(t) PROVE RoomsAgree'
  BY <1>33, QuietStep DEF CloseWsFails
<1>34. ASSUME NEW t \in Threads, CloseLeaves(t) PROVE RoomsAgree'
  BY <1>34, QuietStep DEF CloseLeaves
<1>35. ASSUME NEW t \in Threads, CloseDisconnected(t) PROVE RoomsAgree'
  BY <1>35, QuietStep DEF CloseDisconnected
<1>36. ASSUME NEW t \in Threads, CloseDisconnectFails(t) PROVE RoomsAgree'
  BY <1>36, QuietStep DEF CloseDisconnectFails
<1>37. ASSUME NEW t \in Threads, CloseStopTicker(t) PROVE RoomsAgree'
  BY <1>37, QuietStep DEF CloseStopTicker
<1>38. ASSUME NEW t \in Threads, CloseStopPing(t) PROVE RoomsAgree'
  BY <1>38, QuietStep DEF CloseStopPing
<1>39. ASSUME NEW t \in Threads, EmitWritten(t) PROVE RoomsAgree'
  BY <1>39, QuietStep DEF EmitWritten
<1>40. ASSUME NEW t \in Threads, ListRead(t) PROVE RoomsAgree'
  <2>1. CASE Finish(t, "socketlist", "recv")
    BY <2>1, QuietStep
  <2>2. CASE Finish(t, "roomlist", "recv")
    BY <2>2, QuietStep
  <2> QED
    BY <1>40, <2>1, <2>2 DEF ListRead
<1>41. ASSUME HubAdd PROVE RoomsAgree'
  BY <1>41 DEF HubAdd, RoomsAgree, HubHas, SockHas
<1>42. ASSUME HubDel PROVE RoomsAgree'
  BY <1>42 DEF HubDel, RoomsAgree, HubHas, SockHas
<1>43. ASSUME HubJoin PROVE RoomsAgree'
  BY <1>43 DEF HubJoin, RoomsAgree, HubHas, SockHas
<1>44. ASSUME HubLeave PROVE RoomsAgree'
  <2> SUFFICES ASSUME NEW s \in Sockets, NEW r \in Rooms PROVE HubHas(s, r)' <=> SockHas(s, r)'
    BY DEF RoomsAgree
  <2>1. SockHas(s, r)' <=> SockHas(s, r)
    BY <1>44 DEF HubLeave, SockHas
  <2>2. HubHas(s, r) <=> s \in members[r] /\ ~(hs = s /\ hr = r)
    BY <1>44 DEF HubLeave, HubHas
  <2>3. HubHas(s, r)' <=> s \in members'[r]
    BY <1>44 DEF HubLeave, HubHas
  <2>4. s \in members'[r] <=> s \in members[r] /\ ~(hs = s /\ hr = r)
    BY <1>44 DEF HubLeave, NoEmptyRoom
  <2> QED
    BY <2>1, <2>2, <2>3, <2>4 DEF RoomsAgree
<1>45. ASSUME HubEmit PROVE RoomsAgree'
  BY <1>45 DEF HubEmit, RoomsAgree, HubHas, SockHas
<1>46. ASSUME HubWritten PROVE RoomsAgree'
  BY <1>46 DEF HubWritten, RoomsAgree, HubHas, SockHas
<1>47. ASSUME HubDispatched PROVE RoomsAgree'
  BY <1>47 DEF HubDispatched, RoomsAgree, HubHas, SockHas
<1>48. ASSUME NEW t \in Stoppers, HubSendList(t) PROVE RoomsAgree'
  BY <1>48, QuietStep DEF HubSendList
<1>49. ASSUME HubRecvBackend PROVE RoomsAgree'
  BY <1>49 DEF HubRecvBackend, RoomsAgree, HubHas, SockHas
<1>50. ASSUME SetMultihomeBackend PROVE RoomsAgree'
  BY <1>50 DEF SetMultihomeBackend, RoomsAgree, HubHas, SockHas
<1>51. ASSUME Published PROVE RoomsAgree'
  BY <1>51 DEF Published, RoomsAgree, HubHas, SockHas
<1>52. ASSUME RaceAbort PROVE RoomsAgree'
  BY <1>52 DEF RaceAbort, RoomsAgree, HubHas, SockHas
<1>53. ASSUME UNCHANGED vars PROVE RoomsAgree'
  BY <1>53 DEF vars, RoomsAgree, HubHas, SockHas
<1> QED
  BY <1>1, <1>2, <1>3, <1>4, <1>5, <1>6, <1>7, <1>8, <1>9, <1>10, <1>11, <1>12, <1>13,
     <1>14, <1>15, <1>16, <1>17, <1>18, <1>19, <1>20, <1>21, <1>22, <1>23, <1>24, <1>25,
     <1>26, <1>27, <1>28, <1>29, <1>30, <1>31, <1>32, <1>33, <1>34, <1>35, <1>36, <1>37,
     <1>38, <1>39, <1>40, <1>41, <1>42, <1>43, <1>44, <1>45, <1>46, <1>47, <1>48, <1>49,
     <1>50, <1>51, <1>52, <1>53 DEF Next, Step, Aborted, LoopStep, HandlerCall, Acquire,
     HubRecv, Proceed, HubStep

\* The inductive invariant of the membership.
MembershipInv == TypeOK /\ CallTyped /\ RoomsLockHeldOnce /\ NoEmptyRoom /\ RoomsAgree

LEMMA InitMembership == Init => MembershipInv
<1> SUFFICES ASSUME Init PROVE RoomsLockHeldOnce /\ NoEmptyRoom /\ RoomsAgree
  BY InitTyped DEF MembershipInv
<1>1. \A t \in Threads : pc[t] \in {"new", "idle"}
  BY DEF Init, Threads
<1>2. RoomsLockHeldOnce
  BY <1>1 DEF RoomsLockHeldOnce, RoomsCritical
<1>3. NoEmptyRoom
  BY DEF Init, NoEmptyRoom
<1>4. RoomsAgree
  BY <1>1 DEF Init, RoomsAgree, HubHas, SockHas
<1> QED
  BY <1>2, <1>3, <1>4

LEMMA MembershipHolds == Spec => []MembershipInv
<1>1. MembershipInv /\ [Next]_vars => MembershipInv'
  BY TypeStep, CallStep, LockStep, EmptyStep, RoomsStep DEF MembershipInv
<1> QED
  BY InitMembership, <1>1, PTL DEF Spec

\* The membership the sockets hold and the membership the hub dispatches by
\* agree, up to the request in transit, for any number of sockets, rooms and
\* goroutines that join, leave and close at once.
THEOREM MembershipAgrees == Spec => []RoomsAgree
<1>1. MembershipInv => RoomsAgree
  BY DEF MembershipInv
<1> QED
  BY MembershipHolds, <1>1, PTL

\* A room is in h.rooms exactly as long as it has a member.
THEOREM RoomsHaveMembers == Spec => []NoEmptyRoom
<1>1. MembershipInv => NoEmptyRoom
  BY DEF MembershipInv
<1> QED
  BY MembershipHolds, <1>1, PTL

=============================================================================
