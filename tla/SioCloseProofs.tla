-------------------------- MODULE SioCloseProofs --------------------------
(***************************************************************************)
(* Proofs about Close, the registry of the hub and Shutdown in SioHub, and *)
(* that SioHub implements RoomService, for any number of sockets, rooms    *)
(* and goroutines.                                                         *)
(***************************************************************************)
EXTENDS SioHubProofs

\* Every step keeps the Ping goroutine of an open socket alive.
LEMMA PingStepEnds == TypeOK /\ CallTyped /\ CloseOnce /\ PingEndsClosed /\ [Next]_vars => PingEndsClosed'
<1> SUFFICES ASSUME TypeOK, CallTyped, CloseOnce, PingEndsClosed, [Next]_vars PROVE PingEndsClosed'
  OBVIOUS
<1> USE HubAssumption DEF TypeOK, CallTyped, PingEndsClosed, Threads, Rooms, OwnRoom, threadVars, stopVars, sockVars,
   hubCtl, hubData, backVars, LeaveEnds, Goto, Call, Return, CallFrom, Advance, Finish,
   HubTake, HubTakeMessage, HubIdle, HubApplied, PingStep
<1>1. ASSUME NEW s \in Sockets, Connect(s) PROVE PingEndsClosed'
  BY <1>1 DEF Connect
<1>2. ASSUME NEW s \in Sockets, StartLoop(s) PROVE PingEndsClosed'
  BY <1>2 DEF StartLoop
<1>3. ASSUME NEW s \in Sockets, LoopEnds(s) PROVE PingEndsClosed'
  BY <1>3 DEF LoopEnds
<1>4. ASSUME NEW s \in Sockets, HubRecvAdd(s) PROVE PingEndsClosed'
  BY <1>4 DEF HubRecvAdd
<1>5. ASSUME NEW s \in Sockets, PingTick(s) PROVE PingEndsClosed'
  BY <1>5 DEF PingTick
<1>6. ASSUME NEW s \in Sockets, PingWritten(s) PROVE PingEndsClosed'
  BY <1>6 DEF PingWritten
<1>7. ASSUME NEW t \in Handlers, CallJoin(t) PROVE PingEndsClosed'
  BY <1>7 DEF CallJoin
<1>8. ASSUME NEW t \in Handlers, CallLeave(t) PROVE PingEndsClosed'
  BY <1>8 DEF CallLeave
<1>9. ASSUME NEW t \in Handlers, CallLeaveAll(t) PROVE PingEndsClosed'
  BY <1>9 DEF CallLeaveAll
<1>10. ASSUME NEW t \in Handlers, CallClose(t) PROVE PingEndsClosed'
  BY <1>10 DEF CallClose
<1>11. ASSUME NEW t \in Handlers, CallEmit(t) PROVE PingEndsClosed'
  BY <1>11 DEF CallEmit
<1>12. ASSUME NEW t \in Handlers, CallServer(t) PROVE PingEndsClosed'
  BY <1>12 DEF CallServer
<1>13. ASSUME NEW t \in Stoppers, CallShutdown(t) PROVE PingEndsClosed'
  BY <1>13 DEF CallShutdown
<1>14. ASSUME NEW t \in Stoppers, HubRecvShutdown(t) PROVE PingEndsClosed'
  BY <1>14 DEF HubRecvShutdown
<1>15. ASSUME NEW t \in Stoppers, ShutdownClose(t) PROVE PingEndsClosed'
  BY <1>15 DEF ShutdownClose
<1>16. ASSUME NEW t \in Stoppers, ShutdownBackend(t) PROVE PingEndsClosed'
  BY <1>16 DEF ShutdownBackend
<1>17. ASSUME NEW t \in Threads, JoinLock(t) PROVE PingEndsClosed'
  BY <1>17 DEF JoinLock
<1>18. ASSUME NEW t \in Threads, LeaveLock(t) PROVE PingEndsClosed'
  BY <1>18 DEF LeaveLock
<1>19. ASSUME NEW t \in Threads, CloseFlag(t) PROVE PingEndsClosed'
  <2>1. CASE me[t] \in closed
    BY <1>19, <2>1 DEF CloseFlag
  <2>2. CASE me[t] \notin closed
    BY <1>19, <2>2 DEF CloseFlag
  <2> QED
    BY <2>1, <2>2
<1>20. ASSUME NEW t \in Threads, CloseSnapshot(t) PROVE PingEndsClosed'
  BY <1>20 DEF CloseSnapshot
<1>21. ASSUME NEW t \in Threads, EmitLock(t) PROVE PingEndsClosed'
  BY <1>21 DEF EmitLock
<1>22. ASSUME NEW t \in Threads, HubRecvDel(t) PROVE PingEndsClosed'
  BY <1>22 DEF HubRecvDel
<1>23. ASSUME NEW t \in Threads, HubRecvJoin(t) PROVE PingEndsClosed'
  BY <1>23 DEF HubRecvJoin
<1>24. ASSUME NEW t \in Threads, HubRecvLeave(t) PROVE PingEndsClosed'
  BY <1>24 DEF HubRecvLeave
<1>25. ASSUME NEW t \in Threads, HubRecvCast(t) PROVE PingEndsClosed'
  BY <1>25 DEF HubRecvCast
<1>26. ASSUME NEW t \in Threads, JoinReturn(t) PROVE PingEndsClosed'
  BY <1>26 DEF JoinReturn
<1>27. ASSUME NEW t \in Threads, LeaveReturn(t) PROVE PingEndsClosed'
  BY <1>27 DEF LeaveReturn
<1>28. ASSUME NEW t \in Threads, LeaveAllGoesOn(t) PROVE PingEndsClosed'
  BY <1>28 DEF LeaveAllGoesOn
<1>29. ASSUME NEW t \in Threads, CloseGoesOn(t) PROVE PingEndsClosed'
  BY <1>29 DEF CloseGoesOn
<1>30. ASSUME NEW t \in Threads, RangeNext(t) PROVE PingEndsClosed'
  BY <1>30 DEF RangeNext
<1>31. ASSUME NEW t \in Threads, RangeEnd(t) PROVE PingEndsClosed'
  BY <1>31 DEF RangeEnd
<1>32. ASSUME NEW t \in Threads, CloseWs(t) PROVE PingEndsClosed'
  BY <1>32 DEF CloseWs
<1>33. ASSUME NEW t \in Threads, CloseWsFails(t) PROVE PingEndsClosed'
  BY <1>33 DEF CloseWsFails
<1>34. ASSUME NEW t \in Threads, CloseLeaves(t) PROVE PingEndsClosed'
  BY <1>34 DEF CloseLeaves
<1>35. ASSUME NEW t \in Threads, CloseDisconnected(t) PROVE PingEndsClosed'
  BY <1>35 DEF CloseDisconnected
<1>36. ASSUME NEW t \in Threads, CloseDisconnectFails(t) PROVE PingEndsClosed'
  BY <1>36 DEF CloseDisconnectFails
<1>37. ASSUME NEW t \in Threads, CloseStopTicker(t) PROVE PingEndsClosed'
  BY <1>37 DEF CloseStopTicker
<1>38. ASSUME NEW t \in Threads, CloseStopPing(t) PROVE PingEndsClosed'
  BY <1>38 DEF CloseStopPing, CloseOnce, InClose
<1>39. ASSUME NEW t \in Threads, EmitWritten(t) PROVE PingEndsClosed'
  BY <1>39 DEF EmitWritten
<1>40. ASSUME NEW t \in Threads, ListRead(t) PROVE PingEndsClosed'
  <2>1. CASE Finish(t, "socketlist", "recv")
    BY <2>1
  <2>2. CASE Finish(t, "roomlist", "recv")
    BY <2>2
  <2> QED
    BY <1>40, <2>1, <2>2 DEF ListRead
<1>41. ASSUME HubAdd PROVE PingEndsClosed'
  BY <1>41 DEF HubAdd
<1>42. ASSUME HubDel PROVE PingEndsClosed'
  BY <1>42 DEF HubDel
<1>43. ASSUME HubJoin PROVE PingEndsClosed'
  BY <1>43 DEF HubJoin
<1>44. ASSUME HubLeave PROVE PingEndsClosed'
  BY <1>44 DEF HubLeave
<1>45. ASSUME HubEmit PROVE PingEndsClosed'
  BY <1>45 DEF HubEmit
<1>46. ASSUME HubWritten PROVE PingEndsClosed'
  BY <1>46 DEF HubWritten
<1>47. ASSUME HubDispatched PROVE PingEndsClosed'
  BY <1>47 DEF HubDispatched
<1>48. ASSUME NEW t \in Stoppers, HubSendList(t) PROVE PingEndsClosed'
  BY <1>48 DEF HubSendList
<1>49. ASSUME HubRecvBackend PROVE PingEndsClosed'
  BY <1>49 DEF HubRecvBackend
<1>50. ASSUME SetMultihomeBackend PROVE PingEndsClosed'
  BY <1>50 DEF SetMultihomeBackend
<1>51. ASSUME Published PROVE PingEndsClosed'
  BY <1>51 DEF Published
<1>52. ASSUME RaceAbort PROVE PingEndsClosed'
  BY <1>52 DEF RaceAbort
<1>53. ASSUME UNCHANGED vars PROVE PingEndsClosed'
  BY <1>53 DEF vars
<1> QED
  BY <1>1, <1>2, <1>3, <1>4, <1>5, <1>6, <1>7, <1>8, <1>9, <1>10, <1>11, <1>12, <1>13,
     <1>14, <1>15, <1>16, <1>17, <1>18, <1>19, <1>20, <1>21, <1>22, <1>23, <1>24, <1>25,
     <1>26, <1>27, <1>28, <1>29, <1>30, <1>31, <1>32, <1>33, <1>34, <1>35, <1>36, <1>37,
     <1>38, <1>39, <1>40, <1>41, <1>42, <1>43, <1>44, <1>45, <1>46, <1>47, <1>48, <1>49,
     <1>50, <1>51, <1>52, <1>53 DEF Next, Step, Aborted, LoopStep, HandlerCall, Acquire,
     HubRecv, Proceed, HubStep

\* Every step keeps one goroutine per socket inside Close.
LEMMA CloseStep == TypeOK /\ CallTyped /\ PingEndsClosed /\ CloseOnce /\ [Next]_vars => CloseOnce'
<1> SUFFICES ASSUME TypeOK, CallTyped, PingEndsClosed, CloseOnce, [Next]_vars PROVE CloseOnce'
  OBVIOUS
<1> USE HubAssumption DEF TypeOK, CallTyped, PingEndsClosed, CloseOnce, InClose, Threads, Rooms, OwnRoom, threadVars,
   stopVars, sockVars, hubCtl, hubData, backVars, LeaveEnds, Goto, Call, Return, CallFrom,
   Advance, Finish, HubTake, HubTakeMessage, HubIdle, HubApplied, PingStep
<1>1. ASSUME NEW s \in Sockets, Connect(s) PROVE CloseOnce'
  BY <1>1 DEF Connect
<1>2. ASSUME NEW s \in Sockets, StartLoop(s) PROVE CloseOnce'
  BY <1>2 DEF StartLoop
<1>3. ASSUME NEW s \in Sockets, LoopEnds(s) PROVE CloseOnce'
  BY <1>3 DEF LoopEnds
<1>4. ASSUME NEW s \in Sockets, HubRecvAdd(s) PROVE CloseOnce'
  BY <1>4 DEF HubRecvAdd
<1>5. ASSUME NEW s \in Sockets, PingTick(s) PROVE CloseOnce'
  BY <1>5 DEF PingTick
<1>6. ASSUME NEW s \in Sockets, PingWritten(s) PROVE CloseOnce'
  BY <1>6 DEF PingWritten
<1>7. ASSUME NEW t \in Handlers, CallJoin(t) PROVE CloseOnce'
  BY <1>7 DEF CallJoin
<1>8. ASSUME NEW t \in Handlers, CallLeave(t) PROVE CloseOnce'
  BY <1>8 DEF CallLeave
<1>9. ASSUME NEW t \in Handlers, CallLeaveAll(t) PROVE CloseOnce'
  BY <1>9 DEF CallLeaveAll
<1>10. ASSUME NEW t \in Handlers, CallClose(t) PROVE CloseOnce'
  BY <1>10 DEF CallClose
<1>11. ASSUME NEW t \in Handlers, CallEmit(t) PROVE CloseOnce'
  BY <1>11 DEF CallEmit
<1>12. ASSUME NEW t \in Handlers, CallServer(t) PROVE CloseOnce'
  BY <1>12 DEF CallServer
<1>13. ASSUME NEW t \in Stoppers, CallShutdown(t) PROVE CloseOnce'
  BY <1>13 DEF CallShutdown
<1>14. ASSUME NEW t \in Stoppers, HubRecvShutdown(t) PROVE CloseOnce'
  BY <1>14 DEF HubRecvShutdown
<1>15. ASSUME NEW t \in Stoppers, ShutdownClose(t) PROVE CloseOnce'
  BY <1>15 DEF ShutdownClose
<1>16. ASSUME NEW t \in Stoppers, ShutdownBackend(t) PROVE CloseOnce'
  BY <1>16 DEF ShutdownBackend
<1>17. ASSUME NEW t \in Threads, JoinLock(t) PROVE CloseOnce'
  BY <1>17 DEF JoinLock
<1>18. ASSUME NEW t \in Threads, LeaveLock(t) PROVE CloseOnce'
  BY <1>18 DEF LeaveLock
<1>19. ASSUME NEW t \in Threads, CloseFlag(t) PROVE CloseOnce'
  <2>1. CASE me[t] \in closed
    <3>1. \A u \in Threads : InClose(u)' => InClose(u) /\ me'[u] = me[u]
      BY <1>19, <2>1 DEF CloseFlag
    <3>2. closed \subseteq closed' /\ ping' = ping
      BY <1>19 DEF CloseFlag
    <3> QED
      BY <3>1, <3>2
  <2>2. CASE me[t] \notin closed
    <3>1. me' = me /\ op' = op /\ ping' = ping /\ pc' = [pc EXCEPT ![t] = "ws"]
      BY <1>19, <2>2 DEF CloseFlag
    <3>2. closed' = closed \cup {me[t]}
      BY <1>19 DEF CloseFlag
    <3>3. ASSUME NEW u \in Threads, InClose(u)' PROVE u = t \/ (InClose(u) /\ me[u] # me[t])
      BY <3>1, <3>3, <2>2
    <3>4. me[t] \in Sockets /\ ping[me[t]] # "done"
      BY <1>19, <2>2 DEF CloseFlag
    <3>5. ASSUME NEW u \in Threads, InClose(u)' PROVE me'[u] \in closed' /\ ping'[me'[u]] # "done"
      BY <3>1, <3>2, <3>3, <3>4, <3>5
    <3>6. ASSUME NEW u \in Threads, NEW v \in Threads, InClose(u)', InClose(v)', me'[u] = me'[v]
          PROVE  u = v
      BY <3>1, <3>3, <3>6
    <3> QED
      BY <3>5, <3>6
  <2> QED
    BY <2>1, <2>2
<1>20. ASSUME NEW t \in Threads, CloseSnapshot(t) PROVE CloseOnce'
  BY <1>20 DEF CloseSnapshot
<1>21. ASSUME NEW t \in Threads, EmitLock(t) PROVE CloseOnce'
  BY <1>21 DEF EmitLock
<1>22. ASSUME NEW t \in Threads, HubRecvDel(t) PROVE CloseOnce'
  BY <1>22 DEF HubRecvDel
<1>23. ASSUME NEW t \in Threads, HubRecvJoin(t) PROVE CloseOnce'
  BY <1>23 DEF HubRecvJoin
<1>24. ASSUME NEW t \in Threads, HubRecvLeave(t) PROVE CloseOnce'
  BY <1>24 DEF HubRecvLeave
<1>25. ASSUME NEW t \in Threads, HubRecvCast(t) PROVE CloseOnce'
  BY <1>25 DEF HubRecvCast
<1>26. ASSUME NEW t \in Threads, JoinReturn(t) PROVE CloseOnce'
  BY <1>26 DEF JoinReturn
<1>27. ASSUME NEW t \in Threads, LeaveReturn(t) PROVE CloseOnce'
  BY <1>27 DEF LeaveReturn
<1>28. ASSUME NEW t \in Threads, LeaveAllGoesOn(t) PROVE CloseOnce'
  BY <1>28 DEF LeaveAllGoesOn
<1>29. ASSUME NEW t \in Threads, CloseGoesOn(t) PROVE CloseOnce'
  BY <1>29 DEF CloseGoesOn
<1>30. ASSUME NEW t \in Threads, RangeNext(t) PROVE CloseOnce'
  BY <1>30 DEF RangeNext
<1>31. ASSUME NEW t \in Threads, RangeEnd(t) PROVE CloseOnce'
  BY <1>31 DEF RangeEnd
<1>32. ASSUME NEW t \in Threads, CloseWs(t) PROVE CloseOnce'
  BY <1>32 DEF CloseWs
<1>33. ASSUME NEW t \in Threads, CloseWsFails(t) PROVE CloseOnce'
  BY <1>33 DEF CloseWsFails
<1>34. ASSUME NEW t \in Threads, CloseLeaves(t) PROVE CloseOnce'
  BY <1>34 DEF CloseLeaves
<1>35. ASSUME NEW t \in Threads, CloseDisconnected(t) PROVE CloseOnce'
  BY <1>35 DEF CloseDisconnected
<1>36. ASSUME NEW t \in Threads, CloseDisconnectFails(t) PROVE CloseOnce'
  BY <1>36 DEF CloseDisconnectFails
<1>37. ASSUME NEW t \in Threads, CloseStopTicker(t) PROVE CloseOnce'
  BY <1>37 DEF CloseStopTicker
<1>38. ASSUME NEW t \in Threads, CloseStopPing(t) PROVE CloseOnce'
  BY <1>38 DEF CloseStopPing
<1>39. ASSUME NEW t \in Threads, EmitWritten(t) PROVE CloseOnce'
  BY <1>39 DEF EmitWritten
<1>40. ASSUME NEW t \in Threads, ListRead(t) PROVE CloseOnce'
  <2>1. CASE Finish(t, "socketlist", "recv")
    BY <2>1
  <2>2. CASE Finish(t, "roomlist", "recv")
    BY <2>2
  <2> QED
    BY <1>40, <2>1, <2>2 DEF ListRead
<1>41. ASSUME HubAdd PROVE CloseOnce'
  BY <1>41 DEF HubAdd
<1>42. ASSUME HubDel PROVE CloseOnce'
  BY <1>42 DEF HubDel
<1>43. ASSUME HubJoin PROVE CloseOnce'
  BY <1>43 DEF HubJoin
<1>44. ASSUME HubLeave PROVE CloseOnce'
  BY <1>44 DEF HubLeave
<1>45. ASSUME HubEmit PROVE CloseOnce'
  BY <1>45 DEF HubEmit
<1>46. ASSUME HubWritten PROVE CloseOnce'
  BY <1>46 DEF HubWritten
<1>47. ASSUME HubDispatched PROVE CloseOnce'
  BY <1>47 DEF HubDispatched
<1>48. ASSUME NEW t \in Stoppers, HubSendList(t) PROVE CloseOnce'
  BY <1>48 DEF HubSendList
<1>49. ASSUME HubRecvBackend PROVE CloseOnce'
  BY <1>49 DEF HubRecvBackend
<1>50. ASSUME SetMultihomeBackend PROVE CloseOnce'
  BY <1>50 DEF SetMultihomeBackend
<1>51. ASSUME Published PROVE CloseOnce'
  BY <1>51 DEF Published
<1>52. ASSUME RaceAbort PROVE CloseOnce'
  BY <1>52 DEF RaceAbort
<1>53. ASSUME UNCHANGED vars PROVE CloseOnce'
  BY <1>53 DEF vars
<1> QED
  BY <1>1, <1>2, <1>3, <1>4, <1>5, <1>6, <1>7, <1>8, <1>9, <1>10, <1>11, <1>12, <1>13,
     <1>14, <1>15, <1>16, <1>17, <1>18, <1>19, <1>20, <1>21, <1>22, <1>23, <1>24, <1>25,
     <1>26, <1>27, <1>28, <1>29, <1>30, <1>31, <1>32, <1>33, <1>34, <1>35, <1>36, <1>37,
     <1>38, <1>39, <1>40, <1>41, <1>42, <1>43, <1>44, <1>45, <1>46, <1>47, <1>48, <1>49,
     <1>50, <1>51, <1>52, <1>53 DEF Next, Step, Aborted, LoopStep, HandlerCall, Acquire,
     HubRecv, Proceed, HubStep

\* Every step keeps a socket to its goroutine until the hub has it.
LEMMA UnknownStep == TypeOK /\ CallTyped /\ UnknownBeforeAdd /\ [Next]_vars => UnknownBeforeAdd'
<1> SUFFICES ASSUME TypeOK, CallTyped, UnknownBeforeAdd, [Next]_vars PROVE UnknownBeforeAdd'
  OBVIOUS
<1> USE HubAssumption DEF TypeOK, CallTyped, UnknownBeforeAdd, Known, Threads, Rooms, OwnRoom, threadVars, stopVars,
   sockVars, hubCtl, hubData, backVars, LeaveEnds, Goto, Call, Return, CallFrom, Advance,
   Finish, HubTake, HubTakeMessage, HubIdle, HubApplied, PingStep
<1>1. ASSUME NEW s \in Sockets, Connect(s) PROVE UnknownBeforeAdd'
  BY <1>1 DEF Connect
<1>2. ASSUME NEW s \in Sockets, StartLoop(s) PROVE UnknownBeforeAdd'
  BY <1>2 DEF StartLoop
<1>3. ASSUME NEW s \in Sockets, LoopEnds(s) PROVE UnknownBeforeAdd'
  BY <1>3 DEF LoopEnds
<1>4. ASSUME NEW s \in Sockets, HubRecvAdd(s) PROVE UnknownBeforeAdd'
  BY <1>4 DEF HubRecvAdd
<1>5. ASSUME NEW s \in Sockets, PingTick(s) PROVE UnknownBeforeAdd'
  BY <1>5 DEF PingTick
<1>6. ASSUME NEW s \in Sockets, PingWritten(s) PROVE UnknownBeforeAdd'
  BY <1>6 DEF PingWritten
<1>7. ASSUME NEW t \in Handlers, CallJoin(t) PROVE UnknownBeforeAdd'
  BY <1>7 DEF CallJoin
<1>8. ASSUME NEW t \in Handlers, CallLeave(t) PROVE UnknownBeforeAdd'
  BY <1>8 DEF CallLeave
<1>9. ASSUME NEW t \in Handlers, CallLeaveAll(t) PROVE UnknownBeforeAdd'
  BY <1>9 DEF CallLeaveAll
<1>10. ASSUME NEW t \in Handlers, CallClose(t) PROVE UnknownBeforeAdd'
  BY <1>10 DEF CallClose
<1>11. ASSUME NEW t \in Handlers, CallEmit(t) PROVE UnknownBeforeAdd'
  BY <1>11 DEF CallEmit
<1>12. ASSUME NEW t \in Handlers, CallServer(t) PROVE UnknownBeforeAdd'
  BY <1>12 DEF CallServer
<1>13. ASSUME NEW t \in Stoppers, CallShutdown(t) PROVE UnknownBeforeAdd'
  BY <1>13 DEF CallShutdown
<1>14. ASSUME NEW t \in Stoppers, HubRecvShutdown(t) PROVE UnknownBeforeAdd'
  BY <1>14 DEF HubRecvShutdown
<1>15. ASSUME NEW t \in Stoppers, ShutdownClose(t) PROVE UnknownBeforeAdd'
  BY <1>15 DEF ShutdownClose
<1>16. ASSUME NEW t \in Stoppers, ShutdownBackend(t) PROVE UnknownBeforeAdd'
  BY <1>16 DEF ShutdownBackend
<1>17. ASSUME NEW t \in Threads, JoinLock(t) PROVE UnknownBeforeAdd'
  BY <1>17 DEF JoinLock
<1>18. ASSUME NEW t \in Threads, LeaveLock(t) PROVE UnknownBeforeAdd'
  BY <1>18 DEF LeaveLock
<1>19. ASSUME NEW t \in Threads, CloseFlag(t) PROVE UnknownBeforeAdd'
  <2>1. CASE me[t] \in closed
    BY <1>19, <2>1 DEF CloseFlag
  <2>2. CASE me[t] \notin closed
    BY <1>19, <2>2 DEF CloseFlag
  <2> QED
    BY <2>1, <2>2
<1>20. ASSUME NEW t \in Threads, CloseSnapshot(t) PROVE UnknownBeforeAdd'
  BY <1>20 DEF CloseSnapshot
<1>21. ASSUME NEW t \in Threads, EmitLock(t) PROVE UnknownBeforeAdd'
  BY <1>21 DEF EmitLock
<1>22. ASSUME NEW t \in Threads, HubRecvDel(t) PROVE UnknownBeforeAdd'
  BY <1>22 DEF HubRecvDel
<1>23. ASSUME NEW t \in Threads, HubRecvJoin(t) PROVE UnknownBeforeAdd'
  BY <1>23 DEF HubRecvJoin
<1>24. ASSUME NEW t \in Threads, HubRecvLeave(t) PROVE UnknownBeforeAdd'
  BY <1>24 DEF HubRecvLeave
<1>25. ASSUME NEW t \in Threads, HubRecvCast(t) PROVE UnknownBeforeAdd'
  BY <1>25 DEF HubRecvCast
<1>26. ASSUME NEW t \in Threads, JoinReturn(t) PROVE UnknownBeforeAdd'
  BY <1>26 DEF JoinReturn
<1>27. ASSUME NEW t \in Threads, LeaveReturn(t) PROVE UnknownBeforeAdd'
  BY <1>27 DEF LeaveReturn
<1>28. ASSUME NEW t \in Threads, LeaveAllGoesOn(t) PROVE UnknownBeforeAdd'
  BY <1>28 DEF LeaveAllGoesOn
<1>29. ASSUME NEW t \in Threads, CloseGoesOn(t) PROVE UnknownBeforeAdd'
  BY <1>29 DEF CloseGoesOn
<1>30. ASSUME NEW t \in Threads, RangeNext(t) PROVE UnknownBeforeAdd'
  BY <1>30 DEF RangeNext
<1>31. ASSUME NEW t \in Threads, RangeEnd(t) PROVE UnknownBeforeAdd'
  BY <1>31 DEF RangeEnd
<1>32. ASSUME NEW t \in Threads, CloseWs(t) PROVE UnknownBeforeAdd'
  BY <1>32 DEF CloseWs
<1>33. ASSUME NEW t \in Threads, CloseWsFails(t) PROVE UnknownBeforeAdd'
  BY <1>33 DEF CloseWsFails
<1>34. ASSUME NEW t \in Threads, CloseLeaves(t) PROVE UnknownBeforeAdd'
  BY <1>34 DEF CloseLeaves
<1>35. ASSUME NEW t \in Threads, CloseDisconnected(t) PROVE UnknownBeforeAdd'
  BY <1>35 DEF CloseDisconnected
<1>36. ASSUME NEW t \in Threads, CloseDisconnectFails(t) PROVE UnknownBeforeAdd'
  BY <1>36 DEF CloseDisconnectFails
<1>37. ASSUME NEW t \in Threads, CloseStopTicker(t) PROVE UnknownBeforeAdd'
  BY <1>37 DEF CloseStopTicker
<1>38. ASSUME NEW t \in Threads, CloseStopPing(t) PROVE UnknownBeforeAdd'
  BY <1>38 DEF CloseStopPing
<1>39. ASSUME NEW t \in Threads, EmitWritten(t) PROVE UnknownBeforeAdd'
  BY <1>39 DEF EmitWritten
<1>40. ASSUME NEW t \in Threads, ListRead(t) PROVE UnknownBeforeAdd'
  <2>1. CASE Finish(t, "socketlist", "recv")
    BY <2>1
  <2>2. CASE Finish(t, "roomlist", "recv")
    BY <2>2
  <2> QED
    BY <1>40, <2>1, <2>2 DEF ListRead
<1>41. ASSUME HubAdd PROVE UnknownBeforeAdd'
  BY <1>41 DEF HubAdd
<1>42. ASSUME HubDel PROVE UnknownBeforeAdd'
  BY <1>42 DEF HubDel
<1>43. ASSUME HubJoin PROVE UnknownBeforeAdd'
  BY <1>43 DEF HubJoin
<1>44. ASSUME HubLeave PROVE UnknownBeforeAdd'
  BY <1>44 DEF HubLeave
<1>45. ASSUME HubEmit PROVE UnknownBeforeAdd'
  BY <1>45 DEF HubEmit
<1>46. ASSUME HubWritten PROVE UnknownBeforeAdd'
  BY <1>46 DEF HubWritten
<1>47. ASSUME HubDispatched PROVE UnknownBeforeAdd'
  BY <1>47 DEF HubDispatched
<1>48. ASSUME NEW t \in Stoppers, HubSendList(t) PROVE UnknownBeforeAdd'
  BY <1>48 DEF HubSendList
<1>49. ASSUME HubRecvBackend PROVE UnknownBeforeAdd'
  BY <1>49 DEF HubRecvBackend
<1>50. ASSUME SetMultihomeBackend PROVE UnknownBeforeAdd'
  BY <1>50 DEF SetMultihomeBackend
<1>51. ASSUME Published PROVE UnknownBeforeAdd'
  BY <1>51 DEF Published
<1>52. ASSUME RaceAbort PROVE UnknownBeforeAdd'
  BY <1>52 DEF RaceAbort
<1>53. ASSUME UNCHANGED vars PROVE UnknownBeforeAdd'
  BY <1>53 DEF vars
<1> QED
  BY <1>1, <1>2, <1>3, <1>4, <1>5, <1>6, <1>7, <1>8, <1>9, <1>10, <1>11, <1>12, <1>13,
     <1>14, <1>15, <1>16, <1>17, <1>18, <1>19, <1>20, <1>21, <1>22, <1>23, <1>24, <1>25,
     <1>26, <1>27, <1>28, <1>29, <1>30, <1>31, <1>32, <1>33, <1>34, <1>35, <1>36, <1>37,
     <1>38, <1>39, <1>40, <1>41, <1>42, <1>43, <1>44, <1>45, <1>46, <1>47, <1>48, <1>49,
     <1>50, <1>51, <1>52, <1>53 DEF Next, Step, Aborted, LoopStep, HandlerCall, Acquire,
     HubRecv, Proceed, HubStep

\* Every step keeps the list of Shutdown accounted for.
LEMMA ListStep == TypeOK /\ CallTyped /\ ListCovered /\ [Next]_vars => ListCovered'
<1> SUFFICES ASSUME TypeOK, CallTyped, ListCovered, [Next]_vars PROVE ListCovered'
  OBVIOUS
<1> USE HubAssumption DEF TypeOK, CallTyped, ListCovered, Threads, Rooms, OwnRoom, threadVars, stopVars, sockVars,
   hubCtl, hubData, backVars, LeaveEnds, Goto, Call, Return, CallFrom, Advance, Finish,
   HubTake, HubTakeMessage, HubIdle, HubApplied, PingStep
<1>1. ASSUME NEW s \in Sockets, Connect(s) PROVE ListCovered'
  BY <1>1 DEF Connect
<1>2. ASSUME NEW s \in Sockets, StartLoop(s) PROVE ListCovered'
  BY <1>2 DEF StartLoop
<1>3. ASSUME NEW s \in Sockets, LoopEnds(s) PROVE ListCovered'
  BY <1>3 DEF LoopEnds
<1>4. ASSUME NEW s \in Sockets, HubRecvAdd(s) PROVE ListCovered'
  BY <1>4 DEF HubRecvAdd
<1>5. ASSUME NEW s \in Sockets, PingTick(s) PROVE ListCovered'
  BY <1>5 DEF PingTick
<1>6. ASSUME NEW s \in Sockets, PingWritten(s) PROVE ListCovered'
  BY <1>6 DEF PingWritten
<1>7. ASSUME NEW t \in Handlers, CallJoin(t) PROVE ListCovered'
  BY <1>7 DEF CallJoin
<1>8. ASSUME NEW t \in Handlers, CallLeave(t) PROVE ListCovered'
  BY <1>8 DEF CallLeave
<1>9. ASSUME NEW t \in Handlers, CallLeaveAll(t) PROVE ListCovered'
  BY <1>9 DEF CallLeaveAll
<1>10. ASSUME NEW t \in Handlers, CallClose(t) PROVE ListCovered'
  BY <1>10 DEF CallClose
<1>11. ASSUME NEW t \in Handlers, CallEmit(t) PROVE ListCovered'
  BY <1>11 DEF CallEmit
<1>12. ASSUME NEW t \in Handlers, CallServer(t) PROVE ListCovered'
  BY <1>12 DEF CallServer
<1>13. ASSUME NEW t \in Stoppers, CallShutdown(t) PROVE ListCovered'
  BY <1>13 DEF CallShutdown
<1>14. ASSUME NEW t \in Stoppers, HubRecvShutdown(t) PROVE ListCovered'
  BY <1>14 DEF HubRecvShutdown
<1>15. ASSUME NEW t \in Stoppers, ShutdownClose(t) PROVE ListCovered'
  BY <1>15 DEF ShutdownClose
<1>16. ASSUME NEW t \in Stoppers, ShutdownBackend(t) PROVE ListCovered'
  BY <1>16 DEF ShutdownBackend
<1>17. ASSUME NEW t \in Threads, JoinLock(t) PROVE ListCovered'
  BY <1>17 DEF JoinLock
<1>18. ASSUME NEW t \in Threads, LeaveLock(t) PROVE ListCovered'
  BY <1>18 DEF LeaveLock
<1>19. ASSUME NEW t \in Threads, CloseFlag(t) PROVE ListCovered'
  <2>1. CASE me[t] \in closed
    BY <1>19, <2>1 DEF CloseFlag
  <2>2. CASE me[t] \notin closed
    BY <1>19, <2>2 DEF CloseFlag
  <2> QED
    BY <2>1, <2>2
<1>20. ASSUME NEW t \in Threads, CloseSnapshot(t) PROVE ListCovered'
  BY <1>20 DEF CloseSnapshot
<1>21. ASSUME NEW t \in Threads, EmitLock(t) PROVE ListCovered'
  BY <1>21 DEF EmitLock
<1>22. ASSUME NEW t \in Threads, HubRecvDel(t) PROVE ListCovered'
  BY <1>22 DEF HubRecvDel
<1>23. ASSUME NEW t \in Threads, HubRecvJoin(t) PROVE ListCovered'
  BY <1>23 DEF HubRecvJoin
<1>24. ASSUME NEW t \in Threads, HubRecvLeave(t) PROVE ListCovered'
  BY <1>24 DEF HubRecvLeave
<1>25. ASSUME NEW t \in Threads, HubRecvCast(t) PROVE ListCovered'
  BY <1>25 DEF HubRecvCast
<1>26. ASSUME NEW t \in Threads, JoinReturn(t) PROVE ListCovered'
  BY <1>26 DEF JoinReturn
<1>27. ASSUME NEW t \in Threads, LeaveReturn(t) PROVE ListCovered'
  BY <1>27 DEF LeaveReturn
<1>28. ASSUME NEW t \in Threads, LeaveAllGoesOn(t) PROVE ListCovered'
  BY <1>28 DEF LeaveAllGoesOn
<1>29. ASSUME NEW t \in Threads, CloseGoesOn(t) PROVE ListCovered'
  BY <1>29 DEF CloseGoesOn
<1>30. ASSUME NEW t \in Threads, RangeNext(t) PROVE ListCovered'
  BY <1>30 DEF RangeNext
<1>31. ASSUME NEW t \in Threads, RangeEnd(t) PROVE ListCovered'
  BY <1>31 DEF RangeEnd
<1>32. ASSUME NEW t \in Threads, CloseWs(t) PROVE ListCovered'
  BY <1>32 DEF CloseWs
<1>33. ASSUME NEW t \in Threads, CloseWsFails(t) PROVE ListCovered'
  BY <1>33 DEF CloseWsFails
<1>34. ASSUME NEW t \in Threads, CloseLeaves(t) PROVE ListCovered'
  BY <1>34 DEF CloseLeaves
<1>35. ASSUME NEW t \in Threads, CloseDisconnected(t) PROVE ListCovered'
  BY <1>35 DEF CloseDisconnected
<1>36. ASSUME NEW t \in Threads, CloseDisconnectFails(t) PROVE ListCovered'
  BY <1>36 DEF CloseDisconnectFails
<1>37. ASSUME NEW t \in Threads, CloseStopTicker(t) PROVE ListCovered'
  BY <1>37 DEF CloseStopTicker
<1>38. ASSUME NEW t \in Threads, CloseStopPing(t) PROVE ListCovered'
  BY <1>38 DEF CloseStopPing
<1>39. ASSUME NEW t \in Threads, EmitWritten(t) PROVE ListCovered'
  BY <1>39 DEF EmitWritten
<1>40. ASSUME NEW t \in Threads, ListRead(t) PROVE ListCovered'
  <2>1. CASE Finish(t, "socketlist", "recv")
    BY <2>1
  <2>2. CASE Finish(t, "roomlist", "recv")
    BY <2>2
  <2> QED
    BY <1>40, <2>1, <2>2 DEF ListRead
<1>41. ASSUME HubAdd PROVE ListCovered'
  BY <1>41 DEF HubAdd
<1>42. ASSUME HubDel PROVE ListCovered'
  BY <1>42 DEF HubDel
<1>43. ASSUME HubJoin PROVE ListCovered'
  BY <1>43 DEF HubJoin
<1>44. ASSUME HubLeave PROVE ListCovered'
  BY <1>44 DEF HubLeave
<1>45. ASSUME HubEmit PROVE ListCovered'
  BY <1>45 DEF HubEmit
<1>46. ASSUME HubWritten PROVE ListCovered'
  BY <1>46 DEF HubWritten
<1>47. ASSUME HubDispatched PROVE ListCovered'
  BY <1>47 DEF HubDispatched
<1>48. ASSUME NEW t \in Stoppers, HubSendList(t) PROVE ListCovered'
  BY <1>48 DEF HubSendList
<1>49. ASSUME HubRecvBackend PROVE ListCovered'
  BY <1>49 DEF HubRecvBackend
<1>50. ASSUME SetMultihomeBackend PROVE ListCovered'
  BY <1>50 DEF SetMultihomeBackend
<1>51. ASSUME Published PROVE ListCovered'
  BY <1>51 DEF Published
<1>52. ASSUME RaceAbort PROVE ListCovered'
  BY <1>52 DEF RaceAbort
<1>53. ASSUME UNCHANGED vars PROVE ListCovered'
  BY <1>53 DEF vars
<1> QED
  BY <1>1, <1>2, <1>3, <1>4, <1>5, <1>6, <1>7, <1>8, <1>9, <1>10, <1>11, <1>12, <1>13,
     <1>14, <1>15, <1>16, <1>17, <1>18, <1>19, <1>20, <1>21, <1>22, <1>23, <1>24, <1>25,
     <1>26, <1>27, <1>28, <1>29, <1>30, <1>31, <1>32, <1>33, <1>34, <1>35, <1>36, <1>37,
     <1>38, <1>39, <1>40, <1>41, <1>42, <1>43, <1>44, <1>45, <1>46, <1>47, <1>48, <1>49,
     <1>50, <1>51, <1>52, <1>53 DEF Next, Step, Aborted, LoopStep, HandlerCall, Acquire,
     HubRecv, Proceed, HubStep

\* Every step keeps the registry of the hub in agreement with the goroutines.
LEMMA RegistryStep == TypeOK /\ CallTyped /\ UnknownBeforeAdd /\ RegistryAgrees /\ [Next]_vars => RegistryAgrees'
<1> SUFFICES ASSUME TypeOK, CallTyped, UnknownBeforeAdd, RegistryAgrees, [Next]_vars PROVE RegistryAgrees'
  OBVIOUS
<1> USE HubAssumption DEF TypeOK, CallTyped, UnknownBeforeAdd, RegistryAgrees, HubKnows, Online, Threads, Rooms,
   OwnRoom, threadVars, stopVars, sockVars, hubCtl, hubData, backVars, LeaveEnds, Goto,
   Call, Return, CallFrom, Advance, Finish, HubTake, HubTakeMessage, HubIdle, HubApplied,
   PingStep
<1>1. ASSUME NEW s \in Sockets, Connect(s) PROVE RegistryAgrees'
  BY SMTT(40), <1>1 DEF Connect
<1>2. ASSUME NEW s \in Sockets, StartLoop(s) PROVE RegistryAgrees'
  BY <1>2 DEF StartLoop
<1>3. ASSUME NEW s \in Sockets, LoopEnds(s) PROVE RegistryAgrees'
  BY <1>3 DEF LoopEnds
<1>4. ASSUME NEW s \in Sockets, HubRecvAdd(s) PROVE RegistryAgrees'
  BY <1>4 DEF HubRecvAdd
<1>5. ASSUME NEW s \in Sockets, PingTick(s) PROVE RegistryAgrees'
  BY <1>5 DEF PingTick
<1>6. ASSUME NEW s \in Sockets, PingWritten(s) PROVE RegistryAgrees'
  BY <1>6 DEF PingWritten
<1>7. ASSUME NEW t \in Handlers, CallJoin(t) PROVE RegistryAgrees'
  BY SMTT(40), <1>7 DEF CallJoin
<1>8. ASSUME NEW t \in Handlers, CallLeave(t) PROVE RegistryAgrees'
  BY SMTT(40), <1>8 DEF CallLeave
<1>9. ASSUME NEW t \in Handlers, CallLeaveAll(t) PROVE RegistryAgrees'
  BY <1>9 DEF CallLeaveAll
<1>10. ASSUME NEW t \in Handlers, CallClose(t) PROVE RegistryAgrees'
  BY <1>10 DEF CallClose
<1>11. ASSUME NEW t \in Handlers, CallEmit(t) PROVE RegistryAgrees'
  BY <1>11 DEF CallEmit
<1>12. ASSUME NEW t \in Handlers, CallServer(t) PROVE RegistryAgrees'
  BY <1>12 DEF CallServer
<1>13. ASSUME NEW t \in Stoppers, CallShutdown(t) PROVE RegistryAgrees'
  BY <1>13 DEF CallShutdown
<1>14. ASSUME NEW t \in Stoppers, HubRecvShutdown(t) PROVE RegistryAgrees'
  BY <1>14 DEF HubRecvShutdown
<1>15. ASSUME NEW t \in Stoppers, ShutdownClose(t) PROVE RegistryAgrees'
  BY SMTT(40), <1>15 DEF ShutdownClose
<1>16. ASSUME NEW t \in Stoppers, ShutdownBackend(t) PROVE RegistryAgrees'
  BY <1>16 DEF ShutdownBackend
<1>17. ASSUME NEW t \in Threads, JoinLock(t) PROVE RegistryAgrees'
  BY <1>17 DEF JoinLock
<1>18. ASSUME NEW t \in Threads, LeaveLock(t) PROVE RegistryAgrees'
  BY <1>18 DEF LeaveLock
<1>19. ASSUME NEW t \in Threads, CloseFlag(t) PROVE RegistryAgrees'
  <2>1. CASE me[t] \in closed
    BY <1>19, <2>1 DEF CloseFlag
  <2>2. CASE me[t] \notin closed
    BY <1>19, <2>2 DEF CloseFlag
  <2> QED
    BY <2>1, <2>2
<1>20. ASSUME NEW t \in Threads, CloseSnapshot(t) PROVE RegistryAgrees'
  BY SMTT(40), <1>20 DEF CloseSnapshot
<1>21. ASSUME NEW t \in Threads, EmitLock(t) PROVE RegistryAgrees'
  BY <1>21 DEF EmitLock
<1>22. ASSUME NEW t \in Threads, HubRecvDel(t) PROVE RegistryAgrees'
  BY <1>22 DEF HubRecvDel
<1>23. ASSUME NEW t \in Threads, HubRecvJoin(t) PROVE RegistryAgrees'
  BY <1>23 DEF HubRecvJoin
<1>24. ASSUME NEW t \in Threads, HubRecvLeave(t) PROVE RegistryAgrees'
  BY <1>24 DEF HubRecvLeave
<1>25. ASSUME NEW t \in Threads, HubRecvCast(t) PROVE RegistryAgrees'
  BY <1>25 DEF HubRecvCast
<1>26. ASSUME NEW t \in Threads, JoinReturn(t) PROVE RegistryAgrees'
  BY <1>26 DEF JoinReturn
<1>27. ASSUME NEW t \in Threads, LeaveReturn(t) PROVE RegistryAgrees'
  BY SMTT(40), <1>27 DEF LeaveReturn
<1>28. ASSUME NEW t \in Threads, LeaveAllGoesOn(t) PROVE RegistryAgrees'
  BY SMTT(40), <1>28 DEF LeaveAllGoesOn
<1>29. ASSUME NEW t \in Threads, CloseGoesOn(t) PROVE RegistryAgrees'
  BY SMTT(40), <1>29 DEF CloseGoesOn
<1>30. ASSUME NEW t \in Threads, RangeNext(t) PROVE RegistryAgrees'
  BY SMTT(40), <1>30 DEF RangeNext
<1>31. ASSUME NEW t \in Threads, RangeEnd(t) PROVE RegistryAgrees'
  BY <1>31 DEF RangeEnd
<1>32. ASSUME NEW t \in Threads, CloseWs(t) PROVE RegistryAgrees'
  BY <1>32 DEF CloseWs
<1>33. ASSUME NEW t \in Threads, CloseWsFails(t) PROVE RegistryAgrees'
  BY <1>33 DEF CloseWsFails
<1>34. ASSUME NEW t \in Threads, CloseLeaves(t) PROVE RegistryAgrees'
  BY <1>34 DEF CloseLeaves
<1>35. ASSUME NEW t \in Threads, CloseDisconnected(t) PROVE RegistryAgrees'
  BY <1>35 DEF CloseDisconnected
<1>36. ASSUME NEW t \in Threads, CloseDisconnectFails(t) PROVE RegistryAgrees'
  BY <1>36 DEF CloseDisconnectFails
<1>37. ASSUME NEW t \in Threads, CloseStopTicker(t) PROVE RegistryAgrees'
  BY <1>37 DEF CloseStopTicker
<1>38. ASSUME NEW t \in Threads, CloseStopPing(t) PROVE RegistryAgrees'
  BY <1>38 DEF CloseStopPing
<1>39. ASSUME NEW t \in Threads, EmitWritten(t) PROVE RegistryAgrees'
  BY <1>39 DEF EmitWritten
<1>40. ASSUME NEW t \in Threads, ListRead(t) PROVE RegistryAgrees'
  <2>1. CASE Finish(t, "socketlist", "recv")
    BY <2>1
  <2>2. CASE Finish(t, "roomlist", "recv")
    BY <2>2
  <2> QED
    BY <1>40, <2>1, <2>2 DEF ListRead
<1>41. ASSUME HubAdd PROVE RegistryAgrees'
  BY <1>41 DEF HubAdd
<1>42. ASSUME HubDel PROVE RegistryAgrees'
  BY <1>42 DEF HubDel
<1>43. ASSUME HubJoin PROVE RegistryAgrees'
  BY <1>43 DEF HubJoin
<1>44. ASSUME HubLeave PROVE RegistryAgrees'
  BY <1>44 DEF HubLeave
<1>45. ASSUME HubEmit PROVE RegistryAgrees'
  BY <1>45 DEF HubEmit
<1>46. ASSUME HubWritten PROVE RegistryAgrees'
  BY <1>46 DEF HubWritten
<1>47. ASSUME HubDispatched PROVE RegistryAgrees'
  BY <1>47 DEF HubDispatched
<1>48. ASSUME NEW t \in Stoppers, HubSendList(t) PROVE RegistryAgrees'
  BY <1>48 DEF HubSendList
<1>49. ASSUME HubRecvBackend PROVE RegistryAgrees'
  BY <1>49 DEF HubRecvBackend
<1>50. ASSUME SetMultihomeBackend PROVE RegistryAgrees'
  BY <1>50 DEF SetMultihomeBackend
<1>51. ASSUME Published PROVE RegistryAgrees'
  BY <1>51 DEF Published
<1>52. ASSUME RaceAbort PROVE RegistryAgrees'
  BY <1>52 DEF RaceAbort
<1>53. ASSUME UNCHANGED vars PROVE RegistryAgrees'
  BY <1>53 DEF vars
<1> QED
  BY <1>1, <1>2, <1>3, <1>4, <1>5, <1>6, <1>7, <1>8, <1>9, <1>10, <1>11, <1>12, <1>13,
     <1>14, <1>15, <1>16, <1>17, <1>18, <1>19, <1>20, <1>21, <1>22, <1>23, <1>24, <1>25,
     <1>26, <1>27, <1>28, <1>29, <1>30, <1>31, <1>32, <1>33, <1>34, <1>35, <1>36, <1>37,
     <1>38, <1>39, <1>40, <1>41, <1>42, <1>43, <1>44, <1>45, <1>46, <1>47, <1>48, <1>49,
     <1>50, <1>51, <1>52, <1>53 DEF Next, Step, Aborted, LoopStep, HandlerCall, Acquire,
     HubRecv, Proceed, HubStep

\* The inductive invariant of Close, the registry and Shutdown.
LifecycleInv ==
  /\ TypeOK /\ CallTyped
  /\ PingEndsClosed /\ CloseOnce
  /\ UnknownBeforeAdd /\ RegistryAgrees
  /\ ListCovered

LEMMA InitLifecycle == Init => LifecycleInv
<1> SUFFICES ASSUME Init
             PROVE  PingEndsClosed /\ CloseOnce /\ UnknownBeforeAdd /\ RegistryAgrees /\ ListCovered
  BY InitTyped DEF LifecycleInv
<1>1. \A t \in Threads : pc[t] \in {"new", "idle"} /\ (t \in Sockets => pc[t] = "new")
  BY DEF Init, Threads
<1>2. CloseOnce
  BY <1>1 DEF CloseOnce, InClose
<1>3. PingEndsClosed
  BY DEF Init, PingEndsClosed
<1>4. UnknownBeforeAdd
  BY HubAssumption DEF Init, UnknownBeforeAdd, Threads
<1>5. RegistryAgrees
  BY <1>1 DEF Init, RegistryAgrees, HubKnows, Online, Threads
<1>6. ListCovered
  BY DEF Init, ListCovered
<1> QED
  BY <1>2, <1>3, <1>4, <1>5, <1>6

LEMMA LifecycleHolds == Spec => []LifecycleInv
<1>1. LifecycleInv /\ [Next]_vars => LifecycleInv'
  BY TypeStep, CallStep, PingStepEnds, CloseStep, UnknownStep, RegistryStep, ListStep
     DEF LifecycleInv
<1> QED
  BY InitLifecycle, <1>1, PTL DEF Spec

\* However many goroutines close a socket, and however they interleave, one
\* at a time is past the flag, and none once Ping has ended.
THEOREM ClosedByOne == Spec => []CloseOnce
<1>1. LifecycleInv => CloseOnce
  BY DEF LifecycleInv
<1> QED
  BY LifecycleHolds, <1>1, PTL

\* The hub lists a socket exactly from addSocket to removeSocket.
THEOREM RegistryExact == Spec => []RegistryAgrees
<1>1. LifecycleInv => RegistryAgrees
  BY DEF LifecycleInv
<1> QED
  BY LifecycleHolds, <1>1, PTL

\* A Shutdown that has come to the backend has closed every socket that was
\* registered when the hub took its request.
THEOREM ShutdownClosesAll == Spec => []ShutdownCloses
<1>1. LifecycleInv => ShutdownCloses
  <2> SUFFICES ASSUME ListCovered, NEW t \in Stoppers,
                      pc[t] = "done" \/ (pc[t] = "sclose" /\ rest[t] = {}),
                      NEW s \in list[t]
               PROVE  s \in closed
    BY DEF LifecycleInv, ShutdownCloses
  <2> QED
    BY DEF ListCovered
<1> QED
  BY LifecycleHolds, <1>1, PTL

-----------------------------------------------------------------------------
(* The steps that are not the hub's                                        *)

\* The hub receives a request.
HubReceives ==
  \/ \E s \in Sockets : HubRecvAdd(s)
  \/ \E t \in Threads : HubRecv(t)
  \/ \E t \in Stoppers : HubRecvShutdown(t)
  \/ HubRecvBackend

\* Only the hub's own steps change its variables.
LEMMA OthersLeaveHub ==
  ASSUME [Next]_vars, ~HubStep, ~HubReceives
  PROVE  UNCHANGED <<hubCtl, hubData>>
<1> USE DEF threadVars, stopVars, sockVars, backVars
<1>1. ASSUME NEW s \in Sockets, Connect(s) \/ LoopStep(s) \/ PingTick(s) \/ PingWritten(s)
      PROVE  UNCHANGED <<hubCtl, hubData>>
  BY <1>1 DEF Connect, LoopStep, StartLoop, LoopEnds, PingTick, PingWritten, PingStep
<1>2. ASSUME NEW t \in Handlers, HandlerCall(t) PROVE UNCHANGED <<hubCtl, hubData>>
  BY <1>2 DEF HandlerCall, CallJoin, CallLeave, CallLeaveAll, CallClose, CallEmit, CallServer,
     CallFrom, Advance
<1>3. ASSUME NEW t \in Stoppers, CallShutdown(t) \/ ShutdownClose(t) \/ ShutdownBackend(t)
      PROVE  UNCHANGED <<hubCtl, hubData>>
  BY <1>3 DEF CallShutdown, ShutdownClose, ShutdownBackend, Advance
<1>4. ASSUME NEW t \in Threads, Acquire(t) PROVE UNCHANGED <<hubCtl, hubData>>
  BY <1>4 DEF Acquire, JoinLock, LeaveLock, CloseFlag, CloseSnapshot, EmitLock, Advance
<1>5. ASSUME NEW t \in Threads, Proceed(t) PROVE UNCHANGED <<hubCtl, hubData>>
  BY <1>5 DEF Proceed, JoinReturn, LeaveReturn, LeaveAllGoesOn, CloseGoesOn, LeaveEnds,
     RangeNext, RangeEnd, CloseWs, CloseWsFails, CloseLeaves, CloseDisconnected,
     CloseDisconnectFails, CloseStopTicker, CloseStopPing, EmitWritten, ListRead, Advance, Finish
<1>6. CASE SetMultihomeBackend \/ Published \/ RaceAbort \/ UNCHANGED vars
  BY <1>6 DEF SetMultihomeBackend, Published, RaceAbort, vars
<1> QED
  BY <1>1, <1>2, <1>3, <1>4, <1>5, <1>6 DEF Next, Step, Aborted, HubReceives

-----------------------------------------------------------------------------
(* The refinement of RoomService                                           *)
(*                                                                         *)
(* What the sockets hold (SockHas, Online) is read off from the variables  *)
(* of the hub alone, because the two agree in every reachable state: a     *)
(* step that leaves the hub alone is a stutter, and of the steps of the    *)
(* hub each is one step of the service or none.                            *)

\* The state of the service, by its variables.
In == [s \in Sockets |-> {r \in Rooms : SockHas(s, r)}]
On == {s \in Sockets : Online(s)}
To == IF hpc \in {"dispatch", "relay"} THEN hr ELSE None
Inflight == htodo \cup (IF hpc \in {"dispatch", "relay"} THEN {hs} \ {None} ELSE {})

\* The hub writes to no socket while it selects, and not again to one that
\* it has been through with.
Serving == (hpc = "select" => hs = None) /\ hs \notin htodo

ServiceInv == MembershipInv /\ LifecycleInv /\ Serving

\* Every step keeps Serving: it is about the hub alone.
LEMMA ServingStep == TypeOK /\ CallTyped /\ Serving /\ [Next]_vars => Serving'
<1> SUFFICES ASSUME TypeOK, CallTyped, Serving, [Next]_vars PROVE Serving'
  OBVIOUS
<1>1. ASSUME UNCHANGED hubCtl PROVE Serving'
  BY <1>1 DEF hubCtl, Serving
<1>2. ASSUME NEW t, NEW label, NEW request \in {"add", "del", "join", "leave", "list"}, NEW next,
             HubTake(t, label, request, next)
      PROVE  Serving'
  BY <1>2 DEF HubTake, Serving, CallTyped
<1>3. ASSUME NEW request \in {"dispatch", "relay"}, HubTakeMessage(request), hs' = hs
      PROVE  Serving'
  <2>1. hs = None /\ hpc' # "select"
    BY <1>3 DEF HubTakeMessage, Serving
  <2>2. \A r \in Rooms \cup {None}, ex \in SUBSET Sockets : None \notin Receivers(r, ex)
    BY HubAssumption DEF Receivers, TypeOK
  <2> QED
    BY <1>3, <2>1, <2>2 DEF HubTakeMessage, Serving
<1>4. ASSUME HubIdle PROVE Serving'
  BY <1>4, HubAssumption DEF HubIdle, Serving, TypeOK
<1>5. CASE HubStep
  <2>1. CASE HubAdd \/ HubDel \/ HubJoin \/ HubLeave
    BY <1>4, <2>1 DEF HubAdd, HubDel, HubJoin, HubLeave, HubApplied
  <2>2. CASE HubEmit
    BY <2>2 DEF HubEmit, Serving
  <2>3. CASE HubWritten
    BY <2>3, HubAssumption DEF HubWritten, Serving, TypeOK
  <2>4. CASE HubDispatched \/ \E t \in Stoppers : HubSendList(t)
    BY <1>4, <2>4 DEF HubDispatched, HubSendList
  <2> QED
    BY <1>5, <2>1, <2>2, <2>3, <2>4 DEF HubStep
<1>6. CASE HubReceives
  BY <1>2, <1>3, <1>6 DEF HubReceives, HubRecvAdd, HubRecv, HubRecvDel, HubRecvJoin, HubRecvLeave,
     HubRecvCast, HubRecvShutdown, HubRecvBackend
<1>7. CASE ~HubStep /\ ~HubReceives
  BY <1>1, <1>7, OthersLeaveHub
<1> QED
  BY <1>5, <1>6, <1>7

\* The sockets' view, by the hub's variables.
LEMMA HubView ==
  ASSUME RoomsAgree, RegistryAgrees
  PROVE  /\ In = [s \in Sockets |-> {r \in Rooms : HubHas(s, r)}]
         /\ On = {s \in Sockets : HubKnows(s)}
<1>1. In = [s \in Sockets |-> {r \in Rooms : HubHas(s, r)}]
  BY DEF RoomsAgree, In
<1>2. On = {s \in Sockets : HubKnows(s)}
  BY DEF RegistryAgrees, On
<1> QED
  BY <1>1, <1>2

\* Two states with the same hub membership are one to the service.
LEMMA SameRoomsSeen ==
  ASSUME RoomsAgree, RoomsAgree',
         \A s \in Sockets, r \in Rooms : HubHas(s, r)' <=> HubHas(s, r)
  PROVE  In' = In
<1>1. \A s \in Sockets, r \in Rooms : SockHas(s, r)' <=> SockHas(s, r)
  BY DEF RoomsAgree
<1> QED
  BY <1>1 DEF In

LEMMA SameSocketsSeen ==
  ASSUME RegistryAgrees, RegistryAgrees',
         \A s \in Sockets : HubKnows(s)' <=> HubKnows(s)
  PROVE  On' = On
<1>1. \A s \in Sockets : Online(s)' <=> Online(s)
  BY DEF RegistryAgrees
<1> QED
  BY <1>1 DEF On

\* A step that leaves the hub alone is a stutter of the service.
LEMMA QuietStutters ==
  ASSUME ServiceInv, ServiceInv', UNCHANGED <<hubCtl, hubData>>
  PROVE  UNCHANGED <<In, On, To, hx, Inflight>>
<1>0. RoomsAgree /\ RegistryAgrees /\ (RoomsAgree /\ RegistryAgrees)'
  BY DEF ServiceInv, MembershipInv, LifecycleInv
<1>1. /\ hpc' = hpc /\ hs' = hs /\ hr' = hr /\ hx' = hx /\ htodo' = htodo
      /\ hubSockets' = hubSockets /\ members' = members
  BY DEF hubCtl, hubData
<1>2. In' = In
  BY <1>0, <1>1, SameRoomsSeen DEF HubHas
<1>3. On' = On
  BY <1>0, <1>1, SameSocketsSeen DEF HubKnows
<1> QED
  BY <1>1, <1>2, <1>3 DEF To, Inflight

\* addSocket and removeSocket, as the hub receives them: the socket comes on
\* line, or goes.
LEMMA RecvAddComes ==
  ASSUME ServiceInv, ServiceInv', NEW s \in Sockets, HubRecvAdd(s)
  PROVE  Service!ComeOnline(s)
<1>0. /\ RoomsAgree /\ RegistryAgrees /\ (RoomsAgree /\ RegistryAgrees)'
      /\ TypeOK /\ CallTyped
  BY DEF ServiceInv, MembershipInv, LifecycleInv
<1>1. /\ hpc = "select" /\ pc[s] = "add" /\ hpc' = "add" /\ hs' = s
      /\ hx' = hx /\ htodo' = htodo /\ hubSockets' = hubSockets /\ members' = members
  BY <1>0 DEF HubRecvAdd, HubTake, hubData, CallTyped
<1>2. In' = In
  BY <1>0, <1>1, SameRoomsSeen DEF HubHas
<1>3. ~Online(s)
  BY <1>1 DEF Online
<1>4. \A u \in Sockets : HubKnows(u)' <=> HubKnows(u) \/ u = s
  BY <1>1 DEF HubKnows
<1>5. \A u \in Sockets : Online(u)' <=> Online(u) \/ u = s
  BY <1>0, <1>4 DEF RegistryAgrees
<1>6. s \notin On /\ On' = On \cup {s}
  BY <1>3, <1>5 DEF On
<1>7. htodo = {} /\ Inflight = {} /\ Inflight' = {} /\ To = None /\ To' = None
  BY <1>0, <1>1 DEF CallTyped, Inflight, To
<1> QED
  BY <1>1, <1>2, <1>6, <1>7 DEF Service!ComeOnline, Service!message, In, On, To, Inflight

LEMMA RecvDelGoes ==
  ASSUME ServiceInv, ServiceInv', NEW t \in Threads, HubRecvDel(t)
  PROVE  \E s \in Sockets : Service!GoOffline(s)
<1>0. /\ RoomsAgree /\ RegistryAgrees /\ (RoomsAgree /\ RegistryAgrees)'
      /\ TypeOK /\ CallTyped /\ CloseOnce /\ UnknownBeforeAdd
  BY DEF ServiceInv, MembershipInv, LifecycleInv
<1>1. PICK s \in Sockets : me[t] = s
  BY <1>0 DEF HubRecvDel, HubTake, CallTyped
<1>2. /\ hpc = "select" /\ pc[t] = "del" /\ hpc' = "del" /\ hs' = s
      /\ hx' = hx /\ htodo' = htodo /\ hubSockets' = hubSockets /\ members' = members
  BY <1>1 DEF HubRecvDel, HubTake, hubData
<1>3. In' = In
  BY <1>0, <1>2, SameRoomsSeen DEF HubHas
<1>4. Online(s)
  <2>1. InClose(t)
    BY <1>2 DEF InClose
  <2>2. ping[s] # "done" /\ \A u \in Threads : InClose(u) /\ me[u] = s => u = t
    BY <1>0, <1>1, <2>1 DEF CloseOnce
  <2>3. \A u \in Threads : me[u] = s => pc[u] \notin {"stop", "tick"}
    BY <1>2, <2>2 DEF InClose
  <2>4. pc[s] \notin {"new", "add"}
    BY <1>0, <1>1, <1>2 DEF UnknownBeforeAdd
  <2> QED
    BY <2>2, <2>3, <2>4 DEF Online
<1>5. \A u \in Sockets : HubKnows(u)' <=> HubKnows(u) /\ u # s
  BY <1>2 DEF HubKnows
<1>6. \A u \in Sockets : Online(u)' <=> Online(u) /\ u # s
  BY <1>0, <1>5 DEF RegistryAgrees
<1>7. s \in On /\ On' = On \ {s}
  BY <1>4, <1>6 DEF On
<1>8. htodo = {} /\ Inflight = {} /\ Inflight' = {} /\ To = None /\ To' = None
  BY <1>0, <1>2 DEF CallTyped, Inflight, To
<1>9. Service!GoOffline(s)
  BY <1>2, <1>3, <1>7, <1>8 DEF Service!GoOffline, Service!message, In, On, To, Inflight
<1> QED
  BY <1>9

\* Join and Leave, as the hub receives them: the membership changes at once.
LEMMA RecvJoinJoins ==
  ASSUME ServiceInv, ServiceInv', NEW t \in Threads, HubRecvJoin(t)
  PROVE  \E s \in Sockets, r \in Rooms : Service!Join(s, r)
<1>0. /\ RoomsAgree /\ RegistryAgrees /\ (RoomsAgree /\ RegistryAgrees)'
      /\ TypeOK /\ CallTyped
  BY DEF ServiceInv, MembershipInv, LifecycleInv
<1>1. PICK s \in Sockets, r \in Rooms : me[t] = s /\ arg[t] = r
  BY <1>0 DEF HubRecvJoin, HubTake, CallTyped
<1>2. /\ hpc = "select" /\ hpc' = "join" /\ hs' = s /\ hr' = r
      /\ hx' = hx /\ htodo' = htodo /\ hubSockets' = hubSockets /\ members' = members
  BY <1>1 DEF HubRecvJoin, HubTake, hubData
<1>3. On' = On
  BY <1>0, <1>2, SameSocketsSeen DEF HubKnows
<1>4. \A u \in Sockets, q \in Rooms : HubHas(u, q)' <=> HubHas(u, q) \/ (u = s /\ q = r)
  BY <1>2 DEF HubHas
<1>5. \A u \in Sockets, q \in Rooms : SockHas(u, q)' <=> SockHas(u, q) \/ (u = s /\ q = r)
  BY <1>0, <1>4 DEF RoomsAgree
<1>6. In' = [In EXCEPT ![s] = @ \cup {r}]
  BY <1>5 DEF In
<1>7. htodo = {} /\ Inflight = {} /\ Inflight' = {} /\ To = None /\ To' = None
  BY <1>0, <1>2 DEF CallTyped, Inflight, To
<1>8. Service!Join(s, r)
  BY <1>2, <1>3, <1>6, <1>7 DEF Service!Join, Service!message, In, On, To, Inflight
<1> QED
  BY <1>8

LEMMA RecvLeaveLeaves ==
  ASSUME ServiceInv, ServiceInv', NEW t \in Threads, HubRecvLeave(t)
  PROVE  \E s \in Sockets, r \in Rooms : Service!Leave(s, r)
<1>0. /\ RoomsAgree /\ RegistryAgrees /\ (RoomsAgree /\ RegistryAgrees)'
      /\ TypeOK /\ CallTyped
  BY DEF ServiceInv, MembershipInv, LifecycleInv
<1>1. PICK s \in Sockets, r \in Rooms : me[t] = s /\ arg[t] = r
  BY <1>0 DEF HubRecvLeave, HubTake, CallTyped
<1>2. /\ hpc = "select" /\ hpc' = "leave" /\ hs' = s /\ hr' = r
      /\ hx' = hx /\ htodo' = htodo /\ hubSockets' = hubSockets /\ members' = members
  BY <1>1 DEF HubRecvLeave, HubTake, hubData
<1>3. On' = On
  BY <1>0, <1>2, SameSocketsSeen DEF HubKnows
<1>4. \A u \in Sockets, q \in Rooms : HubHas(u, q)' <=> HubHas(u, q) /\ ~(u = s /\ q = r)
  BY <1>2 DEF HubHas
<1>5. \A u \in Sockets, q \in Rooms : SockHas(u, q)' <=> SockHas(u, q) /\ ~(u = s /\ q = r)
  BY <1>0, <1>4 DEF RoomsAgree
<1>6. In' = [In EXCEPT ![s] = @ \ {r}]
  BY <1>5 DEF In
<1>7. htodo = {} /\ Inflight = {} /\ Inflight' = {} /\ To = None /\ To' = None
  BY <1>0, <1>2 DEF CallTyped, Inflight, To
<1>8. Service!Leave(s, r)
  BY <1>2, <1>3, <1>6, <1>7 DEF Service!Leave, Service!message, In, On, To, Inflight
<1> QED
  BY <1>8

\* A message from the application or from the backend: its receivers, which
\* the hub takes from its own maps, are those whose sockets say so.
LEMMA RecvMessageCasts ==
  ASSUME ServiceInv, ServiceInv', NEW request \in {"dispatch", "relay"}, HubTakeMessage(request),
         hs' = hs, UNCHANGED hubData
  PROVE  \E r \in Rooms \cup {None}, ex \in SUBSET Sockets : Service!Cast(r, ex)
<1>0. /\ RoomsAgree /\ RegistryAgrees /\ (RoomsAgree /\ RegistryAgrees)'
      /\ TypeOK /\ CallTyped /\ NoEmptyRoom /\ Serving
  BY DEF ServiceInv, MembershipInv, LifecycleInv
<1>1. PICK r \in Rooms \cup {None}, ex \in SUBSET Sockets :
        hr' = r /\ hx' = ex /\ htodo' = Receivers(r, ex)
  BY DEF HubTakeMessage
<1>2. /\ hpc = "select" /\ hpc' = request /\ hs = None /\ hs' = None
      /\ hubSockets' = hubSockets /\ members' = members
  BY <1>0 DEF HubTakeMessage, hubData, Serving
<1>3. In' = In
  BY <1>0, <1>2, SameRoomsSeen DEF HubHas
<1>4. On' = On
  BY <1>0, <1>2, SameSocketsSeen DEF HubKnows
<1>5. On = hubSockets
  BY <1>0, <1>2, HubView DEF HubKnows, TypeOK
<1>6. ASSUME r # None PROVE {m \in Sockets : r \in In[m]} = IF r \in hubRooms THEN members[r] ELSE {}
  <2>1. r \in Rooms /\ members[r] \subseteq Sockets
    BY <1>6 DEF TypeOK, ServiceInv, MembershipInv
  <2>2. \A m \in Sockets : r \in In[m] <=> HubHas(m, r)
    BY <1>0, <2>1 DEF In, RoomsAgree
  <2>3. \A m \in Sockets : HubHas(m, r) <=> m \in members[r]
    BY <1>2 DEF HubHas
  <2>4. r \notin hubRooms => members[r] = {}
    BY <1>0, <2>1 DEF NoEmptyRoom
  <2> QED
    BY <2>1, <2>2, <2>3, <2>4
<1>7. Receivers(r, ex) = {s \in (IF r = None THEN On ELSE {m \in Sockets : r \in In[m]}) : s \notin ex}
  BY <1>5, <1>6 DEF Receivers
<1>8. htodo = {} /\ Inflight = {} /\ Inflight' = Receivers(r, ex) /\ To' = r
  BY <1>0, <1>1, <1>2 DEF CallTyped, Inflight, To
<1>9. Service!Cast(r, ex)
  BY <1>1, <1>3, <1>4, <1>7, <1>8 DEF Service!Cast, In, On, To, Inflight
<1> QED
  BY <1>9

\* The hub carries out a request about a socket or a room that the service
\* has seen already.
LEMMA ApplyStutters ==
  ASSUME ServiceInv, ServiceInv', HubAdd \/ HubDel \/ HubJoin \/ HubLeave
  PROVE  UNCHANGED <<In, On, To, hx, Inflight>>
<1>0. /\ RoomsAgree /\ RegistryAgrees /\ (RoomsAgree /\ RegistryAgrees)'
      /\ TypeOK /\ CallTyped /\ NoEmptyRoom
  BY DEF ServiceInv, MembershipInv, LifecycleInv
<1>1. hpc \in {"add", "del", "join", "leave"} /\ hpc' = "select" /\ hx' = {} /\ htodo' = htodo
  BY DEF HubAdd, HubDel, HubJoin, HubLeave, HubApplied, HubIdle
<1>2. htodo = {} /\ hx = {}
  BY <1>0, <1>1 DEF CallTyped
<1>3. In' = In
  <2>1. ASSUME NEW s \in Sockets, NEW r \in Rooms PROVE HubHas(s, r)' <=> HubHas(s, r)
    <3>1. CASE HubAdd \/ HubDel
      BY <1>1, <3>1 DEF HubAdd, HubDel, HubHas
    <3>2. CASE HubJoin
      BY <1>0, <1>1, <3>2 DEF HubJoin, HubHas, TypeOK, CallTyped
    <3>3. CASE HubLeave
      <4>1. s \in members'[r] <=> s \in members[r] /\ ~(hs = s /\ hr = r)
        BY <1>0, <3>3 DEF HubLeave, NoEmptyRoom, TypeOK, CallTyped
      <4> QED
        BY <1>1, <3>3, <4>1 DEF HubLeave, HubHas
    <3> QED
      BY <3>1, <3>2, <3>3
  <2> QED
    BY <1>0, <2>1, SameRoomsSeen
<1>4. On' = On
  <2>1. \A s \in Sockets : HubKnows(s)' <=> HubKnows(s)
    BY <1>1 DEF HubAdd, HubDel, HubJoin, HubLeave, HubKnows
  <2> QED
    BY <1>0, <2>1, SameSocketsSeen
<1> QED
  BY <1>1, <1>2, <1>3, <1>4 DEF To, Inflight

\* The hub dispatches: a receiver is served when the write to it has ended.
LEMMA EmitStutters ==
  ASSUME ServiceInv, ServiceInv', HubEmit
  PROVE  UNCHANGED <<In, On, To, hx, Inflight>>
<1>0. /\ RoomsAgree /\ RegistryAgrees /\ (RoomsAgree /\ RegistryAgrees)'
      /\ TypeOK
  BY DEF ServiceInv, MembershipInv, LifecycleInv
<1>1. PICK s \in htodo : hs' = s /\ htodo' = htodo \ {s}
  BY DEF HubEmit
<1>2. /\ hpc \in {"dispatch", "relay"} /\ hpc' = hpc /\ hs = None /\ hr' = hr /\ hx' = hx
      /\ hubSockets' = hubSockets /\ members' = members
  BY DEF HubEmit, hubData
<1>3. In' = In
  BY <1>0, <1>2, SameRoomsSeen DEF HubHas
<1>4. On' = On
  BY <1>0, <1>2, SameSocketsSeen DEF HubKnows
<1>5. s # None
  BY <1>0, HubAssumption DEF TypeOK
<1> QED
  BY <1>1, <1>2, <1>3, <1>4, <1>5 DEF To, Inflight

LEMMA WrittenDelivers ==
  ASSUME ServiceInv, ServiceInv', HubWritten
  PROVE  \E s \in Sockets : Service!Deliver(s)
<1>0. /\ RoomsAgree /\ RegistryAgrees /\ (RoomsAgree /\ RegistryAgrees)'
      /\ TypeOK /\ Serving
  BY DEF ServiceInv, MembershipInv, LifecycleInv
<1>1. /\ hpc \in {"dispatch", "relay"} /\ hpc' = hpc /\ hs # None /\ hs' = None
      /\ hr' = hr /\ hx' = hx /\ htodo' = htodo
      /\ hubSockets' = hubSockets /\ members' = members
  BY DEF HubWritten, hubData
<1>2. PICK s \in Sockets : hs = s
  BY <1>0, <1>1 DEF TypeOK
<1>3. In' = In
  BY <1>0, <1>1, SameRoomsSeen DEF HubHas
<1>4. On' = On
  BY <1>0, <1>1, SameSocketsSeen DEF HubKnows
<1>5. s \in Inflight /\ Inflight' = Inflight \ {s} /\ To' = To
  BY <1>0, <1>1, <1>2 DEF Inflight, To, Serving
<1>6. Service!Deliver(s)
  BY <1>1, <1>3, <1>4, <1>5 DEF Service!Deliver, In, On, To, Inflight
<1> QED
  BY <1>6

LEMMA DispatchedFinishes ==
  ASSUME ServiceInv, ServiceInv', HubDispatched
  PROVE  Service!Finish
<1>0. /\ RoomsAgree /\ RegistryAgrees /\ (RoomsAgree /\ RegistryAgrees)'
  BY DEF ServiceInv, MembershipInv, LifecycleInv
<1>1. /\ hpc \in {"dispatch", "relay"} /\ hpc' = "select" /\ hs = None /\ hs' = None
      /\ htodo = {} /\ htodo' = {} /\ hx' = {}
      /\ hubSockets' = hubSockets /\ members' = members
  BY DEF HubDispatched, HubIdle, hubData
<1>2. In' = In
  BY <1>0, <1>1, SameRoomsSeen DEF HubHas
<1>3. On' = On
  BY <1>0, <1>1, SameSocketsSeen DEF HubKnows
<1>4. Inflight = {} /\ Inflight' = {} /\ To' = None
  BY <1>1 DEF Inflight, To
<1> QED
  BY <1>1, <1>2, <1>3, <1>4 DEF Service!Finish, In, On, To, Inflight

\* Shutdown's request for the list, and the answer.
LEMMA ListStutters ==
  ASSUME ServiceInv, ServiceInv', NEW t \in Stoppers, HubRecvShutdown(t) \/ HubSendList(t)
  PROVE  UNCHANGED <<In, On, To, hx, Inflight>>
<1>0. /\ RoomsAgree /\ RegistryAgrees /\ (RoomsAgree /\ RegistryAgrees)'
      /\ CallTyped
  BY DEF ServiceInv, MembershipInv, LifecycleInv
<1>1. /\ hpc \in {"select", "list"} /\ hpc' \in {"select", "list"} /\ htodo' = htodo
      /\ hx' \in {hx, {}}
      /\ hubSockets' = hubSockets /\ members' = members
  BY DEF HubRecvShutdown, HubTake, HubSendList, HubIdle, hubData
<1>2. htodo = {} /\ hx = {}
  BY <1>0, <1>1 DEF CallTyped
<1>3. In' = In
  BY <1>0, <1>1, SameRoomsSeen DEF HubHas
<1>4. On' = On
  BY <1>0, <1>1, SameSocketsSeen DEF HubKnows
<1> QED
  BY <1>1, <1>2, <1>3, <1>4 DEF To, Inflight

\* Every step of the hub, of the sockets and of their callers is a step of
\* the service, or none.
LEMMA ServiceStep ==
  ASSUME ServiceInv, ServiceInv', [Next]_vars
  PROVE  [Service!Next]_(Service!abstractVars)
<1> DEFINE Stutter == UNCHANGED <<In, On, To, hx, Inflight>>
<1>0. Stutter => UNCHANGED Service!abstractVars
  BY DEF Service!abstractVars, In, On, To, Inflight
<1>1. CASE ~HubStep /\ ~HubReceives
  BY <1>0, <1>1, OthersLeaveHub, QuietStutters
<1>2. CASE HubStep
  <2>1. CASE HubAdd \/ HubDel \/ HubJoin \/ HubLeave
    BY <1>0, <2>1, ApplyStutters
  <2>2. CASE HubEmit
    BY <1>0, <2>2, EmitStutters
  <2>3. CASE HubWritten
    BY <2>3, WrittenDelivers DEF Service!Next
  <2>4. CASE HubDispatched
    BY <2>4, DispatchedFinishes DEF Service!Next
  <2>5. ASSUME NEW t \in Stoppers, HubSendList(t) PROVE Stutter
    BY <2>5, ListStutters
  <2> QED
    BY <1>0, <1>2, <2>1, <2>2, <2>3, <2>4, <2>5 DEF HubStep
<1>3. CASE HubReceives
  <2>1. ASSUME NEW s \in Sockets, HubRecvAdd(s) PROVE Service!Next
    BY <2>1, RecvAddComes DEF Service!Next
  <2>2. ASSUME NEW t \in Threads, HubRecvDel(t) PROVE Service!Next
    BY <2>2, RecvDelGoes DEF Service!Next
  <2>3. ASSUME NEW t \in Threads, HubRecvJoin(t) PROVE Service!Next
    BY <2>3, RecvJoinJoins DEF Service!Next
  <2>4. ASSUME NEW t \in Threads, HubRecvLeave(t) PROVE Service!Next
    BY <2>4, RecvLeaveLeaves DEF Service!Next
  <2>5. ASSUME NEW t \in Threads, HubRecvCast(t) PROVE Service!Next
    BY <2>5, RecvMessageCasts DEF HubRecvCast, Service!Next
  <2>6. ASSUME HubRecvBackend PROVE Service!Next
    BY <2>6, RecvMessageCasts DEF HubRecvBackend, Service!Next
  <2>7. ASSUME NEW t \in Stoppers, HubRecvShutdown(t) PROVE Stutter
    BY <2>7, ListStutters
  <2> QED
    BY <1>0, <1>3, <2>1, <2>2, <2>3, <2>4, <2>5, <2>6, <2>7 DEF HubReceives, HubRecv
<1> QED
  BY <1>1, <1>2, <1>3

\* The hub, the sockets and whoever calls them implement RoomService: a
\* message goes to exactly the sockets that are, by their own account, in
\* its room at the instant the hub takes it, and the membership and the
\* registry do not move while it is delivered.
THEOREM ServiceImplemented == Spec => ImplementsRoomService
<1>1. Init => Service!Init
  <2> SUFFICES ASSUME Init PROVE Service!Init
    OBVIOUS
  <2>1. \A t \in Threads : pc[t] \in {"new", "idle"} /\ (t \in Sockets => pc[t] = "new")
    BY DEF Init, Threads
  <2>2. /\ \A s \in Sockets : ~Online(s)
        /\ \A s \in Sockets, r \in Rooms : ~SockHas(s, r)
    <3>1. ASSUME NEW s \in Sockets PROVE ~Online(s)
      BY <2>1 DEF Online, Threads
    <3>2. ASSUME NEW s \in Sockets, NEW r \in Rooms PROVE ~SockHas(s, r)
      <4>1. rooms[s] = {}
        BY DEF Init
      <4> QED
        BY <2>1, <4>1 DEF SockHas
    <3> QED
      BY <3>1, <3>2
  <2>3. /\ [s \in Sockets |-> {r \in Rooms : SockHas(s, r)}] = [s \in Sockets |-> {}]
        /\ {s \in Sockets : Online(s)} = {}
    BY <2>2
  <2> QED
    BY <2>3 DEF Init, Service!Init
<1>2. Init => Serving
  BY DEF Init, Serving
<1>3. Spec => []ServiceInv
  <2>1. MembershipInv /\ Serving /\ [Next]_vars => Serving'
    BY ServingStep DEF MembershipInv
  <2> QED
    BY <1>2, <2>1, MembershipHolds, LifecycleHolds, PTL DEF Spec, ServiceInv
<1>4. ServiceInv /\ ServiceInv' /\ [Next]_vars => [Service!Next]_(Service!abstractVars)
  BY ServiceStep
<1> QED
  BY <1>1, <1>3, <1>4, PTL DEF Spec, ImplementsRoomService, Service!Spec

=============================================================================
