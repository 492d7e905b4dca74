---------------------------- MODULE WsConnProofs ----------------------------
(***************************************************************************)
(* The body of Conn.close runs once, for any number of goroutines of the   *)
(* application.  ClosedOnce is not inductive: what it needs is that c.mu   *)
(* is had by one goroutine at a time, and that the flag is set by whoever  *)
(* runs the body, before anybody else gets to test it (Flagged).  And the  *)
(* end of a connection is reported, unless it was closed at this end.      *)
(***************************************************************************)
EXTENDS WsConn, TLAPS

\* Labels within the body of close, where c.mu is held.
Body == {"cframe", "cnet"}

\* The program counters are labels, and no goroutine returns into the body.
Labelled ==
  /\ pc \in [Threads -> Labels]
  /\ after \in [Threads -> {"idle", "check", "cleanup", "arm", "done"}]

\* The flag c.closed counts the runs of the body, and is set while one is
\* under way.
Flagged ==
  /\ closed \in BOOLEAN
  /\ closed => bodies = 1
  /\ ~closed => bodies = 0
  /\ \A t \in Threads : pc[t] \in Body => closed

\* The inductive invariant.
OnceInv == Labelled /\ Flagged /\ ClosedOnce

\* What every step but the entry into the body does: the program counters
\* stay labels, and nobody gets into the body who was not in it.
StaysOut ==
  /\ Labelled'
  /\ \A u \in Threads : pc'[u] \in Body => pc[u] \in Body

\* The inductive invariant holds at the start: nobody has closed.
LEMMA OnceInit == Init => OnceInv
  <1> SUFFICES ASSUME Init PROVE OnceInv OBVIOUS
  <1>1. Labelled BY DEF Init, Labelled, Labels, Labels
  <1>2. \A t \in Threads : pc[t] \notin Body BY DEF Init, Body
  <1>3. closed = FALSE /\ bodies = 0 BY Zenon DEF Init
  <1>4. Flagged BY <1>2, <1>3 DEF Flagged
  <1>5. ClosedOnce BY <1>2, <1>3 DEF ClosedOnce, Body
  <1> QED BY <1>1, <1>4, <1>5 DEF OnceInv

\* A step that takes nobody into the body, and leaves the flag and the
\* count alone, keeps the invariant.
LEMMA OutKeeps ==
  ASSUME OnceInv, StaysOut, UNCHANGED <<closed, bodies>>
  PROVE  OnceInv'
  <1>1. Labelled' BY DEF StaysOut
  <1>2. Flagged' BY DEF OnceInv, StaysOut, Flagged
  <1>3. ClosedOnce' BY DEF OnceInv, StaysOut, ClosedOnce, Body
  <1> QED BY <1>1, <1>2, <1>3 DEF OnceInv

\* The steps of a write or a close: the body is entered by a goroutine that
\* finds c.mu free and the flag not set.
LEMMA CallKeeps ==
  ASSUME OnceInv, NEW t \in Threads, CallStep(t)
  PROVE  OnceInv'
  <1>0. after[t] \in Labels \ Body BY DEF OnceInv, Labelled, Labels, Body
  <1>1. CASE WriteDone(t)
    <2>1. StaysOut BY <1>0, <1>1 DEF WriteDone, Goto, OnceInv, Labelled, StaysOut, Body, Labels
    <2>2. UNCHANGED <<closed, bodies>> BY Zenon, <1>1 DEF WriteDone
    <2> QED BY <2>1, <2>2, OutKeeps
  <1>2. CASE WriteFails(t)
    <2>1. StaysOut BY <1>0, <1>2 DEF WriteFails, Goto, OnceInv, Labelled, StaysOut, Body, Labels
    <2>2. UNCHANGED <<closed, bodies>> BY Zenon, <1>2 DEF WriteFails
    <2> QED BY <2>1, <2>2, OutKeeps
  <1>3. CASE CloseEnter(t) /\ closed
    <2>1. pc' = [pc EXCEPT ![t] = after[t]] /\ after' = after
      BY <1>3 DEF CloseEnter, Goto
    <2>2. StaysOut BY <1>0, <2>1 DEF OnceInv, Labelled, StaysOut, Body, Labels
    <2>3. UNCHANGED <<closed, bodies>> BY Zenon, <1>3 DEF CloseEnter
    <2> QED BY <2>2, <2>3, OutKeeps
  <1>4. CASE CloseEnter(t) /\ ~closed
    <2>1. pc' = [pc EXCEPT ![t] = "cframe"] /\ after' = after
      BY <1>4 DEF CloseEnter, Goto
    <2>2. closed' = TRUE /\ bodies' = bodies + 1 BY Zenon, <1>4 DEF CloseEnter
    <2>3. bodies' = 1 BY <1>4, <2>2 DEF OnceInv, Flagged
    <2>4. \A u \in Threads : pc'[u] \in Body => u = t
      BY <1>4, <2>1 DEF CloseEnter, Unlocked, OnceInv, Labelled, Body, Labels
    <2>5. Labelled' BY <2>1 DEF OnceInv, Labelled, Body, Labels
    <2>6. Flagged' BY <2>2, <2>3 DEF Flagged
    <2>7. ClosedOnce' BY <2>3, <2>4 DEF ClosedOnce, Body
    <2> QED BY <2>5, <2>6, <2>7 DEF OnceInv
  <1>5. CASE CloseFrame(t)
    <2>1. StaysOut BY <1>0, <1>5 DEF CloseFrame, Advance, Goto, OnceInv, Labelled, StaysOut, Body, Labels
    <2>2. UNCHANGED <<closed, bodies>> BY Zenon, <1>5 DEF CloseFrame, Advance
    <2> QED BY <2>1, <2>2, OutKeeps
  <1>6. CASE CloseNet(t)
    <2>1. StaysOut BY <1>0, <1>6 DEF CloseNet, Goto, OnceInv, Labelled, StaysOut, Body, Labels
    <2>2. UNCHANGED <<closed, bodies>> BY Zenon, <1>6 DEF CloseNet
    <2> QED BY <2>1, <2>2, OutKeeps
  <1> QED BY <1>1, <1>2, <1>3, <1>4, <1>5, <1>6 DEF CallStep

\* Reads and handlers: the reader never enters the body but by CallStep.
LEMMA ReaderKeeps ==
  ASSUME OnceInv, ReaderStep \/ ReadMessage \/ ReadFails \/ OnMessageWrites
  PROVE  OnceInv'
  <1>0. Reader \in Threads BY DEF Threads
  <1>1. CASE CallStep(Reader) BY <1>0, <1>1, CallKeeps
  <1>2. CASE ReaderCheck
    <2>1. StaysOut BY <1>0, <1>2 DEF ReaderCheck, Advance, Goto, OnceInv, Labelled, StaysOut, Body, Labels
    <2>2. UNCHANGED <<closed, bodies>> BY Zenon, <1>2 DEF ReaderCheck, Advance
    <2> QED BY <2>1, <2>2, OutKeeps
  <1>3. CASE ReaderError
    <2>1. StaysOut BY <1>0, <1>3 DEF ReaderError, Goto, OnceInv, Labelled, StaysOut, Body, Labels
    <2>2. UNCHANGED <<closed, bodies>> BY Zenon, <1>3 DEF ReaderError
    <2> QED BY <2>1, <2>2, OutKeeps
  <1>4. CASE OnPing
    <2>1. StaysOut BY <1>0, <1>4 DEF OnPing, Enter, Goto, OnceInv, Labelled, StaysOut, Body, Labels
    <2>2. UNCHANGED <<closed, bodies>> BY Zenon, <1>4 DEF OnPing, Enter
    <2> QED BY <2>1, <2>2, OutKeeps
  <1>5. CASE OnPong
    <2>1. StaysOut BY <1>0, <1>5 DEF OnPong, Goto, OnceInv, Labelled, StaysOut, Body, Labels
    <2>2. UNCHANGED <<closed, bodies>> BY Zenon, <1>5 DEF OnPong
    <2> QED BY <2>1, <2>2, OutKeeps
  <1>6. CASE OnMessage
    <2>1. StaysOut BY <1>0, <1>6 DEF OnMessage, Advance, Goto, OnceInv, Labelled, StaysOut, Body, Labels
    <2>2. UNCHANGED <<closed, bodies>> BY Zenon, <1>6 DEF OnMessage, Advance
    <2> QED BY <2>1, <2>2, OutKeeps
  <1>7. CASE OnClose
    <2>1. StaysOut BY <1>0, <1>7 DEF OnClose, Goto, OnceInv, Labelled, StaysOut, Body, Labels
    <2>2. UNCHANGED <<closed, bodies>> BY Zenon, <1>7 DEF OnClose
    <2> QED BY <2>1, <2>2, OutKeeps
  <1>8. CASE Cleanup
    <2>1. StaysOut BY <1>0, <1>8 DEF Cleanup, Goto, OnceInv, Labelled, StaysOut, Body, Labels
    <2>2. UNCHANGED <<closed, bodies>> BY Zenon, <1>8 DEF Cleanup
    <2> QED BY <2>1, <2>2, OutKeeps
  <1>9. CASE ReadFails
    <2>1. StaysOut BY <1>0, <1>9 DEF ReadFails, Advance, Goto, OnceInv, Labelled, StaysOut, Body, Labels
    <2>2. UNCHANGED <<closed, bodies>> BY Zenon, <1>9 DEF ReadFails, Advance
    <2> QED BY <2>1, <2>2, OutKeeps
  <1>10. CASE ReadMessage
    <2>1. StaysOut BY <1>0, <1>10 DEF ReadMessage, Advance, Goto, OnceInv, Labelled, StaysOut, Body, Labels
    <2>2. UNCHANGED <<closed, bodies>> BY Zenon, <1>10 DEF ReadMessage, Advance
    <2> QED BY <2>1, <2>2, OutKeeps
  <1>11. CASE OnMessageWrites
    <2>1. StaysOut BY <1>0, <1>11 DEF OnMessageWrites, Enter, Goto, OnceInv, Labelled, StaysOut, Body, Labels
    <2>2. UNCHANGED <<closed, bodies>> BY Zenon, <1>11 DEF OnMessageWrites, Enter
    <2> QED BY <2>1, <2>2, OutKeeps
  <1> QED BY <1>1, <1>2, <1>3, <1>4, <1>5, <1>6, <1>7, <1>8, <1>9, <1>10, <1>11 DEF ReaderStep

\* So does the keep-alive.
LEMMA KeeperKeeps ==
  ASSUME OnceInv, KeeperStep
  PROVE  OnceInv'
  <1>0. Keeper \in Threads BY DEF Threads
  <1>1. CASE CallStep(Keeper) BY <1>0, <1>1, CallKeeps
  <1>2. CASE KeepAliveTick
    <2>1. StaysOut BY <1>0, <1>2 DEF KeepAliveTick, Goto, OnceInv, Labelled, StaysOut, Body, Labels
    <2>2. UNCHANGED <<closed, bodies>> BY Zenon, <1>2 DEF KeepAliveTick
    <2> QED BY <2>1, <2>2, OutKeeps
  <1>3. CASE KeepAliveStop
    <2>1. StaysOut BY <1>0, <1>3 DEF KeepAliveStop, Advance, Goto, OnceInv, Labelled, StaysOut, Body, Labels
    <2>2. UNCHANGED <<closed, bodies>> BY Zenon, <1>3 DEF KeepAliveStop, Advance
    <2> QED BY <2>1, <2>2, OutKeeps
  <1>4. CASE KeepAliveClosed
    <2>1. StaysOut BY <1>0, <1>4 DEF KeepAliveClosed, Advance, Goto, OnceInv, Labelled, StaysOut, Body, Labels
    <2>2. UNCHANGED <<closed, bodies>> BY Zenon, <1>4 DEF KeepAliveClosed, Advance
    <2> QED BY <2>1, <2>2, OutKeeps
  <1>5. CASE KeepAlivePing
    <2>1. StaysOut BY <1>0, <1>5 DEF KeepAlivePing, Enter, Goto, OnceInv, Labelled, StaysOut, Body, Labels
    <2>2. UNCHANGED <<closed, bodies>> BY Zenon, <1>5 DEF KeepAlivePing, Enter
    <2> QED BY <2>1, <2>2, OutKeeps
  <1>6. CASE KeepAliveArm
    <2>1. StaysOut BY <1>0, <1>6 DEF KeepAliveArm, Goto, OnceInv, Labelled, StaysOut, Body, Labels
    <2>2. UNCHANGED <<closed, bodies>> BY Zenon, <1>6 DEF KeepAliveArm
    <2> QED BY <2>1, <2>2, OutKeeps
  <1>7. CASE KeepAlivePong
    <2>1. StaysOut BY <1>0, <1>7 DEF KeepAlivePong, Goto, OnceInv, Labelled, StaysOut, Body, Labels
    <2>2. UNCHANGED <<closed, bodies>> BY Zenon, <1>7 DEF KeepAlivePong
    <2> QED BY <2>1, <2>2, OutKeeps
  <1>8. CASE KeepAliveTimeout
    <2>1. StaysOut BY <1>0, <1>8 DEF KeepAliveTimeout, Enter, Goto, OnceInv, Labelled, StaysOut, Body, Labels
    <2>2. UNCHANGED <<closed, bodies>> BY Zenon, <1>8 DEF KeepAliveTimeout, Enter
    <2> QED BY <2>1, <2>2, OutKeeps
  <1> QED BY <1>1, <1>2, <1>3, <1>4, <1>5, <1>6, <1>7, <1>8 DEF KeeperStep

\* And a goroutine of the application that starts a write or a close.
LEMMA AppKeeps ==
  ASSUME OnceInv, NEW a \in Apps, AppWrite(a) \/ AppCloses(a)
  PROVE  OnceInv'
  <1>0. a \in Threads BY DEF Threads
  <1>1. CASE AppWrite(a)
    <2>1. StaysOut BY <1>0, <1>1 DEF AppWrite, Enter, Goto, OnceInv, Labelled, StaysOut, Body, Labels
    <2>2. UNCHANGED <<closed, bodies>> BY Zenon, <1>1 DEF AppWrite, Enter
    <2> QED BY <2>1, <2>2, OutKeeps
  <1>2. CASE AppCloses(a)
    <2>1. StaysOut BY <1>0, <1>2 DEF AppCloses, Enter, Goto, OnceInv, Labelled, StaysOut, Body, Labels
    <2>2. UNCHANGED <<closed, bodies>> BY Zenon, <1>2 DEF AppCloses, Enter
    <2> QED BY <2>1, <2>2, OutKeeps
  <1> QED BY <1>1, <1>2

\* The clock and the peer change no program counter.
LEMMA RestKeeps ==
  ASSUME OnceInv, UNCHANGED <<pc, after, closed, bodies>>
  PROVE  OnceInv'
  <1>1. StaysOut BY DEF OnceInv, Labelled, StaysOut, Body, Labels
  <1> QED BY <1>1, OutKeeps

\* Every step keeps the invariant.
LEMMA OnceStep == OnceInv /\ [Next]_vars => OnceInv'
  <1> SUFFICES ASSUME OnceInv, [Next]_vars PROVE OnceInv' OBVIOUS
  <1>1. CASE ReaderStep \/ ReadMessage \/ ReadFails \/ OnMessageWrites
    BY <1>1, ReaderKeeps
  <1>2. CASE KeeperStep BY <1>2, KeeperKeeps
  <1>3. CASE TickerFires BY <1>3, RestKeeps DEF TickerFires
  <1>4. CASE TimerFires BY <1>4, RestKeeps DEF TimerFires
  <1>5. CASE PeerEnds BY <1>5, RestKeeps DEF PeerEnds
  <1>6. ASSUME NEW a \in Apps, CallStep(a) PROVE OnceInv'
    BY <1>6, CallKeeps DEF Threads
  <1>7. ASSUME NEW a \in Apps, AppWrite(a) \/ AppCloses(a) PROVE OnceInv'
    BY <1>7, AppKeeps
  <1>8. CASE UNCHANGED vars BY <1>8, RestKeeps DEF vars
  <1> QED BY <1>1, <1>2, <1>3, <1>4, <1>5, <1>6, <1>7, <1>8 DEF Next

\* However many goroutines call close, its body (the close frame and the
\* Close of the net.Conn) runs at most once, by one goroutine.
THEOREM BodyRunsOnce == Spec => []ClosedOnce
  BY OnceInit, OnceStep, PTL DEF Spec, OnceInv

-----------------------------------------------------------------------------
(* A reader that ends has told the application or finds the connection     *)
(* closed at this end.  EndIsReported leaves out the reader that is still  *)
(* in a write or in the close of its onClose: where it goes on from there  *)
(* is in after[Reader].                                                    *)

\* The reader goes on to its cleanup only from an onClose that was called,
\* and never past its cleanup.
EndInv ==
  /\ told \in BOOLEAN
  /\ EndIsReported
  /\ after[Reader] = "cleanup" => told
  /\ after[Reader] \in {"idle", "check", "cleanup"}

\* Neither c.closed nor the fact that the application was told is taken back.
LEMMA NeverUntold ==
  ASSUME closed \in BOOLEAN, told \in BOOLEAN, [Next]_vars
  PROVE  (closed => closed') /\ (told => told') /\ told' \in BOOLEAN
  <1> DEFINE Kept == (closed' = closed \/ closed' = TRUE) /\ (told' = told \/ told' = TRUE)
  <1>1. ASSUME NEW t, CallStep(t) PROVE Kept
    BY <1>1 DEF CallStep, WriteDone, WriteFails, CloseEnter, CloseFrame, Advance, CloseNet
  <1>2. ASSUME ReaderStep \/ ReadMessage \/ ReadFails \/ OnMessageWrites PROVE Kept
    BY <1>1, <1>2 DEF ReaderStep, ReadMessage, ReadFails, OnMessageWrites, ReaderCheck,
       ReaderError, OnPing, OnPong, OnMessage, OnClose, Cleanup, Advance, Enter
  <1>3. ASSUME KeeperStep PROVE Kept
    BY <1>1, <1>3 DEF KeeperStep, KeepAliveTick, KeepAliveStop, KeepAliveClosed,
       KeepAlivePing, KeepAliveArm, KeepAlivePong, KeepAliveTimeout, Advance, Enter
  <1>4. ASSUME TickerFires \/ TimerFires \/ PeerEnds PROVE Kept
    BY <1>4 DEF TickerFires, TimerFires, PeerEnds
  <1>5. ASSUME NEW a \in Apps, AppWrite(a) \/ AppCloses(a) PROVE Kept
    BY <1>5 DEF AppWrite, AppCloses, Enter
  <1>6. ASSUME UNCHANGED vars PROVE Kept BY <1>6 DEF vars
  <1>7. Kept BY <1>1, <1>2, <1>3, <1>4, <1>5, <1>6 DEF Next
  <1>8. told' \in BOOLEAN BY <1>7
  <1>9. closed = TRUE => closed' = TRUE BY <1>7
  <1>10. told = TRUE => told' = TRUE BY <1>7
  <1> QED BY <1>8, <1>9, <1>10

\* A step of another goroutine leaves the reader where it is.
LEMMA OthersKeepEnd ==
  ASSUME OnceInv, EndInv, [Next]_vars, pc'[Reader] = pc[Reader], after'[Reader] = after[Reader]
  PROVE  EndInv'
  BY NeverUntold DEF OnceInv, Flagged, EndInv, EndIsReported

\* A step of a write or a close, by whichever goroutine.
LEMMA CallKeepsEnd ==
  ASSUME OnceInv, EndInv, [Next]_vars, NEW t \in Threads, CallStep(t)
  PROVE  EndInv'
  <1>0. Labelled /\ Reader \in Threads BY DEF OnceInv, Threads
  <1>1. CASE t # Reader
    <2>1. pc'[Reader] = pc[Reader] /\ after'[Reader] = after[Reader]
      BY <1>0, <1>1 DEF CallStep, WriteDone, WriteFails, CloseEnter, CloseFrame, Advance, CloseNet,
         Goto, Labelled
    <2> QED BY <2>1, OthersKeepEnd
  <1>2. CASE t = Reader
    <2>1. \/ pc'[Reader] = after[Reader] /\ after'[Reader] = "idle"
          \/ pc'[Reader] = after[Reader] /\ after'[Reader] = after[Reader]
          \/ pc'[Reader] \in Body /\ after'[Reader] = after[Reader]
      BY <1>0, <1>2, ConnAssumption
         DEF CallStep, WriteDone, WriteFails, CloseEnter, CloseFrame, Advance, CloseNet,
             Goto, Labelled, Body
    <2> QED BY <2>1, NeverUntold DEF OnceInv, Flagged, EndInv, EndIsReported, Body
  <1> QED BY <1>1, <1>2

\* The reader: it comes to its cleanup from its check, with the connection
\* closed, from an error it has reported and from onClose.
LEMMA ReaderKeepsEnd ==
  ASSUME OnceInv, EndInv, [Next]_vars,
         ReaderStep \/ ReadMessage \/ ReadFails \/ OnMessageWrites
  PROVE  EndInv'
  <1>0. Labelled /\ Reader \in Threads BY DEF OnceInv, Threads
  <1>1. CASE CallStep(Reader) BY <1>0, <1>1, CallKeepsEnd
  <1>2. CASE ReaderCheck
    <2>1. CASE closed
      <3>1. closed' BY <2>1, NeverUntold DEF OnceInv, Flagged, EndInv
      <3>2. after'[Reader] = after[Reader] BY <1>2 DEF ReaderCheck, Advance
      <3> QED BY <3>1, <3>2, NeverUntold DEF OnceInv, Flagged, EndInv, EndIsReported
    <2>2. CASE ~closed
      <3>1. pc'[Reader] = "read" /\ after'[Reader] = after[Reader]
        BY <1>0, <1>2, <2>2 DEF ReaderCheck, Advance, Goto, Labelled
      <3> QED BY <3>1, NeverUntold DEF OnceInv, Flagged, EndInv, EndIsReported
    <2> QED BY <2>1, <2>2
  <1>3. CASE ReaderError
    <2>1. told' \/ closed' BY Zenon, <1>3 DEF ReaderError
    <2>2. after'[Reader] = after[Reader] BY <1>3 DEF ReaderError
    <2> QED BY <2>1, <2>2, NeverUntold DEF OnceInv, Flagged, EndInv, EndIsReported
  <1>4. CASE OnPing \/ OnMessageWrites
    <2>1. pc'[Reader] = "write" /\ after'[Reader] = "check"
      BY <1>0, <1>4 DEF OnPing, OnMessageWrites, Enter, Goto, Labelled
    <2> QED BY <2>1, NeverUntold DEF OnceInv, Flagged, EndInv, EndIsReported
  <1>5. CASE OnPong \/ OnMessage
    <2>1. pc'[Reader] = "check" /\ after'[Reader] = after[Reader]
      BY <1>0, <1>5 DEF OnPong, OnMessage, Advance, Goto, Labelled
    <2> QED BY <2>1, NeverUntold DEF OnceInv, Flagged, EndInv, EndIsReported
  <1>6. CASE OnClose
    <2>1. told' BY Zenon, <1>6 DEF OnClose
    <2>2. after'[Reader] = "cleanup" BY <1>0, <1>6 DEF OnClose, Labelled
    <2> QED BY <2>1, <2>2 DEF OnceInv, Flagged, EndInv, EndIsReported
  <1>7. CASE Cleanup
    <2>1. pc[Reader] = "cleanup" /\ after'[Reader] = after[Reader] BY <1>7 DEF Cleanup
    <2> QED BY <2>1, NeverUntold DEF OnceInv, Flagged, EndInv, EndIsReported
  <1>8. CASE ReadFails \/ ReadMessage
    <2>1. pc'[Reader] \in {"failed", "onping", "onpong", "onclose", "onmessage"}
          /\ after'[Reader] = after[Reader]
      BY <1>0, <1>8 DEF ReadFails, ReadMessage, Advance, Goto, Labelled
    <2> QED BY <2>1, NeverUntold DEF OnceInv, Flagged, EndInv, EndIsReported
  <1> QED BY <1>1, <1>2, <1>3, <1>4, <1>5, <1>6, <1>7, <1>8 DEF ReaderStep

\* The reader of a connection never ends unnoticed: before its cleanup the
\* application was told by OnClose or OnError, or a goroutine of this end
\* has closed the connection.
THEOREM EndReported == Spec => []EndIsReported
  <1>1. Init => EndInv
    BY DEF Init, EndInv, EndIsReported, Threads
  <1>2. OnceInv /\ EndInv /\ [Next]_vars => EndInv'
    <2> SUFFICES ASSUME OnceInv, EndInv, [Next]_vars PROVE EndInv' OBVIOUS
    <2>0. Labelled /\ Reader \in Threads BY DEF OnceInv, Threads
    <2>1. CASE ReaderStep \/ ReadMessage \/ ReadFails \/ OnMessageWrites
      BY <2>1, ReaderKeepsEnd
    <2>2. CASE KeeperStep
      <3>1. CASE CallStep(Keeper) BY <3>1, CallKeepsEnd DEF Threads
      <3>2. CASE ~CallStep(Keeper)
        <4>1. pc'[Reader] = pc[Reader] /\ after'[Reader] = after[Reader]
          BY <2>0, <2>2, <3>2, ConnAssumption
             DEF KeeperStep, KeepAliveTick, KeepAliveStop, KeepAliveClosed, KeepAlivePing,
                 KeepAliveArm, KeepAlivePong, KeepAliveTimeout, Advance, Enter, Goto, Labelled
        <4> QED BY <4>1, OthersKeepEnd
      <3> QED BY <3>1, <3>2
    <2>3. CASE TickerFires \/ TimerFires \/ PeerEnds \/ UNCHANGED vars
      <3>1. pc' = pc /\ after' = after BY Zenon, <2>3 DEF TickerFires, TimerFires, PeerEnds, vars
      <3> QED BY <3>1, OthersKeepEnd
    <2>4. ASSUME NEW a \in Apps, CallStep(a) PROVE EndInv'
      BY <2>4, CallKeepsEnd DEF Threads
    <2>5. ASSUME NEW a \in Apps, AppWrite(a) \/ AppCloses(a) PROVE EndInv'
      <3>1. pc'[Reader] = pc[Reader] /\ after'[Reader] = after[Reader]
        BY <2>0, <2>5, ConnAssumption DEF AppWrite, AppCloses, Enter, Goto, Labelled
      <3> QED BY <3>1, OthersKeepEnd
    <2> QED BY <2>1, <2>2, <2>3, <2>4, <2>5 DEF Next
  <1> QED BY <1>1, <1>2, OnceInit, OnceStep, PTL DEF Spec, EndInv

=============================================================================
