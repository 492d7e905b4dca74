------------------------------- MODULE WsConn -------------------------------
(***************************************************************************)
(* One server connection of package websocket (websocket.go): the          *)
(* goroutine that reads it (handleConnection), the keep-alive goroutine    *)
(* (startKeepAlive) and the goroutines of the application that write to it *)
(* or close it.                                                            *)
(*                                                                         *)
(* A frame is its kind.  writeFrame takes no lock and is a step of its     *)
(* own, between the label "write" and what follows it; c.mu is held where  *)
(* close is at work (labels "cframe", "cnet"), and otherwise only within a *)
(* step.  The context of the connection is never cancelled (cancel has no  *)
(* caller), so that its Done channel is left out.                          *)
(***************************************************************************)
EXTENDS Naturals, FiniteSets

CONSTANTS
  Reader, Keeper,   \* the two goroutines of the connection
  Apps,             \* goroutines of the application
  HandlerCloses,    \* does onClose call close?  The default one does, the one
                    \* set by package chat does not
  Deadlines         \* HandshakeTimeout > 0: reads and writes time out

Threads == Apps \cup {Reader, Keeper}

ASSUME ConnAssumption ==
  /\ Reader # Keeper /\ Reader \notin Apps /\ Keeper \notin Apps
  /\ HandlerCloses \in BOOLEAN /\ Deadlines \in BOOLEAN

VARIABLES
  pc,         \* where a goroutine is
  after,      \* where it goes on when its write or its close is done
  closed,     \* c.closed
  net,        \* the net.Conn
  peer,       \* the other end: "alive", "left" (its end is closed), or "dead"
              \* and silent
  pong,       \* pongCh holds a signal
  tick,       \* pingTicker.C holds a tick
  ticking,    \* pingTicker runs
  timer,      \* c.pongTimer: "none", "armed", "fired" or "stopped"
  stop,       \* keepAliveStopCh is closed
  told,       \* onClose or onError was called
  bodies      \* how often the body of close ran: for the property only

vars == <<pc, after, closed, net, peer, pong, tick, ticking, timer, stop, told, bodies>>

Init ==
  /\ pc = [t \in Threads |-> IF t = Reader THEN "check"
                             ELSE IF t = Keeper THEN "select" ELSE "idle"]
  /\ after = [t \in Threads |-> "idle"]
  /\ closed = FALSE /\ net = "open" /\ peer = "alive"
  /\ pong = FALSE /\ tick = FALSE /\ ticking = TRUE /\ timer = "none" /\ stop = FALSE
  /\ told = FALSE /\ bodies = 0

Goto(t, label) == pc' = [pc EXCEPT ![t] = label]

\* c.mu is free.
Unlocked == \A t \in Threads : pc[t] \notin {"cframe", "cnet"}

\* t moves on, and nothing else changes.
Advance(t, from, label) ==
  /\ pc[t] = from
  /\ Goto(t, label)
  /\ UNCHANGED <<after, closed, net, peer, pong, tick, ticking, timer, stop, told, bodies>>

\* t enters a write or a close, from which it goes on at label next.
Enter(t, from, label, next) ==
  /\ pc[t] = from
  /\ Goto(t, label)
  /\ after' = [after EXCEPT ![t] = next]
  /\ UNCHANGED <<closed, net, peer, pong, tick, ticking, timer, stop, told, bodies>>

-----------------------------------------------------------------------------
(* writeFrame                                                              *)

Writable == net = "open"

\* The frame is buffered and flushed.
WriteDone(t) ==
  /\ pc[t] = "write" /\ Writable
  /\ Goto(t, after[t])
  /\ after' = [after EXCEPT ![t] = "idle"]
  /\ UNCHANGED <<closed, net, peer, pong, tick, ticking, timer, stop, told, bodies>>

\* Either end is closed or a deadline has passed.  Only the keep-alive
\* minds: it reports the error and ends.
WriteFails(t) ==
  /\ pc[t] = "write" /\ (~Writable \/ peer = "left" \/ Deadlines)
  /\ Goto(t, IF t = Keeper THEN "done" ELSE after[t])
  /\ after' = [after EXCEPT ![t] = "idle"]
  /\ told' = (told \/ t = Keeper)
  /\ UNCHANGED <<closed, net, peer, pong, tick, ticking, timer, stop, bodies>>

-----------------------------------------------------------------------------
(* close                                                                   *)

\* Mutant of CloseEnter: c.closed is not tested.
CloseEnterUntested(t) ==
  /\ pc[t] = "close" /\ Unlocked
  /\ Goto(t, "cframe") /\ closed' = TRUE
  /\ bodies' = 2
  /\ UNCHANGED <<after, net, peer, pong, tick, ticking, timer, stop, told>>

\* c.mu is taken; who finds the connection closed returns.
CloseEnter(t) ==
  /\ pc[t] = "close" /\ Unlocked
  /\ IF closed
     THEN Goto(t, after[t]) /\ UNCHANGED <<closed, bodies>>
     ELSE Goto(t, "cframe") /\ closed' = TRUE /\ bodies' = bodies + 1
  /\ UNCHANGED <<after, net, peer, pong, tick, ticking, timer, stop, told>>

\* WriteClose; its error is ignored.
CloseFrame(t) == Advance(t, "cframe", "cnet")

\* Mutant of CloseNet: the connection is left to the reader to close.
CloseNetSkipped(t) ==
  /\ pc[t] = "cnet"
  /\ Goto(t, after[t])
  /\ UNCHANGED <<after, closed, net, peer, pong, tick, ticking, timer, stop, told, bodies>>

\* The deadlines are set to now, the connection is closed, c.mu released.
CloseNet(t) ==
  /\ pc[t] = "cnet"
  /\ Goto(t, after[t])
  /\ net' = "closed"
  /\ UNCHANGED <<after, closed, peer, pong, tick, ticking, timer, stop, told, bodies>>

-----------------------------------------------------------------------------
(* handleConnection                                                        *)

\* The loop asks whether the connection is closed, and reads if not.
ReaderCheck == Unlocked /\ Advance(Reader, "check", IF closed THEN "cleanup" ELSE "read")

\* A frame arrives; a data frame goes to onMessage, which may answer.
ReadMessage ==
  /\ net = "open" /\ peer = "alive"
  /\ \E label \in {"onping", "onpong", "onclose", "onmessage"} : Advance(Reader, "read", label)

\* The connection was closed at either end, the deadline passed or the
\* frame is not valid.
ReadFails ==
  /\ net = "closed" \/ peer # "dead" \/ Deadlines
  /\ Advance(Reader, "read", "failed")

\* Mutant of ReaderError: the error is not reported.
ReaderErrorSilent ==
  /\ pc[Reader] = "failed" /\ Unlocked
  /\ Goto(Reader, "cleanup")
  /\ UNCHANGED <<after, closed, net, peer, pong, tick, ticking, timer, stop, told, bodies>>

\* An error is reported unless the connection was closed meanwhile.
ReaderError ==
  /\ pc[Reader] = "failed" /\ Unlocked
  /\ Goto(Reader, "cleanup")
  /\ told' = (told \/ ~closed)
  /\ UNCHANGED <<after, closed, net, peer, pong, tick, ticking, timer, stop, bodies>>

OnPing == Enter(Reader, "onping", "write", "check")

\* Mutant of OnPong: the signal is sent without a default case.
OnPongBlocks ==
  /\ pc[Reader] = "onpong" /\ ~pong
  /\ Goto(Reader, "check") /\ pong' = TRUE
  /\ UNCHANGED <<after, closed, net, peer, tick, ticking, timer, stop, told, bodies>>

\* A signal to the keep-alive, dropped when there is one already.
OnPong ==
  /\ pc[Reader] = "onpong"
  /\ Goto(Reader, "check")
  /\ pong' = TRUE
  /\ UNCHANGED <<after, closed, net, peer, tick, ticking, timer, stop, told, bodies>>

OnMessage == Advance(Reader, "onmessage", "check")

\* The application answers from its OnMessage, if the connection is not
\* closed.
OnMessageWrites == Unlocked /\ ~closed /\ Enter(Reader, "onmessage", "write", "check")

\* A close frame was read: the handler set by the application, or the
\* default one, which closes; the loop is left.
OnClose ==
  /\ pc[Reader] = "onclose"
  /\ told' = TRUE
  /\ Goto(Reader, IF HandlerCloses THEN "close" ELSE "cleanup")
  /\ after' = [after EXCEPT ![Reader] = "cleanup"]
  /\ UNCHANGED <<closed, net, peer, pong, tick, ticking, timer, stop, bodies>>

\* The deferred cleanup stops the ticker and the timer of the keep-alive and
\* closes its channel; neither delivers a stale value after Stop (Go 1.24).
\* Then the deferred Close of the net.Conn runs.
Cleanup ==
  /\ pc[Reader] = "cleanup"
  /\ Goto(Reader, "done")
  /\ ticking' = FALSE /\ tick' = FALSE
  /\ timer' = IF timer = "none" THEN timer ELSE "stopped"
  /\ stop' = TRUE
  /\ net' = "closed"
  /\ UNCHANGED <<after, closed, peer, pong, told, bodies>>

-----------------------------------------------------------------------------
(* startKeepAlive                                                          *)

\* The runtime's ticker and timer.
TickerFires ==
  /\ ticking /\ ~tick
  /\ tick' = TRUE
  /\ UNCHANGED <<pc, after, closed, net, peer, pong, ticking, timer, stop, told, bodies>>

TimerFires ==
  /\ timer = "armed"
  /\ timer' = "fired"
  /\ UNCHANGED <<pc, after, closed, net, peer, pong, tick, ticking, stop, told, bodies>>

KeepAliveTick ==
  /\ pc[Keeper] = "select" /\ tick
  /\ tick' = FALSE
  /\ Goto(Keeper, "kcheck")
  /\ UNCHANGED <<after, closed, net, peer, pong, ticking, timer, stop, told, bodies>>

\* Mutant of KeepAliveStop: the select has no case for keepAliveStopCh.
KeepAliveStopMissing == tick /\ stop /\ Advance(Keeper, "select", "done")

KeepAliveStop == stop /\ Advance(Keeper, "select", "done")

KeepAliveClosed == Unlocked /\ closed /\ Advance(Keeper, "kcheck", "done")

KeepAlivePing == Unlocked /\ ~closed /\ Enter(Keeper, "kcheck", "write", "arm")

KeepAliveArm ==
  /\ pc[Keeper] = "arm"
  /\ Goto(Keeper, "wait")
  /\ timer' = "armed"
  /\ UNCHANGED <<after, closed, net, peer, pong, tick, ticking, stop, told, bodies>>

\* A pong, be it an older one, stops the timer.
KeepAlivePong ==
  /\ pc[Keeper] = "wait" /\ pong
  /\ Goto(Keeper, "select")
  /\ pong' = FALSE
  /\ timer' = "stopped"
  /\ UNCHANGED <<after, closed, net, peer, tick, ticking, stop, told, bodies>>

\* Mutant of KeepAliveTimeout: a missing pong is forgiven.
KeepAliveForgives ==
  /\ pc[Keeper] = "wait" /\ timer = "fired"
  /\ Goto(Keeper, "select")
  /\ UNCHANGED <<after, closed, net, peer, pong, tick, ticking, timer, stop, told, bodies>>

\* close(CloseGoingAway, "pong timeout")
KeepAliveTimeout == timer = "fired" /\ Enter(Keeper, "wait", "close", "done")

-----------------------------------------------------------------------------
(* The application and the peer                                            *)

\* WriteMessage looks at c.closed, then writes.
AppWrite(a) == Unlocked /\ ~closed /\ Enter(a, "idle", "write", "idle")

AppCloses(a) == Enter(a, "idle", "close", "idle")

PeerEnds ==
  /\ peer = "alive"
  /\ peer' \in {"left", "dead"}
  /\ UNCHANGED <<pc, after, closed, net, pong, tick, ticking, timer, stop, told, bodies>>

-----------------------------------------------------------------------------
CallStep(t) ==
  WriteDone(t) \/ WriteFails(t) \/ CloseEnter(t) \/ CloseFrame(t) \/ CloseNet(t)

\* A read returns when something arrives, an error included: what a live
\* peer does is not owed.
ReaderStep ==
  \/ CallStep(Reader) \/ ReaderCheck \/ ReaderError \/ OnPing \/ OnPong
  \/ OnMessage \/ OnClose \/ Cleanup
  \/ (net = "closed" \/ peer = "left" \/ Deadlines) /\ ReadFails

KeeperStep ==
  \/ CallStep(Keeper) \/ KeepAliveTick \/ KeepAliveStop \/ KeepAliveClosed
  \/ KeepAlivePing \/ KeepAliveArm \/ KeepAlivePong \/ KeepAliveTimeout

Next ==
  \/ ReaderStep \/ KeeperStep
  \/ ReadMessage \/ ReadFails \/ OnMessageWrites
  \/ TickerFires \/ TimerFires \/ PeerEnds
  \/ \E a \in Apps : CallStep(a) \/ AppWrite(a) \/ AppCloses(a)

Spec == Init /\ [][Next]_vars

\* Goroutines that can run do run, the clock goes on, and a waiter gets c.mu
\* in the end.  A write ends: the peer's buffers or the deadline see to it.
Fairness ==
  /\ SF_vars(ReaderStep) /\ SF_vars(KeeperStep)
  /\ \A a \in Apps : SF_vars(CallStep(a))
  /\ WF_vars(TickerFires) /\ WF_vars(TimerFires)

FairSpec == Spec /\ Fairness

-----------------------------------------------------------------------------
(* Properties                                                              *)

Labels == {"idle", "check", "read", "failed", "onping", "onpong", "onclose", "onmessage",
           "cleanup", "done", "select", "kcheck", "arm", "wait",
           "write", "close", "cframe", "cnet"}

\* The variables keep their types.
TypeOK ==
  /\ pc \in [Threads -> Labels]
  /\ after \in [Threads -> {"idle", "check", "cleanup", "arm", "done"}]
  /\ closed \in BOOLEAN /\ net \in {"open", "closed"} /\ peer \in {"alive", "left", "dead"}
  /\ pong \in BOOLEAN /\ tick \in BOOLEAN /\ ticking \in BOOLEAN /\ stop \in BOOLEAN
  /\ timer \in {"none", "armed", "fired", "stopped"}
  /\ told \in BOOLEAN /\ bodies \in 0 .. 2

\* The close frame is sent, and the net.Conn closed, by one caller of close
\* only, however many there are: the application, the keep-alive on a
\* timeout and the reader on a close frame.
ClosedOnce ==
  /\ bodies <= 1
  /\ \A t, u \in Threads :
       pc[t] \in {"cframe", "cnet"} /\ pc[u] \in {"cframe", "cnet"} => t = u

\* A goroutine that has closed the connection, or found it closed, never
\* leaves the reader behind: it ends, whether it waits in a read, in a
\* handler or for c.mu.
ReaderEnds == closed ~> pc[Reader] = "done"

\* WEBSOCKET_IMPLEMENTATION.md: "Dead connection detection via pong timeouts".
\* When the peer falls silent the connection is closed in the end, although
\* an older pong may still satisfy a wait of the keep-alive.
DeadDetected == peer = "dead" ~> closed \/ pc[Reader] = "done"

\* Once cleanup has closed keepAliveStopCh, the keep-alive goroutine ends,
\* in whatever it is engaged; its wait for a pong, whose select has no case
\* for the channel and whose timer cleanup stops, is the one exception.
KeepAliveEnds == stop ~> pc[Keeper] \in {"done", "wait"}

\* WEBSOCKET_IMPLEMENTATION.md: "`OnClose`: Connection closed", "`OnError`: Error
\* occurred".  A reader that ends has told the application, by OnClose or
\* OnError, unless a goroutine of this end has closed the connection: it was
\* the peer, the network or a frame that is not valid, and never goes
\* unnoticed.  (What nobody is told of is a close at this end, that of the
\* keep-alive after a missing pong included.)
EndIsReported == pc[Reader] \in {"cleanup", "done"} => told \/ closed
=============================================================================
