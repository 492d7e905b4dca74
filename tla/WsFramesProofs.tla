--------------------------- MODULE WsFramesProofs ---------------------------
(***************************************************************************)
(* The limits of the reader, that it returns the messages as they were     *)
(* written, and what it breaks the connection for, for any number of       *)
(* writing goroutines, sizes of messages and fragments, and limits.        *)
(*                                                                         *)
(* What the reader will make of the frames on their way depends on all of  *)
(* them.  The strengthening says that they parse (Parse): there is a       *)
(* position, a message and an offset in it, before and after each frame,   *)
(* such that each frame carries the part of its message that it should;    *)
(* the reader is at the first position and the writers are at the last     *)
(* (ReaderAt, WriterAt).  The positions are under an existential           *)
(* quantifier: a writer extends them and the reader takes the first.       *)
(***************************************************************************)
EXTENDS WsFrames, TLAPS

-----------------------------------------------------------------------------
(* Types, and the limits of the reader                                     *)

Units == (Threads \X Nat \X Nat) \cup {Junk}
DataTypes == {"text", "binary"}

\* A length that has its place in a header.
FitsIn(n) == n > MaxPayload16Bit => n < 2 ^ (WordBits - 1) /\ n < 2 ^ WordBits
Fits(data) == FitsIn(Len(data))

Messages == [type : DataTypes, data : Seq(Units)]

\* The frames of this library: the header says how long the payload is.
Sound ==
  {f \in [fin : BOOLEAN, op : DataTypes \cup {"continuation", "ping"},
          len : [code : Int, ext : Int], data : Seq(Units)] :
     PayloadLen(f.len) = Len(f.data)}

Calls ==
  [kind : {"none", "message", "fragmented", "control"}, type : DataTypes \cup {"none", "ping"},
   data : Seq(Units), size : Nat \ {0}, pos : Nat]

\* A call that is under way.
CallOK(t) ==
  /\ pc[t] = "idle" <=> call[t].kind = "none"
  /\ call[t].kind \in {"none", "control"} => call[t].data = <<>>
  /\ call[t].kind = "control" => call[t].type = "ping"
  /\ call[t].kind \in {"message", "fragmented"} => call[t].type \in DataTypes
  /\ Fits(call[t].data)
  /\ IF Fragmented(t) THEN call[t].pos < Len(call[t].data) ELSE call[t].pos = 0

WriterTyped ==
  /\ pc \in [Threads -> {"idle", "fill", "flush"}]
  /\ call \in [Threads -> Calls]
  /\ writes \in [Threads -> Nat]
  /\ buf \in Seq(Sound) /\ wire \in Seq(Sound)
  /\ due \in Seq(Messages)

ReaderTyped ==
  /\ mtype \in DataTypes \cup {"none"}
  /\ mbuf \in Seq(Units)
  /\ ended \in {"no", "invalid", "large", "eof"}

\* fragmentedWriteMu has one holder.
OneFragmented == \A t, u \in Threads : Fragmented(t) /\ Fragmented(u) => t = u

Typed ==
  /\ WriterTyped /\ ReaderTyped /\ LimitsHold
  /\ \A t \in Threads : CallOK(t)
  /\ OneFragmented

\* What a header says of a length that fits, it says right.
LEMMA LengthRight ==
  ASSUME NEW n \in Nat, FitsIn(n)
  PROVE  Length(n) \in [code : Int, ext : Int] /\ PayloadLen(Length(n)) = n
  <1>1. /\ MaxPayload7Bit \in Nat /\ MaxPayload16Bit \in Nat /\ WordBits \in Nat
        /\ 2 ^ WordBits \in Int /\ 2 ^ (WordBits - 1) \in Int
    <2>1. WordBits \in Nat /\ WordBits - 1 \in Nat BY FramesAssumption
    <2>2. 2 ^ WordBits \in Int BY <2>1
    <2>3. PICK b \in Nat : b = WordBits - 1 BY <2>1
    <2>4. 2 ^ b \in Int BY <2>3
    <2> QED BY <2>1, <2>2, <2>3, <2>4, FramesAssumption
  <1>2. PICK word \in Int, half \in Int : word = 2 ^ WordBits /\ half = 2 ^ (WordBits - 1)
    BY <1>1
  <1>3. CASE n > MaxPayload16Bit
    <2>1. n % word = n
      <3>1. word \in Nat /\ n < word BY <1>2, <1>3 DEF FitsIn
      <3> QED BY <3>1
    <2>2. Length(n) = [code |-> Ext64, ext |-> n] BY <1>2, <1>3, <2>1 DEF Length
    <2>3. PayloadLen(Length(n)) = Signed(n) BY <2>2 DEF PayloadLen
    <2>4. Signed(n) = n BY <1>2, <1>3 DEF Signed, FitsIn
    <2> QED BY <1>1, <2>2, <2>3, <2>4 DEF Ext64
  <1>4. CASE n <= MaxPayload16Bit /\ n > MaxPayload7Bit
    <2>1. n % (MaxPayload16Bit + 1) = n
      <3>1. MaxPayload16Bit + 1 \in Nat /\ n < MaxPayload16Bit + 1 BY <1>1, <1>4
      <3> QED BY <3>1
    <2>2. Length(n) = [code |-> Ext16, ext |-> n] BY <1>1, <1>4, <2>1 DEF Length
    <2> QED BY <1>1, <2>2 DEF PayloadLen, Ext16, Ext64
  <1>5. CASE n <= MaxPayload16Bit /\ n <= MaxPayload7Bit
    <2>1. Length(n) = [code |-> n, ext |-> 0] BY <1>1, <1>5 DEF Length
    <2> QED BY <1>1, <1>5, <2>1 DEF PayloadLen, Ext16, Ext64
  <1> QED BY <1>1, <1>3, <1>4, <1>5

LEMMA FrameSound ==
  ASSUME NEW fin \in BOOLEAN, NEW op \in DataTypes \cup {"continuation", "ping"},
         NEW data \in Seq(Units), Fits(data)
  PROVE  Frame(fin, op, data) \in Sound
  <1>1. Len(data) \in Nat OBVIOUS
  <1>2. /\ Length(Len(data)) \in [code : Int, ext : Int]
        /\ PayloadLen(Length(Len(data))) = Len(data)
    BY <1>1, LengthRight DEF Fits
  <1> DEFINE l == Length(Len(data))
  <1> HIDE DEF l
  <1>3. l \in [code : Int, ext : Int] /\ PayloadLen(l) = Len(data) BY <1>2 DEF l
  <1>4. [fin |-> fin, op |-> op, len |-> l, data |-> data] \in Sound BY <1>3 DEF Sound
  <1> QED BY <1>4 DEF Frame, l

\* The fragment that a call has come to.
LEMMA FragmentTyped ==
  ASSUME Typed, NEW t \in Threads, Fragmented(t)
  PROVE  /\ FragmentEnd(t) \in Nat /\ call[t].pos < FragmentEnd(t)
         /\ FragmentEnd(t) <= Len(call[t].data)
         /\ SubSeq(call[t].data, call[t].pos + 1, FragmentEnd(t)) \in Seq(Units)
         /\ Len(SubSeq(call[t].data, call[t].pos + 1, FragmentEnd(t))) = FragmentEnd(t) - call[t].pos
  <1>1. /\ call[t] \in Calls /\ call[t].pos < Len(call[t].data)
        /\ call[t].pos \in Nat /\ call[t].size \in Nat \ {0} /\ call[t].data \in Seq(Units)
    BY DEF Typed, WriterTyped, CallOK, Calls
  <1>2. /\ FragmentEnd(t) \in Nat /\ call[t].pos < FragmentEnd(t)
        /\ FragmentEnd(t) <= Len(call[t].data)
    BY <1>1 DEF FragmentEnd
  <1> QED BY <1>1, <1>2

\* writeFrame writes sound frames.
LEMMA NextFrameSound ==
  ASSUME Typed, NEW t \in Threads, pc[t] = "fill"
  PROVE  NextFrame(t) \in Sound
  <1>1. call[t] \in Calls /\ CallOK(t) BY DEF Typed, WriterTyped
  <1>2. call[t].kind # "none" BY <1>1 DEF CallOK
  <1>3. CASE Fragmented(t)
    <2> DEFINE part == SubSeq(call[t].data, call[t].pos + 1, FragmentEnd(t))
    <2>1. /\ part \in Seq(Units) /\ Len(part) = FragmentEnd(t) - call[t].pos
          /\ FragmentEnd(t) \in Nat /\ FragmentEnd(t) <= Len(call[t].data)
      BY <1>3, FragmentTyped
    <2>2. call[t].pos \in Nat /\ call[t].data \in Seq(Units) /\ call[t].type \in DataTypes
      BY <1>1, <1>3 DEF Calls, CallOK, Fragmented
    <2>3. Fits(part)
      <3>0. PICK l \in Nat, e \in Nat, o \in Nat :
              l = Len(call[t].data) /\ e = FragmentEnd(t) /\ o = call[t].pos
        BY <2>1, <2>2
      <3>1. Len(part) <= Len(call[t].data) /\ Len(part) \in Int
        <4>1. Len(part) = e - o /\ e <= l BY <2>1, <3>0
        <4>2. e - o <= l /\ e - o \in Int BY <4>1
        <4> QED BY <3>0, <4>1, <4>2
      <3>2. 2 ^ (WordBits - 1) \in Int /\ 2 ^ WordBits \in Int
        <4>1. WordBits \in Nat /\ WordBits - 1 \in Nat BY FramesAssumption
        <4>2. PICK b \in Nat : b = WordBits - 1 BY <4>1
        <4>3. 2 ^ b \in Int BY <4>2
        <4> QED BY <4>1, <4>2, <4>3
      <3>3. Len(call[t].data) \in Int /\ Fits(call[t].data) BY <1>1, <2>2 DEF CallOK
      <3> HIDE DEF part
      <3>4. MaxPayload16Bit \in Nat BY FramesAssumption
      <3> QED BY <3>1, <3>2, <3>3, <3>4 DEF Fits, FitsIn
    <2>4. LastFrame(t) \in BOOLEAN BY DEF LastFrame, Fragmented
    <2> HIDE DEF part
    <2>5. Frame(LastFrame(t), "continuation", part) \in Sound
      BY <2>1, <2>3, <2>4, FrameSound
    <2>6. Frame(LastFrame(t), call[t].type, part) \in Sound
      BY <2>1, <2>2, <2>3, <2>4, FrameSound
    <2> QED BY <1>3, <2>5, <2>6 DEF NextFrame, part
  <1>4. CASE ~Fragmented(t)
    <2>1. call[t].type \in DataTypes \cup {"ping"} /\ call[t].data \in Seq(Units) /\ Fits(call[t].data)
      BY <1>1, <1>2, <1>4 DEF Calls, CallOK, Fragmented
    <2>2. Frame(TRUE, call[t].type, call[t].data) \in Sound BY <2>1, FrameSound
    <2> QED BY <1>4, <2>2 DEF NextFrame
  <1> QED BY <1>3, <1>4

\* A step of the reader, or of the peer, leaves the writers alone but for the
\* frames it takes from the wire and the messages that are not due any more.
LEMMA WritersKept ==
  ASSUME Typed, UNCHANGED <<pc, call>>
  PROVE  (\A t \in Threads : CallOK(t)') /\ OneFragmented'
  <1>1. ASSUME NEW t \in Threads PROVE CallOK(t)'
    <2>1. CallOK(t) BY DEF Typed
    <2> QED BY <2>1 DEF CallOK, Fragmented
  <1>2. OneFragmented' BY DEF Typed, OneFragmented, Fragmented
  <1> QED BY <1>1, <1>2

LEMMA TypedInit == Init => Typed
  <1> SUFFICES ASSUME Init PROVE Typed OBVIOUS
  <1>0. /\ MaxFrameSize \in Nat /\ MaxMessageSize \in Nat /\ MaxPayload16Bit \in Nat
    BY FramesAssumption
  <1>1. NoCall \in Calls BY DEF NoCall, Calls
  <1>2. WriterTyped BY <1>1 DEF Init, WriterTyped
  <1>3. ReaderTyped /\ LimitsHold BY <1>0 DEF Init, ReaderTyped, LimitsHold
  <1>4. ASSUME NEW t \in Threads PROVE CallOK(t)
    BY <1>0 DEF Init, NoCall, CallOK, Fragmented, Fits, FitsIn
  <1>5. OneFragmented BY DEF Init, NoCall, OneFragmented, Fragmented
  <1> QED BY <1>2, <1>3, <1>4, <1>5 DEF Typed

\* A goroutine that makes a call.
Calling(t, kind, type, data, size) ==
  /\ Call(t, kind, type, data, size)
  /\ kind \in {"message", "fragmented", "control"}
  /\ type \in DataTypes \cup {"ping"}
  /\ data \in Seq(Units) /\ Fits(data) /\ size \in Nat \ {0}
  /\ kind = "control" => type = "ping" /\ data = <<>>
  /\ kind # "control" => type \in DataTypes
  /\ kind = "fragmented" => FragmentsFree /\ data # <<>>

\* What it does to the writers.
LEMMA CallTyped ==
  ASSUME Typed, NEW t \in Threads, NEW kind, NEW type, NEW data, NEW size,
         Calling(t, kind, type, data, size)
  PROVE  Typed'
  <1> DEFINE new == [kind |-> kind, type |-> type, data |-> data, size |-> size, pos |-> 0]
  <1> USE DEF Calling
  <1>1. /\ pc' = [pc EXCEPT ![t] = "fill"] /\ call' = [call EXCEPT ![t] = new]
        /\ writes' = [writes EXCEPT ![t] = @ + 1]
        /\ UNCHANGED <<buf, wire, werr, wild, mtype, mbuf, alloc, ended, wrong, due, mixed>>
    BY DEF Call, readVars
  <1>2. new \in Calls BY DEF Calls
  <1>3. WriterTyped' BY <1>1, <1>2 DEF Typed, WriterTyped
  <1>4. ReaderTyped' /\ LimitsHold' BY <1>1 DEF Typed, ReaderTyped, LimitsHold
  <1>5. /\ pc'[t] = "fill" /\ call'[t] = new
        /\ \A u \in Threads \ {t} : pc'[u] = pc[u] /\ call'[u] = call[u]
    BY <1>1 DEF Typed, WriterTyped
  <1>6. ASSUME NEW u \in Threads PROVE CallOK(u)'
    <2>1. CASE u = t
      <3>1. kind = "fragmented" => 0 < Len(data) OBVIOUS
      <3> QED BY <1>5, <2>1, <3>1 DEF CallOK, Fragmented
    <2>2. CASE u # t
      <3>1. CallOK(u) BY DEF Typed
      <3> QED BY <1>5, <2>2, <3>1 DEF CallOK, Fragmented
    <2> QED BY <2>1, <2>2
  <1>7. OneFragmented'
    <2> SUFFICES ASSUME NEW u \in Threads, NEW v \in Threads, Fragmented(u)', Fragmented(v)', u # v
                 PROVE  FALSE
      BY DEF OneFragmented
    <2>1. CASE u # t /\ v # t
      <3>1. Fragmented(u) /\ Fragmented(v) BY <1>5, <2>1 DEF Fragmented
      <3> QED BY <3>1 DEF Typed, OneFragmented
    <2>2. CASE u = t
      <3>1. kind = "fragmented" /\ call[v].kind = "fragmented" BY <1>5, <2>2 DEF Fragmented
      <3> QED BY <3>1 DEF FragmentsFree
    <2>3. CASE v = t
      <3>1. kind = "fragmented" /\ call[u].kind = "fragmented" BY <1>5, <2>3 DEF Fragmented
      <3> QED BY <3>1 DEF FragmentsFree
    <2> QED BY <2>1, <2>2, <2>3
  <1> QED BY <1>3, <1>4, <1>6, <1>7 DEF Typed

\* The calls there are.
LEMMA CallsMade ==
  ASSUME Typed,
         \/ \E t \in Writers : WriteMessage(t) \/ WriteFragmented(t)
         \/ WriteControl(Pinger)
  PROVE  \E t \in Threads : \E kind, type, data, size : Calling(t, kind, type, data, size)
  <1>0. /\ Types \subseteq DataTypes /\ Sizes \subseteq Nat /\ FragmentSizes \subseteq Nat \ {0}
        /\ MaxPayload16Bit \in Nat
    BY FramesAssumption DEF DataTypes
  <1>1. ASSUME NEW t \in Writers, NEW n \in Sizes
        PROVE  Data(t, n) \in Seq(Units) /\ Len(Data(t, n)) = n /\ Fits(Data(t, n))
    <2>1. writes[t] + 1 \in Nat /\ t \in Threads BY DEF Typed, WriterTyped, Threads
    <2>2. n \in Nat BY <1>0
    <2>3. \A i \in 1 .. n : <<t, writes[t] + 1, i>> \in Units BY <2>1, <2>2 DEF Units
    <2>4. Data(t, n) \in Seq(Units) /\ Len(Data(t, n)) = n BY <2>2, <2>3 DEF Data
    <2> QED BY <2>4, FramesAssumption DEF Fits, FitsIn
  <1>2. CASE \E t \in Writers : WriteMessage(t)
    <2>1. PICK t \in Writers, type \in Types, n \in Sizes : Call(t, "message", type, Data(t, n), 1)
      BY <1>2 DEF WriteMessage
    <2>2. PICK data : data = Data(t, n) OBVIOUS
    <2>3. Calling(t, "message", type, data, 1) BY <1>0, <1>1, <2>1, <2>2 DEF Calling
    <2> QED BY <2>3 DEF Threads
  <1>3. CASE \E t \in Writers : WriteFragmented(t)
    <2>1. PICK t \in Writers, type \in Types, n \in Sizes \ {0}, k \in FragmentSizes :
            FragmentsFree /\ Call(t, "fragmented", type, Data(t, n), k)
      BY <1>3 DEF WriteFragmented
    <2>2. PICK data : data = Data(t, n) OBVIOUS
    <2>3. data \in Seq(Units) /\ Len(data) # 0 /\ Fits(data) BY <1>1, <2>1, <2>2
    <2>4. data # <<>> BY <2>3
    <2>5. Calling(t, "fragmented", type, data, k) BY <1>0, <2>1, <2>2, <2>3, <2>4 DEF Calling
    <2> QED BY <2>5 DEF Threads
  <1>4. CASE WriteControl(Pinger)
    <2>1. Call(Pinger, "control", "ping", <<>>, 1) BY <1>4 DEF WriteControl
    <2>2. Fits(<<>>) BY <1>0 DEF Fits, FitsIn
    <2>3. Calling(Pinger, "control", "ping", <<>>, 1) BY <2>1, <2>2 DEF Calling
    <2> QED BY <2>3 DEF Threads
  <1> QED BY <1>2, <1>3, <1>4

\* A call that returns, or goes on with the next fragment.
LEMMA NoCallKeeps ==
  ASSUME Typed, NEW t \in Threads,
         pc' = [pc EXCEPT ![t] = "idle"], call' = [call EXCEPT ![t] = NoCall]
  PROVE  /\ pc' \in [Threads -> {"idle", "fill", "flush"}] /\ call' \in [Threads -> Calls]
         /\ \A u \in Threads : CallOK(u)'
         /\ OneFragmented'
  <1>1. NoCall \in Calls BY DEF NoCall, Calls
  <1>2. pc' \in [Threads -> {"idle", "fill", "flush"}] /\ call' \in [Threads -> Calls]
    BY <1>1 DEF Typed, WriterTyped
  <1>3. /\ pc'[t] = "idle" /\ call'[t] = NoCall
        /\ \A u \in Threads \ {t} : pc'[u] = pc[u] /\ call'[u] = call[u]
    BY DEF Typed, WriterTyped
  <1>4. ASSUME NEW u \in Threads PROVE CallOK(u)'
    <2>1. CASE u = t
      <3>1. MaxPayload16Bit \in Nat BY FramesAssumption
      <3> QED BY <1>3, <2>1, <3>1 DEF CallOK, Fragmented, NoCall, Fits, FitsIn
    <2>2. CASE u # t
      <3>1. CallOK(u) BY DEF Typed
      <3> QED BY <1>3, <2>2, <3>1 DEF CallOK, Fragmented
    <2> QED BY <2>1, <2>2
  <1>5. ASSUME NEW u \in Threads, Fragmented(u)' PROVE Fragmented(u)
    <2>1. u # t BY <1>3, <1>5 DEF Fragmented, NoCall
    <2> QED BY <1>3, <1>5, <2>1 DEF Fragmented
  <1>6. OneFragmented' BY <1>5 DEF Typed, OneFragmented
  <1> QED BY <1>2, <1>4, <1>6

LEMMA GoOnKeeps ==
  ASSUME Typed, NEW t \in Threads, pc[t] = "flush", GoOn(t)
  PROVE  /\ pc' \in [Threads -> {"idle", "fill", "flush"}] /\ call' \in [Threads -> Calls]
         /\ \A u \in Threads : CallOK(u)'
         /\ OneFragmented'
  <1>1. CASE LastFrame(t) BY <1>1, NoCallKeeps DEF GoOn
  <1>2. CASE ~LastFrame(t)
    <2>1. /\ pc' = [pc EXCEPT ![t] = "fill"] /\ call' = [call EXCEPT ![t].pos = FragmentEnd(t)]
          /\ Fragmented(t) /\ FragmentEnd(t) # Len(call[t].data)
      BY <1>2 DEF GoOn, LastFrame
    <2>2. FragmentEnd(t) \in Nat /\ FragmentEnd(t) <= Len(call[t].data) BY <2>1, FragmentTyped
    <2>3. call[t] \in Calls /\ CallOK(t) BY DEF Typed, WriterTyped
    <2>4. /\ pc'[t] = "fill" /\ call'[t] = [call[t] EXCEPT !.pos = FragmentEnd(t)]
          /\ \A u \in Threads \ {t} : pc'[u] = pc[u] /\ call'[u] = call[u]
      BY <2>1 DEF Typed, WriterTyped
    <2>5. PICK end \in Nat : end = FragmentEnd(t) BY <2>2
    <2>6. /\ call'[t] \in Calls /\ call'[t].kind = call[t].kind /\ call'[t].type = call[t].type
          /\ call'[t].data = call[t].data /\ call'[t].pos = end
      BY <2>3, <2>4, <2>5 DEF Calls
    <2>7. pc' \in [Threads -> {"idle", "fill", "flush"}] BY <2>1 DEF Typed, WriterTyped
    <2>8. call' \in [Threads -> Calls]
      <3>1. DOMAIN call' = Threads /\ call' = [u \in Threads |-> call'[u]]
        BY <2>1 DEF Typed, WriterTyped
      <3>2. \A u \in Threads : call'[u] \in Calls BY <2>4, <2>6 DEF Typed, WriterTyped
      <3> QED BY <3>1, <3>2
    <2>9. ASSUME NEW u \in Threads PROVE CallOK(u)'
      <3>1. CASE u = t
        <4>1. Len(call[t].data) \in Nat BY <2>3 DEF Calls
        <4>2. end < Len(call[t].data) BY <2>1, <2>2, <2>5, <4>1
        <4> QED BY <2>1, <2>3, <2>4, <2>6, <3>1, <4>2 DEF CallOK, Fragmented
      <3>2. CASE u # t
        <4>1. CallOK(u) BY DEF Typed
        <4> QED BY <2>4, <3>2, <4>1 DEF CallOK, Fragmented
      <3> QED BY <3>1, <3>2
    <2>10. \A u \in Threads : Fragmented(u)' <=> Fragmented(u) BY <2>4, <2>6 DEF Fragmented
    <2>11. OneFragmented' BY <2>10 DEF Typed, OneFragmented
    <2> QED BY <2>7, <2>8, <2>9, <2>11
  <1> QED BY <1>1, <1>2

\* The steps of a writer.
LEMMA WriterStepTyped ==
  ASSUME Typed, NEW t \in Threads, WriterStep(t) \/ Race(t)
  PROVE  Typed'
  <1>0. UNCHANGED <<writes, mtype, mbuf, alloc, ended>>
    BY DEF WriterStep, Race, Fill, Flush, FlushFails, WriteFails, readVars
  <1>1. ReaderTyped' /\ LimitsHold' BY <1>0 DEF Typed, ReaderTyped, LimitsHold
  <1>2. CASE Fill(t)
    <2>1. /\ pc[t] = "fill" /\ pc' = [pc EXCEPT ![t] = "flush"]
          /\ buf' = Append(buf, NextFrame(t)) /\ UNCHANGED <<call, wire>>
          /\ \/ due' = <<>> \/ due' = due
             \/ /\ call[t].kind # "control"
                /\ due' = Append(due, [type |-> call[t].type, data |-> call[t].data])
      BY <1>2 DEF Fill
    <2>2. NextFrame(t) \in Sound BY <2>1, NextFrameSound
    <2>3. call[t] \in Calls /\ CallOK(t) BY DEF Typed, WriterTyped
    <2>4. due' \in Seq(Messages)
      <3>0. due \in Seq(Messages) BY DEF Typed, WriterTyped
      <3>3. <<>> \in Seq(Messages) OBVIOUS
      <3>1. CASE call[t].kind # "control"
        <4>1. [type |-> call[t].type, data |-> call[t].data] \in Messages
          BY <2>1, <2>3, <3>1 DEF Messages, CallOK, Calls
        <4>2. PICK m \in Messages : m = [type |-> call[t].type, data |-> call[t].data] BY <4>1
        <4>3. due' = <<>> \/ due' = due \/ due' = Append(due, m) BY <2>1, <4>2
        <4>4. Append(due, m) \in Seq(Messages) BY <3>0
        <4> QED BY <3>0, <3>3, <4>3, <4>4, Zenon
      <3>2. CASE call[t].kind = "control"
        <4>1. due' = <<>> \/ due' = due BY <2>1, <3>2
        <4> QED BY <3>0, <3>3, <4>1, Zenon
      <3> QED BY <3>1, <3>2
    <2>5. WriterTyped' BY <1>0, <2>1, <2>2, <2>4 DEF Typed, WriterTyped
    <2>6. ASSUME NEW u \in Threads PROVE CallOK(u)'
      <3>1. CallOK(u) BY DEF Typed
      <3>2. pc'[u] = "idle" <=> pc[u] = "idle" BY <2>1 DEF Typed, WriterTyped
      <3> QED BY <2>1, <3>1, <3>2 DEF CallOK, Fragmented
    <2>7. OneFragmented' BY <2>1 DEF Typed, OneFragmented, Fragmented
    <2> QED BY <1>1, <2>5, <2>6, <2>7 DEF Typed
  <1>3. CASE Flush(t)
    <2>1. /\ pc[t] = "flush" /\ wire' = wire \o buf /\ buf' = <<>> /\ GoOn(t) /\ UNCHANGED due
      BY <1>3 DEF Flush
    <2>2. /\ pc' \in [Threads -> {"idle", "fill", "flush"}] /\ call' \in [Threads -> Calls]
          /\ \A u \in Threads : CallOK(u)'
          /\ OneFragmented'
      BY <2>1, GoOnKeeps
    <2>3. WriterTyped' BY <1>0, <2>1, <2>2 DEF Typed, WriterTyped
    <2> QED BY <1>1, <2>2, <2>3 DEF Typed
  <1>4. CASE FlushFails(t) \/ WriteFails(t)
    <2>1. /\ pc' = [pc EXCEPT ![t] = "idle"] /\ call' = [call EXCEPT ![t] = NoCall]
          /\ UNCHANGED due
      BY <1>4 DEF FlushFails, WriteFails
    <2>2. buf' \in Seq(Sound) /\ wire' \in Seq(Sound)
      <3>1. buf \in Seq(Sound) /\ wire \in Seq(Sound) BY DEF Typed, WriterTyped
      <3>2. CASE FlushFails(t)
        <4>1. PICK k \in 0 .. Len(buf) : wire' = wire \o SubSeq(buf, 1, k) BY <3>2 DEF FlushFails
        <4>2. SubSeq(buf, 1, k) \in Seq(Sound) BY <3>1, <4>1
        <4>3. wire' \in Seq(Sound) BY <3>1, <4>1, <4>2
        <4> QED BY <3>2, <4>3 DEF FlushFails
      <3>3. CASE WriteFails(t) BY <3>1, <3>3 DEF WriteFails
      <3> QED BY <1>4, <3>2, <3>3
    <2>3. /\ pc' \in [Threads -> {"idle", "fill", "flush"}] /\ call' \in [Threads -> Calls]
          /\ \A u \in Threads : CallOK(u)'
          /\ OneFragmented'
      BY <2>1, NoCallKeeps
    <2>4. WriterTyped' BY <1>0, <2>1, <2>2, <2>3 DEF Typed, WriterTyped
    <2> QED BY <1>1, <2>3, <2>4 DEF Typed
  <1>5. CASE Race(t)
    <2>1. /\ pc' = [v \in Threads |-> "idle"] /\ call' = [v \in Threads |-> NoCall]
          /\ buf' = <<>> /\ wire' = <<>> /\ due' = <<>>
      BY <1>5 DEF Race
    <2>2. NoCall \in Calls BY DEF NoCall, Calls
    <2>3. WriterTyped' BY <1>0, <2>1, <2>2 DEF Typed, WriterTyped
    <2>4. MaxPayload16Bit \in Nat BY FramesAssumption
    <2>5. ASSUME NEW u \in Threads PROVE CallOK(u)'
      BY <2>1, <2>4 DEF CallOK, Fragmented, NoCall, Fits, FitsIn
    <2>6. OneFragmented' BY <2>1 DEF OneFragmented, Fragmented, NoCall
    <2> QED BY <1>1, <2>3, <2>5, <2>6 DEF Typed
  <1> QED BY <1>2, <1>3, <1>4, <1>5 DEF WriterStep

\* A frame that may be before the reader has a length, and a payload of that
\* length.
LEMMA ArrivingTyped ==
  ASSUME Typed, NEW f \in Arriving
  PROVE  /\ PayloadLen(f.len) \in Int
         /\ PayloadLen(f.len) > 0 => f.data \in Seq(Units) /\ Len(f.data) = PayloadLen(f.len)
         /\ f.fin \in BOOLEAN /\ f.op \in DataTypes \cup {"continuation", "ping", "reserved"}
         /\ ~wild => f \in Sound
  <1>1. CASE wild
    <2>1. PICK h \in Lengths :
            f \in [fin : BOOLEAN, op : {"text", "continuation", "ping", "reserved"}, len : {h},
                   data : {[i \in 1 .. PayloadLen(h) |-> Junk]}]
      BY <1>1 DEF Arriving
    <2>2. h.code \in Int /\ h.ext \in Int
      <3>1. MaxPayload7Bit \in Nat BY FramesAssumption
      <3> QED BY <3>1 DEF Lengths, Ext16, Ext64
    <2>3. PayloadLen(h) \in Int
      <3>1. WordBits \in Nat BY FramesAssumption
      <3>2. 2 ^ WordBits \in Int BY <3>1
      <3> QED BY <2>2, <3>2 DEF PayloadLen, Signed
    <2>4. /\ f.len = h /\ f.data = [i \in 1 .. PayloadLen(h) |-> Junk]
          /\ f.fin \in BOOLEAN /\ f.op \in {"text", "continuation", "ping", "reserved"}
      BY <2>1
    <2>5. PICK n \in Int : n = PayloadLen(h) BY <2>3
    <2>6. n > 0 => [i \in 1 .. n |-> Junk] \in Seq(Units) /\ Len([i \in 1 .. n |-> Junk]) = n
      <3>1. Junk \in Units BY DEF Units
      <3> QED BY <3>1
    <2> QED BY <1>1, <2>4, <2>5, <2>6 DEF DataTypes
  <1>2. CASE ~wild
    <2>1. PICK i \in 1 .. Len(wire) : f = wire[i] BY <1>2 DEF Arriving
    <2>2. f \in Sound BY <2>1 DEF Typed, WriterTyped
    <2>3. /\ PayloadLen(f.len) = Len(f.data) /\ f.data \in Seq(Units)
          /\ f.fin \in BOOLEAN /\ f.op \in DataTypes \cup {"continuation", "ping"}
      BY <2>2 DEF Sound
    <2> QED BY <2>2, <2>3
  <1> QED BY <1>1, <1>2

\* What readFrame makes of it, if it takes it.
LEMMA PayloadTyped ==
  ASSUME Typed, NEW f \in Arriving, Accepted(f)
  PROVE  /\ Payload(f).size \in 0 .. MaxFrameSize
         /\ Payload(f).data \in Seq(Units) /\ Len(Payload(f).data) <= MaxFrameSize
  <1>1. /\ PayloadLen(f.len) \in Int /\ PayloadLen(f.len) <= MaxFrameSize
        /\ PayloadLen(f.len) > 0 => f.data \in Seq(Units) /\ Len(f.data) = PayloadLen(f.len)
    BY ArrivingTyped DEF Accepted
  <1>2. MaxFrameSize \in Nat BY FramesAssumption
  <1>3. CASE PayloadLen(f.len) > 0 BY <1>1, <1>2, <1>3 DEF Payload
  <1>4. CASE ~(PayloadLen(f.len) > 0)
    <2>1. Payload(f).size = 0 /\ Payload(f).data = <<>> BY <1>4 DEF Payload
    <2> QED BY <1>2, <2>1
  <1> QED BY <1>3, <1>4

\* Of the wire, the reader takes nothing or the first frame.
LEMMA ArrivedTakes ==
  ASSUME Typed, NEW f, Arrived(f)
  PROVE  /\ wire' \in Seq(Sound) /\ UNCHANGED <<pc, call, writes, buf, werr, wild, mixed>>
         /\ ended = "no"
         /\ ~wild => wire # <<>> /\ f = Head(wire) /\ wire' = Tail(wire)
  <1>1. wire \in Seq(Sound) BY DEF Typed, WriterTyped
  <1>2. wire' = wire \/ (wire # <<>> /\ wire' = Tail(wire)) BY DEF Arrived
  <1>3. wire' \in Seq(Sound) BY <1>1, <1>2
  <1> QED BY <1>3 DEF Arrived

\* The messages that are due, after ReadMessage returned one.
LEMMA DueTyped ==
  ASSUME Typed, NEW m, Returned(m) \/ UNCHANGED due
  PROVE  due' \in Seq(Messages)
  <1>1. due \in Seq(Messages) BY DEF Typed, WriterTyped
  <1>2. due' = due \/ (due # <<>> /\ due' = Tail(due)) BY DEF Returned
  <1> QED BY <1>1, <1>2

\* The steps of the reader.
LEMMA ReaderStepTyped ==
  ASSUME Typed, ReaderStep
  PROVE  Typed'
  <1>0. MaxFrameSize \in Nat /\ MaxMessageSize \in Nat BY FramesAssumption
  <1>1. CASE ReadEOF
    <2>1. /\ UNCHANGED <<pc, call, writes, buf, wire, alloc, due, mtype, mbuf>>
          /\ ended = "no" /\ ended' = "eof"
      BY <1>1 DEF ReadEOF, ReadFails
    <2>2. WriterTyped' BY <2>1 DEF Typed, WriterTyped
    <2>3. ReaderTyped' /\ LimitsHold' BY <1>0, <2>1 DEF Typed, ReaderTyped, LimitsHold
    <2> QED BY <2>1, <2>2, <2>3, WritersKept DEF Typed
  <1>2. ASSUME NEW f \in Arriving,
               FrameRejected(f) \/ ReadControl(f) \/ ReadStray(f) \/ ReadData(f)
        PROVE  Typed'
    <2>1. Arrived(f) BY <1>2 DEF FrameRejected, ReadControl, ReadStray, ReadData
    <2>2. /\ wire' \in Seq(Sound) /\ UNCHANGED <<pc, call, writes, buf>> /\ ended = "no"
      BY <2>1, ArrivedTakes
    <2>3. alloc' \in 0 .. MaxFrameSize
      <3>1. CASE FrameRejected(f) BY <3>1 DEF FrameRejected, Typed, LimitsHold
      <3>2. CASE ~FrameRejected(f)
        <4>1. Accepted(f) /\ alloc' = Payload(f).size
          BY <1>2, <3>2 DEF ReadControl, ReadStray, ReadData
        <4> QED BY <4>1, PayloadTyped
      <3> QED BY <3>1, <3>2
    <2>4. due' \in Seq(Messages)
      <3>1. UNCHANGED due \/ \E m : Returned(m)
        BY <1>2, Zenon DEF FrameRejected, ReadControl, ReadStray, ReadData, ReadFails
      <3> QED BY <3>1, DueTyped
    <2>5. WriterTyped' BY <2>2, <2>4 DEF Typed, WriterTyped
    <2>6. /\ ended' \in {"no", "invalid", "large", "eof"}
          /\ mtype' \in DataTypes \cup {"none"} /\ mbuf' \in Seq(Units)
          /\ Len(mbuf') > MaxMessageSize => ended' = "large"
          /\ Len(mbuf') <= MaxMessageSize + MaxFrameSize
      <3>0. /\ mbuf \in Seq(Units) /\ mtype \in DataTypes \cup {"none"}
            /\ Len(mbuf) \in Nat /\ Len(mbuf) <= MaxMessageSize
        BY <1>0, <2>2 DEF Typed, ReaderTyped, LimitsHold
      <3>1. CASE FrameRejected(f) \/ ReadStray(f)
        <4>1. UNCHANGED <<mtype, mbuf>> /\ ended' \in {"invalid", "large"}
          BY <3>1 DEF FrameRejected, ReadStray, ReadFails
        <4> QED BY <1>0, <3>0, <4>1
      <3>2. CASE ReadControl(f)
        <4>1. mtype' = "none" /\ mbuf' = <<>> /\ ended' = "no"
          BY <2>2, <3>2 DEF ReadControl, Restart
        <4> QED BY <1>0, <4>1
      <3>3. CASE ReadData(f)
        <4> DEFINE type == IF f.op = "continuation" THEN mtype ELSE f.op
                   data == mbuf \o Payload(f).data
        <4>1. /\ Accepted(f) /\ f.op # "ping" /\ f.op # "reserved"
              /\ f.op = "continuation" => mtype # "none"
          BY <3>3 DEF ReadData, Accepted
        <4>2. Payload(f).data \in Seq(Units) /\ Len(Payload(f).data) <= MaxFrameSize
          BY <4>1, PayloadTyped
        <4>3. data \in Seq(Units) /\ Len(data) = Len(mbuf) + Len(Payload(f).data)
          BY <3>0, <4>2
        <4>4. type \in DataTypes BY <3>0, <4>1, ArrivingTyped
        <4>5. \/ mtype' = "none" /\ mbuf' = <<>> /\ ended' = "no"
              \/ mtype' = type /\ mbuf' = data /\ ended' = "large"
              \/ /\ mtype' = type /\ mbuf' = data /\ ended' = "no"
                 /\ ~(Len(data) > MaxMessageSize)
          BY <2>2, <3>3 DEF ReadData, Restart, TooLarge
        <4>6. Len(Payload(f).data) \in Nat BY <4>2
        <4>7. Len(data) \in Nat /\ Len(data) <= MaxMessageSize + MaxFrameSize
          BY <1>0, <3>0, <4>2, <4>3, <4>6
        <4> HIDE DEF type, data
        <4>8. CASE mtype' = "none" /\ mbuf' = <<>> /\ ended' = "no"
          BY <1>0, <4>8
        <4>9. CASE mtype' = type /\ mbuf' = data /\ ended' = "large"
          BY <4>3, <4>4, <4>7, <4>9
        <4>10. CASE /\ mtype' = type /\ mbuf' = data /\ ended' = "no"
                    /\ ~(Len(data) > MaxMessageSize)
          BY <4>3, <4>4, <4>7, <4>10
        <4> QED BY <4>5, <4>8, <4>9, <4>10
      <3> QED BY <1>2, <3>1, <3>2, <3>3
    <2>7. ReaderTyped' /\ LimitsHold' BY <2>3, <2>6 DEF ReaderTyped, LimitsHold
    <2> QED BY <2>2, <2>5, <2>7, WritersKept DEF Typed
  <1> QED BY <1>1, <1>2 DEF ReaderStep

\* Every step keeps the types.
LEMMA TypedNext == Typed /\ [Next]_vars => Typed'
  <1> SUFFICES ASSUME Typed, [Next]_vars PROVE Typed' OBVIOUS
  <1>1. CASE UNCHANGED vars \/ ForeignPeer \/ Idle
    <2>1. UNCHANGED <<pc, call, writes, buf, wire, mtype, mbuf, alloc, ended, due>>
      BY <1>1 DEF vars, ForeignPeer, Idle, readVars
    <2>2. WriterTyped' BY <2>1 DEF Typed, WriterTyped
    <2>3. ReaderTyped' /\ LimitsHold' BY <2>1 DEF Typed, ReaderTyped, LimitsHold
    <2> QED BY <2>1, <2>2, <2>3, WritersKept DEF Typed
  <1>2. CASE \/ \E t \in Writers : WriteMessage(t) \/ WriteFragmented(t)
             \/ WriteControl(Pinger)
    <2>1. PICK t \in Threads : \E kind, type, data, size : Calling(t, kind, type, data, size)
      BY <1>2, CallsMade
    <2> QED BY <2>1, CallTyped
  <1>3. ASSUME NEW t \in Threads, WriterStep(t) \/ Race(t) PROVE Typed'
    BY <1>3, WriterStepTyped
  <1>4. CASE ReaderStep BY <1>4, ReaderStepTyped
  <1> QED BY <1>1, <1>2, <1>3, <1>4 DEF Next

\* readFrame makes no payload of more than MaxFrameSize, nor of a negative
\* size, and ReadMessage exceeds MaxMessageSize by one payload at most, with
\* which it ends the connection, whatever the peer sends.
THEOREM LimitsAreKept == Spec => []LimitsHold
  <1>1. Typed => LimitsHold BY DEF Typed
  <1> QED BY <1>1, TypedInit, TypedNext, PTL DEF Spec

-----------------------------------------------------------------------------
(* Parsing what is on its way.  D are the messages that are due, last the  *)
(* one of which some frames are written, but not all.  Before frame i of S *)
(* ks[i-1] messages of D are complete, and os[i-1] units of the next.      *)

\* The k-th message.
Msg(D, last, k) == IF k <= Len(D) THEN D[k] ELSE last

\* Frame f carries the part of m that starts at o.
Carries(f, m, o) ==
  /\ f.op = IF o > 0 THEN "continuation" ELSE m.type
  /\ o + Len(f.data) <= Len(m.data)
  /\ f.data = SubSeq(m.data, o + 1, o + Len(f.data))
  /\ f.fin <=> o + Len(f.data) = Len(m.data)
  /\ ~f.fin => Len(f.data) > 0

\* From position k, o frame f leads to position k2, o2.
Leads(f, D, last, k, o, k2, o2) ==
  \/ f.op = "ping" /\ f.data = <<>> /\ o = 0 /\ k2 = k /\ o2 = 0
  \/ /\ f.op # "ping" /\ Carries(f, Msg(D, last, k + 1), o)
     /\ IF f.fin THEN k2 = k + 1 /\ o2 = 0 ELSE k2 = k /\ o2 = o + Len(f.data)

Parse(S, D, last, ks, os) ==
  /\ ks \in [0 .. Len(S) -> 0 .. Len(D)] /\ os \in [0 .. Len(S) -> Nat]
  /\ \A i, j \in 0 .. Len(S) : i <= j => ks[i] <= ks[j]
  /\ \A i \in 1 .. Len(S) : Leads(S[i], D, last, ks[i - 1], os[i - 1], ks[i], os[i])

\* Nothing is written of a message that is not due.
Whole(S, D, ks, os) == \A i \in 0 .. Len(S) : ks[i] = Len(D) => os[i] = 0

\* More messages are due, and what was written of the next is its.
GoesOn(S, D, last, ks, os, D2, last2) ==
  /\ Len(D) <= Len(D2) /\ \A k \in 1 .. Len(D) : D2[k] = D[k]
  /\ Whole(S, D, ks, os) \/ Msg(D2, last2, Len(D) + 1) = last

\* Then the frames mean the same.
LEMMA LeadsAnyway ==
  ASSUME NEW S \in Seq(Sound), NEW D \in Seq(Messages), NEW last, NEW ks, NEW os,
         Parse(S, D, last, ks, os), NEW i \in 1 .. Len(S),
         NEW D2 \in Seq(Messages), NEW last2, GoesOn(S, D, last, ks, os, D2, last2)
  PROVE  Leads(S[i], D2, last2, ks[i - 1], os[i - 1], ks[i], os[i])
  <1>0. i - 1 \in 0 .. Len(S) /\ i \in 0 .. Len(S) OBVIOUS
  <1>1. /\ i - 1 \in 0 .. Len(S) /\ i \in 0 .. Len(S)
        /\ ks[i - 1] \in 0 .. Len(D) /\ ks[i] \in 0 .. Len(D) /\ os[i - 1] \in Nat /\ os[i] \in Nat
    BY <1>0 DEF Parse
  <1>2. Leads(S[i], D, last, ks[i - 1], os[i - 1], ks[i], os[i]) BY DEF Parse
  <1>3. CASE ks[i - 1] < Len(D)
    <2>0. PICK k \in Nat, d \in Nat, e \in Nat : k = ks[i - 1] /\ d = Len(D) /\ e = Len(D2)
      BY <1>1
    <2>1. ks[i - 1] + 1 \in 1 .. Len(D) /\ ks[i - 1] + 1 <= Len(D2)
      <3>1. d <= e BY <2>0 DEF GoesOn
      <3>2. k + 1 \in 1 .. d /\ k + 1 <= e BY <1>3, <2>0, <3>1
      <3> QED BY <2>0, <3>2
    <2>2. Msg(D2, last2, ks[i - 1] + 1) = Msg(D, last, ks[i - 1] + 1) BY <2>1 DEF Msg, GoesOn
    <2> QED BY <1>2, <2>2 DEF Leads
  <1>4. CASE ks[i - 1] = Len(D)
    <2>1. Msg(D, last, ks[i - 1] + 1) = last BY <1>4 DEF Msg
    <2>2. CASE Msg(D2, last2, Len(D) + 1) = last
      <3>1. Msg(D2, last2, ks[i - 1] + 1) = Msg(D, last, ks[i - 1] + 1) BY <1>4, <2>1, <2>2
      <3> QED BY <1>2, <3>1 DEF Leads
    <2>3. CASE Whole(S, D, ks, os)
      <3>1. S[i] \in Sound /\ Len(S[i].data) \in Nat BY DEF Sound
      <3>2. ks[i] = Len(D) => os[i] = 0 BY <1>1, <2>3 DEF Whole
      <3>3. CASE S[i].op = "ping" BY <1>2, <3>3 DEF Leads
      <3>4. CASE S[i].op # "ping"
        <4>1. /\ ~S[i].fin => Len(S[i].data) > 0
              /\ IF S[i].fin THEN ks[i] = ks[i - 1] + 1
                 ELSE ks[i] = ks[i - 1] /\ os[i] = os[i - 1] + Len(S[i].data)
          BY <1>2, <3>4 DEF Leads, Carries
        <4> QED BY <1>1, <1>4, <3>1, <3>2, <4>1
      <3> QED BY <3>3, <3>4
    <2> QED BY <2>2, <2>3 DEF GoesOn
  <1> QED BY <1>1, <1>3, <1>4

\* So another message can be begun.
LEMMA ParseBegins ==
  ASSUME NEW S \in Seq(Sound), NEW D \in Seq(Messages), NEW last, NEW ks, NEW os,
         Parse(S, D, last, ks, os), Whole(S, D, ks, os), NEW last2
  PROVE  Parse(S, D, last2, ks, os)
  <1>1. ASSUME NEW i \in 1 .. Len(S)
        PROVE  Leads(S[i], D, last2, ks[i - 1], os[i - 1], ks[i], os[i])
    <2>1. GoesOn(S, D, last, ks, os, D, last2) BY DEF GoesOn
    <2> QED BY <2>1, LeadsAnyway
  <1> QED BY <1>1 DEF Parse

\* A further frame, with which a message may become due.
LEMMA ParseExtends ==
  ASSUME NEW S \in Seq(Sound), NEW D \in Seq(Messages), NEW last, NEW ks, NEW os,
         Parse(S, D, last, ks, os),
         NEW D2 \in Seq(Messages), NEW last2, GoesOn(S, D, last, ks, os, D2, last2),
         NEW f \in Sound, NEW k2 \in 0 .. Len(D2), NEW o2 \in Nat,
         ks[Len(S)] <= k2,
         Leads(f, D2, last2, ks[Len(S)], os[Len(S)], k2, o2)
  PROVE  \E ks2, os2 :
           /\ Parse(Append(S, f), D2, last2, ks2, os2)
           /\ ks2[Len(S) + 1] = k2 /\ os2[Len(S) + 1] = o2
           /\ \A i \in 0 .. Len(S) : ks2[i] = ks[i] /\ os2[i] = os[i]
  <1> DEFINE n == Len(S)
             T == Append(S, f)
             ks2 == [i \in 0 .. (n + 1) |-> IF i = n + 1 THEN k2 ELSE ks[i]]
             os2 == [i \in 0 .. (n + 1) |-> IF i = n + 1 THEN o2 ELSE os[i]]
  <1>1. /\ n \in Nat /\ Len(T) = n + 1 /\ T[n + 1] = f /\ \A i \in 1 .. n : T[i] = S[i]
    OBVIOUS
  <1>2. /\ ks \in [0 .. n -> 0 .. Len(D)] /\ os \in [0 .. n -> Nat]
        /\ \A i, j \in 0 .. n : i <= j => ks[i] <= ks[j]
    BY DEF Parse
  <1>3. Len(D) \in Nat /\ Len(D2) \in Nat /\ Len(D) <= Len(D2) BY DEF GoesOn
  <1> HIDE DEF n, T
  <1>4. /\ ks2[n + 1] = k2 /\ os2[n + 1] = o2
        /\ \A i \in 0 .. n : ks2[i] = ks[i] /\ os2[i] = os[i]
    BY <1>1
  <1>5. ks2 \in [0 .. (n + 1) -> 0 .. Len(D2)] /\ os2 \in [0 .. (n + 1) -> Nat]
    <2>1. ASSUME NEW i \in 0 .. (n + 1), i # n + 1
          PROVE  ks[i] \in 0 .. Len(D2) /\ os[i] \in Nat
      <3>1. i \in 0 .. n BY <1>1, <2>1
      <3>2. ks[i] \in 0 .. Len(D) /\ os[i] \in Nat BY <1>2, <3>1
      <3> QED BY <1>3, <3>2
    <2> QED BY <2>1
  <1> HIDE DEF ks2, os2
  <1>6. ASSUME NEW i \in 0 .. (n + 1), NEW j \in 0 .. (n + 1), i <= j
        PROVE  ks2[i] <= ks2[j]
    <2>0. ks[n] <= k2 /\ n \in 0 .. n BY <1>1 DEF n
    <2>1. CASE j \in 0 .. n
      <3>1. i \in 0 .. n BY <1>1, <1>6, <2>1
      <3> QED BY <1>2, <1>4, <1>6, <2>1, <3>1
    <2>2. CASE j = n + 1 /\ i = n + 1
      <3>1. ks2[j] = k2 /\ ks2[i] = k2 BY <1>4, <2>2
      <3>2. k2 <= k2 BY <1>3
      <3> QED BY <3>1, <3>2
    <2>3. CASE j = n + 1 /\ i \in 0 .. n
      <3>1. ks[i] <= ks[n] BY <1>1, <1>2, <2>0, <2>3
      <3>2. ks[i] \in 0 .. Len(D) /\ ks[n] \in 0 .. Len(D) BY <1>2, <2>0, <2>3
      <3>3. ks[i] \in Int /\ ks[n] \in Int /\ k2 \in Int BY <1>3, <3>2
      <3>4. ks[i] <= k2 BY <2>0, <3>1, <3>3
      <3> QED BY <1>4, <2>3, <3>4
    <2> QED BY <1>1, <2>1, <2>2, <2>3
  <1>7. ASSUME NEW i \in 1 .. (n + 1)
        PROVE  Leads(T[i], D2, last2, ks2[i - 1], os2[i - 1], ks2[i], os2[i])
    <2>1. CASE i \in 1 .. n
      <3>1. Leads(S[i], D2, last2, ks[i - 1], os[i - 1], ks[i], os[i])
        BY <2>1, LeadsAnyway DEF n
      <3>2. i \in 0 .. n /\ i - 1 \in 0 .. n BY <1>1, <2>1
      <3> QED BY <1>1, <1>4, <2>1, <3>1, <3>2
    <2>2. CASE i = n + 1
      <3>1. i - 1 = n /\ n \in 0 .. n BY <1>1, <2>2
      <3> QED BY <1>1, <1>4, <2>2, <3>1 DEF n
    <2> QED BY <1>1, <2>1, <2>2
  <1>8. Parse(T, D2, last2, ks2, os2) BY <1>1, <1>5, <1>6, <1>7 DEF Parse
  <1> QED BY <1>4, <1>8 DEF n, T

\* The first d messages are not due any more.
Drops(D, D2, d) == Len(D2) = Len(D) - d /\ \A k \in 1 .. Len(D2) : D2[k] = D[k + d]

\* The first frame completes d messages.
First(ks, d) == d \in {0, 1} /\ ks[0] = 0 /\ ks[1] = d

\* The positions that are left.
Shifted(S, ks, os, d, ks2, os2) ==
  \A i \in 0 .. (Len(S) - 1) : ks2[i] = ks[i + 1] - d /\ os2[i] = os[i + 1]

\* The first frame is taken, with which ReadMessage may return.
LEMMA ParseTakes ==
  ASSUME NEW S \in Seq(Sound), S # <<>>, NEW D \in Seq(Messages), NEW last, NEW ks, NEW os,
         Parse(S, D, last, ks, os), NEW d, First(ks, d),
         NEW D2 \in Seq(Messages), Drops(D, D2, d)
  PROVE  \E ks2, os2 : Parse(Tail(S), D2, last, ks2, os2) /\ Shifted(S, ks, os, d, ks2, os2)
  <1> USE DEF First
  <1> DEFINE n == Len(S)
             T == Tail(S)
             ks2 == [i \in 0 .. (n - 1) |-> ks[i + 1] - d]
             os2 == [i \in 0 .. (n - 1) |-> os[i + 1]]
  <1>1. n \in Nat /\ n > 0 /\ Len(T) = n - 1 /\ \A i \in 1 .. (n - 1) : T[i] = S[i + 1]
    OBVIOUS
  <1>2. /\ ks \in [0 .. n -> 0 .. Len(D)] /\ os \in [0 .. n -> Nat]
        /\ \A i, j \in 0 .. n : i <= j => ks[i] <= ks[j]
        /\ \A i \in 1 .. n : Leads(S[i], D, last, ks[i - 1], os[i - 1], ks[i], os[i])
    BY DEF Parse
  <1>3. /\ Len(D) \in Nat /\ Len(D2) \in Nat
        /\ Len(D2) = Len(D) - d /\ \A k \in 1 .. Len(D2) : D2[k] = D[k + d]
    BY DEF Drops
  <1> HIDE DEF n, T
  <1>4. \A i \in 0 .. (n - 1) : ks2[i] = ks[i + 1] - d /\ os2[i] = os[i + 1] OBVIOUS
  <1>5. ASSUME NEW i \in 0 .. (n - 1)
        PROVE  /\ i + 1 \in 0 .. n /\ ks[i + 1] - d \in 0 .. Len(D2) /\ os[i + 1] \in Nat
    <2>1. i + 1 \in 0 .. n /\ 1 \in 0 .. n /\ 1 <= i + 1 BY <1>1
    <2>2. ks[1] <= ks[i + 1] BY <1>2, <2>1
    <2>3. ks[1] = d BY <1>1
    <2>4. ks[i + 1] \in 0 .. Len(D) BY <1>2, <2>1
    <2> QED BY <1>2, <1>3, <2>1, <2>2, <2>3, <2>4
  <1>6. ks2 \in [0 .. (n - 1) -> 0 .. Len(D2)] /\ os2 \in [0 .. (n - 1) -> Nat]
    BY <1>5
  <1> HIDE DEF ks2, os2
  <1>7. ASSUME NEW i \in 0 .. (n - 1), NEW j \in 0 .. (n - 1), i <= j
        PROVE  ks2[i] <= ks2[j]
    <2>1. i + 1 \in 0 .. n /\ j + 1 \in 0 .. n /\ i + 1 <= j + 1 BY <1>1, <1>7
    <2>2. ks[i + 1] <= ks[j + 1] /\ ks[i + 1] \in Int /\ ks[j + 1] \in Int
      <3>1. ks[i + 1] <= ks[j + 1] BY <1>2, <2>1
      <3>2. ks[i + 1] \in 0 .. Len(D) /\ ks[j + 1] \in 0 .. Len(D) BY <1>2, <2>1
      <3> QED BY <1>3, <3>1, <3>2
    <2>3. ks2[i] = ks[i + 1] - d /\ ks2[j] = ks[j + 1] - d /\ d \in Int BY <1>4
    <2> QED BY <2>2, <2>3
  <1>8. ASSUME NEW i \in 1 .. (n - 1)
        PROVE  Leads(T[i], D2, last, ks2[i - 1], os2[i - 1], ks2[i], os2[i])
    <2>1. /\ i + 1 \in 1 .. n /\ (i + 1) - 1 = i /\ (i - 1) + 1 = i
          /\ i \in 0 .. (n - 1) /\ i - 1 \in 0 .. (n - 1) /\ i \in 0 .. n /\ i + 1 \in 0 .. n
      BY <1>1
    <2>2. Leads(S[i + 1], D, last, ks[i], os[i], ks[i + 1], os[i + 1])
      BY <1>2, <2>1
    <2>3. /\ ks2[i - 1] = ks[i] - d /\ os2[i - 1] = os[i]
          /\ ks2[i] = ks[i + 1] - d /\ os2[i] = os[i + 1] /\ T[i] = S[i + 1]
      BY <1>1, <1>4, <2>1
    <2>4. ks[i] \in Nat /\ ks[i] - d \in 0 .. Len(D2) /\ ks[i + 1] \in Nat
      <3>1. ks2[i - 1] \in 0 .. Len(D2) BY <1>6, <2>1
      <3>2. ks[i] \in 0 .. Len(D) /\ ks[i + 1] \in 0 .. Len(D) BY <1>2, <2>1
      <3> QED BY <1>3, <2>3, <3>1, <3>2
    <2>5. Msg(D2, last, (ks[i] - d) + 1) = Msg(D, last, ks[i] + 1)
      <3>1. CASE ks[i] - d + 1 <= Len(D2)
        <4>0. PICK k \in Nat, e \in Nat : k = ks[i] /\ e = Len(D2) BY <1>3, <2>4
        <4>1. /\ ks[i] - d + 1 \in 1 .. Len(D2) /\ (ks[i] - d + 1) + d = ks[i] + 1
              /\ ks[i] + 1 <= Len(D)
          <5>1. Len(D) = e + d /\ k - d \in 0 .. e /\ k - d + 1 <= e /\ d \in Nat
            BY <1>3, <2>4, <3>1, <4>0
          <5>2. k - d + 1 \in 1 .. e /\ (k - d + 1) + d = k + 1 /\ k + 1 <= e + d BY <5>1
          <5> QED BY <4>0, <5>1, <5>2
        <4>2. D2[ks[i] - d + 1] = D[ks[i] + 1] BY <1>3, <4>1
        <4> QED BY <3>1, <4>1, <4>2 DEF Msg
      <3>2. CASE ~(ks[i] - d + 1 <= Len(D2))
        <4>1. ~(ks[i] + 1 <= Len(D)) BY <1>3, <2>4, <3>2
        <4> QED BY <3>2, <4>1 DEF Msg
      <3> QED BY <3>1, <3>2
    <2>6. CASE S[i + 1].op = "ping" BY <2>2, <2>3, <2>6 DEF Leads
    <2>7. CASE S[i + 1].op # "ping"
      <3>1. /\ Carries(S[i + 1], Msg(D, last, ks[i] + 1), os[i])
            /\ IF S[i + 1].fin THEN ks[i + 1] = ks[i] + 1 /\ os[i + 1] = 0
               ELSE ks[i + 1] = ks[i] /\ os[i + 1] = os[i] + Len(S[i + 1].data)
        BY <2>2, <2>7 DEF Leads
      <3>2. S[i + 1].fin => ks2[i] = ks2[i - 1] + 1
        BY <2>3, <2>4, <3>1
      <3>3. ~S[i + 1].fin => ks2[i] = ks2[i - 1] BY <2>3, <3>1
      <3>4. Carries(T[i], Msg(D2, last, ks2[i - 1] + 1), os2[i - 1])
        BY <2>3, <2>5, <3>1
      <3> QED BY <2>3, <2>7, <3>1, <3>2, <3>3, <3>4 DEF Leads
    <2> QED BY <2>6, <2>7
  <1>9. Parse(T, D2, last, ks2, os2) BY <1>1, <1>6, <1>7, <1>8 DEF Parse
  <1> QED BY <1>4, <1>9 DEF n, T, Shifted

\* Frames at the end are lost.
LEMMA ParseLoses ==
  ASSUME NEW S \in Seq(Sound), NEW D \in Seq(Messages), NEW last, NEW ks, NEW os,
         Parse(S, D, last, ks, os), NEW p \in 0 .. Len(S)
  PROVE  \E ks2, os2 :
           /\ Parse(SubSeq(S, 1, p), D, last, ks2, os2)
           /\ ks2[0] = ks[0] /\ os2[0] = os[0]
  <1> DEFINE T == SubSeq(S, 1, p)
             ks2 == [i \in 0 .. p |-> ks[i]]
             os2 == [i \in 0 .. p |-> os[i]]
  <1>1. Len(S) \in Nat /\ p \in Nat /\ Len(T) = p /\ \A i \in 1 .. p : T[i] = S[i] OBVIOUS
  <1>2. /\ ks \in [0 .. Len(S) -> 0 .. Len(D)] /\ os \in [0 .. Len(S) -> Nat]
        /\ \A i, j \in 0 .. Len(S) : i <= j => ks[i] <= ks[j]
        /\ \A i \in 1 .. Len(S) : Leads(S[i], D, last, ks[i - 1], os[i - 1], ks[i], os[i])
    BY DEF Parse
  <1> HIDE DEF T
  <1>3. \A i \in 0 .. p : i \in 0 .. Len(S) /\ ks2[i] = ks[i] /\ os2[i] = os[i] BY <1>1
  <1>4. ks2 \in [0 .. p -> 0 .. Len(D)] /\ os2 \in [0 .. p -> Nat] BY <1>2, <1>3
  <1> HIDE DEF ks2, os2
  <1>5. ASSUME NEW i \in 1 .. p
        PROVE  Leads(T[i], D, last, ks2[i - 1], os2[i - 1], ks2[i], os2[i])
    <2>1. i \in 1 .. Len(S) /\ i \in 0 .. p /\ i - 1 \in 0 .. p BY <1>1
    <2> QED BY <1>1, <1>2, <1>3, <2>1
  <1>6. \A i, j \in 0 .. p : i <= j => ks2[i] <= ks2[j] BY <1>2, <1>3
  <1>7. Parse(T, D, last, ks2, os2) BY <1>1, <1>4, <1>5, <1>6 DEF Parse
  <1>8. 0 \in 0 .. p BY <1>1
  <1> QED BY <1>3, <1>7, <1>8 DEF T

-----------------------------------------------------------------------------
(* The stream between the writers and the reader                           *)

Pending == wire \o buf

\* How much of a fragmented message is in frames.
Filled(t) == IF pc[t] = "flush" THEN FragmentEnd(t) ELSE call[t].pos

Unfinished(t) == Fragmented(t) /\ Filled(t) > 0 /\ Filled(t) < Len(call[t].data)

MessageOf(t) == [type |-> call[t].type, data |-> call[t].data]

\* The reader is at the first position, with what it has read of the first
\* message.
ReaderAt(last, ks, os) ==
  LET m == Msg(due, last, 1) IN
  /\ ks[0] = 0 /\ os[0] = Len(mbuf)
  /\ Len(mbuf) <= Len(m.data) /\ mbuf = SubSeq(m.data, 1, Len(mbuf))
  /\ mtype = IF Len(mbuf) > 0 THEN m.type ELSE "none"

\* The writers are at the last.
WriterAt(last, ks, os) ==
  /\ ks[Len(Pending)] = Len(due)
  /\ \/ \E t \in Threads : Unfinished(t) /\ os[Len(Pending)] = Filled(t) /\ last = MessageOf(t)
     \/ Whole(Pending, due, ks, os) /\ \A t \in Threads : ~Unfinished(t)

Flow(last, ks, os) ==
  /\ last \in Messages
  /\ Parse(Pending, due, last, ks, os)
  /\ ReaderAt(last, ks, os)
  /\ ~werr => WriterAt(last, ks, os)

\* A call whose message is not due yet.
NotDue(t) == ~(pc[t] = "flush" /\ LastFrame(t))

\* What has made the reader break the connection is still to be seen.
Excused ==
  ended \in {"invalid", "large"} =>
    \/ mixed \/ wild \/ werr
    \/ /\ ended = "large"
       /\ \/ \E i \in 1 .. Len(due) : Oversized(due[i].data)
          \/ \E t \in Threads : NotDue(t) /\ Oversized(call[t].data)

Streaming == ~mixed /\ ~wild /\ ended = "no" => \E last, ks, os : Flow(last, ks, os)

\* The inductive invariant.
StreamInv == Typed /\ ~wrong /\ Streaming /\ Excused

\* At the start nothing is written.
LEMMA StreamInit == Init => StreamInv
  <1> SUFFICES ASSUME Init PROVE StreamInv OBVIOUS
  <1>1. Typed BY TypedInit
  <1>2. ~wrong /\ Excused BY DEF Init, Excused
  <1>3. PICK last : last \in Messages
    <2>1. [type |-> "text", data |-> <<>>] \in Messages BY DEF Messages, DataTypes
    <2> QED BY <2>1
  <1> DEFINE zero == [i \in 0 .. 0 |-> 0]
  <1>4. Pending = <<>> /\ due = <<>> /\ Len(Pending) = 0 /\ Len(due) = 0 BY DEF Init, Pending
  <1>5. zero \in [0 .. 0 -> 0 .. 0] /\ zero \in [0 .. 0 -> Nat] /\ zero[0] = 0 OBVIOUS
  <1>6. Parse(Pending, due, last, zero, zero)
    <2> HIDE DEF zero
    <2>1. 0 .. 0 = {0} /\ 1 .. 0 = {} OBVIOUS
    <2> QED BY <1>4, <1>5, <2>1 DEF Parse
  <1>7. ReaderAt(last, zero, zero)
    <2>1. Msg(due, last, 1) = last BY <1>4 DEF Msg
    <2>2. mbuf = <<>> /\ mtype = "none" /\ Len(mbuf) = 0 BY DEF Init
    <2>3. last.data \in Seq(Units) BY <1>3 DEF Messages
    <2>4. SubSeq(last.data, 1, 0) = <<>> /\ 0 <= Len(last.data) BY <2>3
    <2> HIDE DEF zero
    <2> QED BY <1>5, <2>1, <2>2, <2>4 DEF ReaderAt
  <1>8. WriterAt(last, zero, zero)
    <2>1. \A t \in Threads : ~Unfinished(t) BY DEF Init, Unfinished, Fragmented, NoCall
    <2> HIDE DEF zero
    <2>2. Whole(Pending, due, zero, zero) BY <1>4, <1>5 DEF Whole
    <2> QED BY <1>4, <1>5, <2>1, <2>2 DEF WriterAt
  <1>9. Flow(last, zero, zero) BY <1>3, <1>6, <1>7, <1>8 DEF Flow
  <1> QED BY <1>1, <1>2, <1>9 DEF StreamInv, Streaming

\* What the types say of the stream.
LEMMA PendingTyped ==
  ASSUME Typed
  PROVE  Pending \in Seq(Sound) /\ due \in Seq(Messages) /\ Len(Pending) \in Nat /\ Len(due) \in Nat
  <1>1. wire \in Seq(Sound) /\ buf \in Seq(Sound) /\ due \in Seq(Messages)
    BY DEF Typed, WriterTyped
  <1>2. Pending \in Seq(Sound) BY <1>1 DEF Pending
  <1> QED BY <1>1, <1>2

\* A message that is being written is a message.
LEMMA MessageTyped ==
  ASSUME Typed, NEW t \in Threads, call[t].kind \in {"message", "fragmented"}
  PROVE  /\ MessageOf(t) \in Messages /\ MessageOf(t).data = call[t].data
         /\ MessageOf(t).type = call[t].type /\ Len(call[t].data) \in Nat
  <1>1. call[t] \in Calls /\ CallOK(t) BY DEF Typed, WriterTyped
  <1> QED BY <1>1 DEF MessageOf, Messages, CallOK, Calls

\* A step of goroutine t that leaves the stream alone, and changes neither
\* what is unfinished nor what of it is filled.
LEMMA FlowKept ==
  ASSUME NEW last, NEW ks, NEW os, Flow(last, ks, os),
         Pending' = Pending, UNCHANGED <<due, mbuf, mtype>>,
         ~werr' => ~werr,
         ~werr' => \A u \in Threads :
           /\ Unfinished(u)' <=> Unfinished(u)
           /\ Unfinished(u) => Filled(u)' = Filled(u) /\ MessageOf(u)' = MessageOf(u)
  PROVE  Flow(last, ks, os)'
  <1>1. (last \in Messages)' /\ Parse(Pending, due, last, ks, os)'
    BY DEF Flow
  <1>2. ReaderAt(last, ks, os)' BY DEF Flow, ReaderAt
  <1>3. ASSUME ~werr' PROVE WriterAt(last, ks, os)'
    <2>1. WriterAt(last, ks, os) BY <1>3 DEF Flow
    <2>2. (ks[Len(Pending)] = Len(due))' BY <2>1 DEF WriterAt
    <2>3. CASE \E t \in Threads : Unfinished(t) /\ os[Len(Pending)] = Filled(t) /\ last = MessageOf(t)
      <3>1. PICK t \in Threads :
              Unfinished(t) /\ os[Len(Pending)] = Filled(t) /\ last = MessageOf(t)
        BY <2>3
      <3>2. Unfinished(t)' /\ Filled(t)' = Filled(t) /\ MessageOf(t)' = MessageOf(t)
        BY <1>3, <3>1
      <3>3. (Unfinished(t) /\ os[Len(Pending)] = Filled(t) /\ last = MessageOf(t))'
        BY <3>1, <3>2
      <3> QED BY <2>2, <3>3 DEF WriterAt
    <2>4. CASE Whole(Pending, due, ks, os) /\ \A t \in Threads : ~Unfinished(t)
      <3>1. (Whole(Pending, due, ks, os) /\ \A t \in Threads : ~Unfinished(t))'
        BY <1>3, <2>4
      <3> QED BY <2>2, <3>1 DEF WriterAt
    <2> QED BY <2>1, <2>3, <2>4 DEF WriterAt
  <1> QED BY <1>1, <1>2, <1>3 DEF Flow


\* A goroutine that does nothing.
LEMMA OtherKept ==
  ASSUME NEW u \in Threads, pc'[u] = pc[u], call'[u] = call[u]
  PROVE  /\ Unfinished(u)' <=> Unfinished(u)
         /\ Filled(u)' = Filled(u) /\ MessageOf(u)' = MessageOf(u)
         /\ NotDue(u)' <=> NotDue(u)
  BY DEF Unfinished, Filled, MessageOf, NotDue, Fragmented, FragmentEnd, LastFrame

\* What is unfinished is between its fragments, and a message.
LEMMA UnfinishedMid ==
  ASSUME Typed, NEW t \in Threads, Unfinished(t)
  PROVE  /\ Fragmented(t) /\ MidMessage(t) /\ NotDue(t)
         /\ MessageOf(t) \in Messages /\ Filled(t) \in Nat
  <1>1. Fragmented(t) /\ Filled(t) > 0 /\ Filled(t) < Len(call[t].data) BY DEF Unfinished
  <1>2. FragmentEnd(t) \in Nat BY <1>1, FragmentTyped
  <1>3. MessageOf(t) \in Messages /\ Len(call[t].data) \in Nat
    BY <1>1, MessageTyped DEF Fragmented
  <1>4. call[t].pos \in Nat BY DEF Typed, WriterTyped, Calls
  <1>5. pc[t] = "flush" => ~LastFrame(t) BY <1>1, <1>2, <1>3 DEF Filled, LastFrame
  <1>6. pc[t] # "flush" => call[t].pos > 0 BY <1>1 DEF Filled
  <1> QED BY <1>1, <1>2, <1>3, <1>4, <1>5, <1>6 DEF MidMessage, NotDue, Filled

\* A call is made: nothing of it is written yet.
LEMMA CallFlows ==
  ASSUME Typed, NEW t \in Threads, NEW kind, NEW type, NEW data, NEW size,
         Calling(t, kind, type, data, size), NEW last, NEW ks, NEW os, Flow(last, ks, os)
  PROVE  Flow(last, ks, os)'
  <1> DEFINE new == [kind |-> kind, type |-> type, data |-> data, size |-> size, pos |-> 0]
  <1>1. /\ pc[t] = "idle" /\ pc' = [pc EXCEPT ![t] = "fill"] /\ call' = [call EXCEPT ![t] = new]
        /\ UNCHANGED <<buf, wire, werr, mtype, mbuf, due>>
    BY DEF Calling, Call, readVars
  <1>2. /\ pc'[t] = "fill" /\ call'[t] = new
        /\ \A u \in Threads \ {t} : pc'[u] = pc[u] /\ call'[u] = call[u]
    BY <1>1 DEF Typed, WriterTyped
  <1>3. ~Unfinished(t) BY <1>1 DEF Typed, CallOK, Unfinished, Fragmented
  <1>4. ~Unfinished(t)' BY <1>2 DEF Unfinished, Filled
  <1>5. ASSUME NEW u \in Threads
        PROVE  /\ Unfinished(u)' <=> Unfinished(u)
               /\ Unfinished(u) => Filled(u)' = Filled(u) /\ MessageOf(u)' = MessageOf(u)
    <2>1. CASE u = t BY <1>3, <1>4, <2>1
    <2>2. CASE u # t BY <1>2, <2>2, OtherKept
    <2> QED BY <2>1, <2>2
  <1>6. Pending' = Pending BY <1>1 DEF Pending
  <1> QED BY <1>1, <1>5, <1>6, FlowKept

\* The frame that is written next carries its part of the message.
LEMMA FrameCarries ==
  ASSUME Typed, NEW t \in Threads, pc[t] = "fill", call[t].kind \in {"message", "fragmented"}
  PROVE  /\ Carries(NextFrame(t), MessageOf(t), call[t].pos)
         /\ NextFrame(t).op # "ping" /\ NextFrame(t).fin = LastFrame(t)
         /\ Fragmented(t) => call[t].pos + Len(NextFrame(t).data) = FragmentEnd(t)
  <1>1. call[t] \in Calls /\ CallOK(t) BY DEF Typed, WriterTyped
  <1>2. /\ MessageOf(t).data = call[t].data /\ MessageOf(t).type = call[t].type
        /\ Len(call[t].data) \in Nat
    BY MessageTyped
  <1>3. call[t].pos \in Nat /\ call[t].data \in Seq(Units) /\ call[t].type \in DataTypes
    BY <1>1 DEF Calls, CallOK
  <1>4. CASE Fragmented(t)
    <2> DEFINE part == SubSeq(call[t].data, call[t].pos + 1, FragmentEnd(t))
    <2>1. /\ FragmentEnd(t) \in Nat /\ call[t].pos < FragmentEnd(t)
          /\ FragmentEnd(t) <= Len(call[t].data)
          /\ Len(part) = FragmentEnd(t) - call[t].pos
      BY <1>4, FragmentTyped
    <2>2. LastFrame(t) <=> FragmentEnd(t) = Len(call[t].data) BY <1>4 DEF LastFrame
    <2>3. /\ NextFrame(t).fin = LastFrame(t) /\ NextFrame(t).data = part
          /\ NextFrame(t).op = IF call[t].pos > 0 THEN "continuation" ELSE call[t].type
      BY <1>4 DEF NextFrame, Frame
    <2>4. call[t].pos + Len(part) = FragmentEnd(t) BY <1>3, <2>1
    <2>5. part = SubSeq(call[t].data, call[t].pos + 1, call[t].pos + Len(part)) BY <2>4
    <2> HIDE DEF part
    <2>6. ~LastFrame(t) => Len(part) > 0 BY <1>3, <2>1
    <2>7. NextFrame(t).op # "ping" BY <1>3, <2>3 DEF DataTypes
    <2> QED BY <1>2, <2>1, <2>2, <2>3, <2>4, <2>5, <2>6, <2>7 DEF Carries
  <1>5. CASE ~Fragmented(t)
    <2>1. NextFrame(t).fin = TRUE /\ NextFrame(t).data = call[t].data /\ NextFrame(t).op = call[t].type
      BY <1>5 DEF NextFrame, Frame
    <2>2. call[t].pos = 0 BY <1>1, <1>5 DEF CallOK
    <2>3. call[t].data = SubSeq(call[t].data, 1, Len(call[t].data)) BY <1>3
    <2>4. /\ 0 + Len(call[t].data) = Len(call[t].data) /\ 0 + 1 = 1 /\ ~(0 > 0)
          /\ Len(call[t].data) <= Len(call[t].data)
      BY <1>2
    <2>5. Carries(NextFrame(t), MessageOf(t), call[t].pos)
      BY <1>2, <2>1, <2>2, <2>3, <2>4 DEF Carries
    <2> QED BY <1>3, <1>5, <2>1, <2>5 DEF LastFrame, DataTypes
  <1> QED BY <1>4, <1>5

\* The reader's position, when the stream grows behind it.
LEMMA ReaderKept ==
  ASSUME Typed', UNCHANGED <<mbuf, mtype>>, NEW last, NEW ks, NEW os, ReaderAt(last, ks, os),
         NEW last2 \in Messages, NEW ks2, NEW os2, ks2[0] = ks[0], os2[0] = os[0],
         Len(mbuf) > 0 => Msg(due', last2, 1) = Msg(due, last, 1)
  PROVE  ReaderAt(last2, ks2, os2)'
  <1>1. due' \in Seq(Messages) /\ mbuf' \in Seq(Units) BY DEF Typed, WriterTyped, ReaderTyped
  <1>2. Len(mbuf) \in Nat /\ mbuf \in Seq(Units) BY <1>1
  <1>3. CASE Len(mbuf) > 0 BY <1>3 DEF ReaderAt
  <1>4. CASE Len(mbuf) = 0
    <2>1. PICK m : m = Msg(due', last2, 1) OBVIOUS
    <2>2. m \in Messages
      <3>1. Len(due') \in Nat BY <1>1
      <3> QED BY <1>1, <2>1, <3>1 DEF Msg
    <2>3. m.data \in Seq(Units) BY <2>2 DEF Messages
    <2>4. SubSeq(m.data, 1, 0) = <<>> /\ 0 <= Len(m.data) BY <2>3
    <2>5. mbuf = <<>> BY <1>2, <1>4
    <2>6. ks2[0] = 0 /\ os2[0] = Len(mbuf) /\ mtype = "none" BY <1>4 DEF ReaderAt
    <2> QED BY <1>4, <2>1, <2>4, <2>5, <2>6 DEF ReaderAt
  <1> QED BY <1>2, <1>3, <1>4

\* Where the writers are before t writes a frame that mixes with no other's.
LEMMA FillStarts ==
  ASSUME Typed, NEW t \in Threads, pc[t] = "fill", NEW last, NEW ks, NEW os,
         Parse(Pending, due, last, ks, os), WriterAt(last, ks, os),
         ~Fragmented(t) => \A u \in Threads : ~MidMessage(u)
  PROVE  /\ os[Len(Pending)] = call[t].pos
         /\ last = MessageOf(t) \/ Whole(Pending, due, ks, os)
         /\ \A u \in Threads \ {t} : ~Unfinished(u)
  <1>1. Len(Pending) \in 0 .. Len(Pending) BY PendingTyped
  <1>2. CallOK(t) /\ call[t].pos \in Nat BY DEF Typed, WriterTyped, Calls
  <1>3. ASSUME NEW u \in Threads \ {t} PROVE ~Unfinished(u)
    <2> SUFFICES ASSUME Unfinished(u) PROVE FALSE OBVIOUS
    <2>1. Fragmented(u) /\ MidMessage(u) BY UnfinishedMid
    <2> QED BY <2>1 DEF Typed, OneFragmented
  <1>4. CASE Unfinished(t)
    <2>1. PICK u \in Threads :
            Unfinished(u) /\ os[Len(Pending)] = Filled(u) /\ last = MessageOf(u)
      BY <1>4 DEF WriterAt
    <2>2. u = t BY <1>3, <2>1
    <2> QED BY <1>3, <2>1, <2>2 DEF Filled
  <1>5. CASE ~Unfinished(t)
    <2>1. Whole(Pending, due, ks, os) /\ ks[Len(Pending)] = Len(due)
      BY <1>3, <1>5 DEF WriterAt
    <2>2. os[Len(Pending)] = 0 BY <1>1, <2>1 DEF Whole
    <2>3. call[t].pos = 0 BY <1>2, <1>5 DEF CallOK, Unfinished, Filled
    <2> QED BY <1>3, <2>1, <2>2, <2>3
  <1> QED BY <1>4, <1>5

\* A frame is written, and mixes with no other's.
LEMMA FillFlows ==
  ASSUME Typed, Typed', NEW t \in Threads, Fill(t), ~mixed',
         NEW last, NEW ks, NEW os, Flow(last, ks, os)
  PROVE  \E last2, ks2, os2 : Flow(last2, ks2, os2)'
  <1> DEFINE n == Len(Pending)
             m == MessageOf(t)
             d == Len(due)
             o == call[t].pos
             f == NextFrame(t)
  <1>1. /\ pc[t] = "fill" /\ ~werr /\ pc' = [pc EXCEPT ![t] = "flush"]
        /\ buf' = Append(buf, f) /\ UNCHANGED <<call, wire, werr, mbuf, mtype>>
        /\ ~Fragmented(t) => \A u \in Threads : ~MidMessage(u)
        /\ due' = IF LastFrame(t) /\ call[t].kind # "control" THEN Append(due, m) ELSE due
    BY DEF Fill, readVars, MessageOf
  <1>2. /\ Pending \in Seq(Sound) /\ due \in Seq(Messages) /\ n \in Nat /\ d \in Nat
        /\ due' \in Seq(Messages) /\ f \in Sound
    BY <1>1, PendingTyped, NextFrameSound DEF Typed, WriterTyped
  <1>3. Pending' = Append(Pending, f)
    <2>1. wire \in Seq(Sound) /\ buf \in Seq(Sound) BY DEF Typed, WriterTyped
    <2> HIDE DEF f
    <2> QED BY <1>1, <1>2, <2>1 DEF Pending
  <1>4. /\ last \in Messages /\ Parse(Pending, due, last, ks, os)
        /\ ReaderAt(last, ks, os) /\ WriterAt(last, ks, os)
    BY <1>1 DEF Flow
  <1>5. /\ os[n] = o
        /\ last = m \/ Whole(Pending, due, ks, os)
        /\ \A u \in Threads \ {t} : ~Unfinished(u)
    BY <1>1, <1>4, FillStarts
  <1>6. ks[n] = d BY <1>4 DEF WriterAt
  <1>7. call[t] \in Calls /\ CallOK(t) /\ call[t].kind # "none" /\ o \in Nat
    BY <1>1 DEF Typed, WriterTyped, CallOK, Calls
  <1>8. /\ pc'[t] = "flush" /\ \A u \in Threads \ {t} : ~Unfinished(u)'
    <2>1. pc'[t] = "flush" /\ \A u \in Threads \ {t} : pc'[u] = pc[u] /\ call'[u] = call[u]
      BY <1>1 DEF Typed, WriterTyped
    <2> QED BY <1>5, <2>1, OtherKept
  <1>9. Len(Pending') = n + 1 BY <1>2, <1>3
  <1>10. /\ ks \in [0 .. n -> 0 .. d] /\ os \in [0 .. n -> Nat] /\ 0 \in 0 .. n
    BY <1>2, <1>4 DEF Parse
  <1>11. ASSUME Len(mbuf) > 0, d = 0 PROVE last = m
    <2>1. ks[0] = 0 /\ os[0] = Len(mbuf) BY <1>4 DEF ReaderAt
    <2>2. ~Whole(Pending, due, ks, os) BY <1>10, <1>11, <2>1 DEF Whole
    <2> QED BY <1>5, <2>2
  <1> HIDE DEF n, d, o, f, m
  <1>12. CASE call[t].kind = "control"
    <2>1. ~Fragmented(t) /\ call[t].type = "ping" /\ call[t].data = <<>>
      BY <1>7, <1>12 DEF CallOK, Fragmented
    <2>2. f.op = "ping" /\ f.data = <<>> BY <2>1 DEF f, NextFrame, Frame
    <2>3. o = 0 BY <1>7, <2>1 DEF CallOK, o
    <2>4. Leads(f, due, last, ks[n], os[n], d, 0) BY <1>5, <1>6, <2>2, <2>3 DEF Leads
    <2>5. /\ d \in 0 .. Len(due) /\ 0 \in Nat /\ ks[n] <= d
          /\ GoesOn(Pending, due, last, ks, os, due, last)
      BY <1>2, <1>6 DEF d, Msg, GoesOn
    <2>6. PICK ks2, os2 :
            /\ Parse(Append(Pending, f), due, last, ks2, os2)
            /\ ks2[n + 1] = d /\ os2[n + 1] = 0
            /\ \A i \in 0 .. n : ks2[i] = ks[i] /\ os2[i] = os[i]
      BY <1>2, <1>4, <2>4, <2>5, ParseExtends DEF n
    <2>7. due' = due BY <1>1, <1>12
    <2>8. Parse(Pending, due, last, ks2, os2)' BY <1>3, <2>6, <2>7
    <2>9. ReaderAt(last, ks2, os2)' BY <1>1, <1>4, <1>10, <2>6, <2>7, ReaderKept
    <2>10. \A u \in Threads : ~Unfinished(u) /\ ~Unfinished(u)'
      BY <1>1, <1>5, <1>8, <2>1 DEF Unfinished, Fragmented
    <2>11. Whole(Pending, due, ks, os) BY <1>4, <2>10 DEF WriterAt
    <2>12. Whole(Pending', due', ks2, os2)
      <3>1. \A i \in 0 .. (n + 1) : i \in 0 .. n \/ i = n + 1 BY <1>2
      <3> QED BY <1>9, <2>6, <2>7, <2>11, <3>1 DEF Whole, n
    <2>13. WriterAt(last, ks2, os2)' BY <1>9, <2>6, <2>7, <2>10, <2>12 DEF WriterAt, d
    <2> QED BY <1>4, <2>8, <2>9, <2>13 DEF Flow
  <1>13. CASE call[t].kind # "control"
    <2>1. call[t].kind \in {"message", "fragmented"} BY <1>7, <1>13 DEF Calls
    <2>2. /\ Carries(f, m, o) /\ f.op # "ping" /\ f.fin = LastFrame(t)
          /\ Fragmented(t) => o + Len(f.data) = FragmentEnd(t)
      BY <1>1, <2>1, FrameCarries DEF f, m, o
    <2>3. /\ m \in Messages /\ m.data = call[t].data /\ Len(call[t].data) \in Nat
      BY <2>1, MessageTyped DEF m
    <2>4. Len(f.data) \in Nat BY <1>2 DEF Sound
    <2>5. CASE LastFrame(t)
      <3>1. due' = Append(due, m) BY <1>1, <1>13, <2>5
      <3>2. /\ Len(due') = d + 1 /\ due'[d + 1] = m /\ \A k \in 1 .. d : due'[k] = due[k]
        BY <1>2, <2>3, <3>1 DEF d
      <3>3. PICK D2 \in Seq(Messages) : D2 = due' BY <1>2
      <3>4. Msg(D2, last, d + 1) = m BY <1>2, <3>2, <3>3 DEF Msg
      <3> DEFINE k2 == d + 1
      <3> PICK o2 \in Nat : o2 = 0 OBVIOUS
      <3>5. Leads(f, D2, last, ks[n], os[n], k2, o2)
        BY <1>5, <1>6, <2>2, <2>5, <3>4 DEF Leads
      <3>6. /\ k2 \in 0 .. Len(D2) /\ ks[n] <= k2
            /\ GoesOn(Pending, due, last, ks, os, D2, last)
        BY <1>2, <1>5, <1>6, <3>2, <3>3, <3>4 DEF d, GoesOn
      <3> HIDE DEF k2
      <3>7. PICK ks2, os2 :
              /\ Parse(Append(Pending, f), D2, last, ks2, os2)
              /\ ks2[n + 1] = k2 /\ os2[n + 1] = o2
              /\ \A i \in 0 .. n : ks2[i] = ks[i] /\ os2[i] = os[i]
        BY <1>2, <1>4, <3>5, <3>6, ParseExtends DEF n
      <3>8. Parse(Pending, due, last, ks2, os2)' BY <1>3, <3>3, <3>7
      <3> USE DEF k2
      <3>9. Len(mbuf) > 0 => Msg(due', last, 1) = Msg(due, last, 1)
        <4>1. CASE d > 0
          <5>1. 1 \in 1 .. d /\ 1 <= Len(due') /\ 1 <= Len(due) BY <1>2, <3>2, <4>1 DEF d
          <5> QED BY <3>2, <5>1 DEF Msg
        <4>2. CASE d = 0
          <5>1. Msg(due', last, 1) = m BY <3>3, <3>4, <4>2
          <5>2. Msg(due, last, 1) = last BY <4>2 DEF Msg, d
          <5> QED BY <1>11, <4>2, <5>1, <5>2
        <4> QED BY <1>2, <4>1, <4>2
      <3>10. ReaderAt(last, ks2, os2)' BY <1>1, <1>4, <1>10, <3>7, <3>9, ReaderKept
      <3>11. ~Unfinished(t)'
        <4>1. Fragmented(t) => FragmentEnd(t) = Len(call[t].data) BY <2>5 DEF LastFrame
        <4>2. Fragmented(t)' <=> Fragmented(t) BY <1>1 DEF Fragmented
        <4>3. Filled(t)' = FragmentEnd(t) BY <1>1, <1>8 DEF Filled, FragmentEnd
        <4> QED BY <1>1, <2>3, <4>1, <4>2, <4>3 DEF Unfinished
      <3>12. \A u \in Threads : ~Unfinished(u)' BY <1>8, <3>11
      <3>13. Whole(Pending', due', ks2, os2)
        <4>1. \A i \in 0 .. (n + 1) : i \in 0 .. n \/ i = n + 1 BY <1>2
        <4>2. \A i \in 0 .. n : ks2[i] # d + 1
          <5>1. \A i \in 0 .. n : ks2[i] \in 0 .. d BY <1>10, <3>7
          <5>2. d + 1 \notin 0 .. d BY <1>2
          <5> QED BY <5>1, <5>2
        <4> QED BY <1>9, <3>2, <3>7, <4>1, <4>2 DEF Whole
      <3>14. WriterAt(last, ks2, os2)' BY <1>9, <3>2, <3>7, <3>12, <3>13 DEF WriterAt
      <3> QED BY <1>4, <3>8, <3>10, <3>14 DEF Flow
    <2>6. CASE ~LastFrame(t)
      <3>1. due' = due BY <1>1, <2>6
      <3>2. Fragmented(t) /\ FragmentEnd(t) # Len(call[t].data) BY <2>6 DEF LastFrame
      <3>3. PICK o2 \in Nat : o2 = FragmentEnd(t) BY <3>2, FragmentTyped
      <3>4. o2 = o + Len(f.data) /\ o2 > 0 /\ o2 < Len(call[t].data)
        <4>1. o < FragmentEnd(t) /\ FragmentEnd(t) <= Len(call[t].data)
          BY <3>2, FragmentTyped DEF o
        <4> QED BY <1>7, <2>2, <2>3, <3>2, <3>3, <4>1
      <3>5. Msg(due, m, d + 1) = m BY <1>2 DEF Msg, d
      <3>6. Leads(f, due, m, ks[n], os[n], d, o2)
        BY <1>5, <1>6, <2>2, <2>6, <3>4, <3>5 DEF Leads
      <3>7. d \in 0 .. Len(due) /\ ks[n] <= d /\ GoesOn(Pending, due, last, ks, os, due, m)
        BY <1>2, <1>5, <1>6, <3>5 DEF d, GoesOn
      <3>8. PICK ks2, os2 :
              /\ Parse(Append(Pending, f), due, m, ks2, os2)
              /\ ks2[n + 1] = d /\ os2[n + 1] = o2
              /\ \A i \in 0 .. n : ks2[i] = ks[i] /\ os2[i] = os[i]
        BY <1>2, <1>4, <3>6, <3>7, ParseExtends DEF n
      <3>9. PICK last2 \in Messages : last2 = m BY <2>3
      <3>10. Parse(Pending, due, last2, ks2, os2)' BY <1>3, <3>1, <3>8, <3>9
      <3>11. Len(mbuf) > 0 => Msg(due', last2, 1) = Msg(due, last, 1)
        BY <1>2, <1>11, <3>1, <3>9 DEF Msg, d
      <3>12. ReaderAt(last2, ks2, os2)' BY <1>1, <1>4, <1>10, <3>8, <3>11, ReaderKept
      <3>13. /\ Filled(t)' = o2 /\ Unfinished(t)' /\ MessageOf(t)' = last2
        <4>1. Fragmented(t)' <=> Fragmented(t) BY <1>1 DEF Fragmented
        <4>2. Filled(t)' = o2 BY <1>1, <1>8, <3>3 DEF Filled, FragmentEnd
        <4>3. MessageOf(t)' = last2 BY <1>1, <3>9 DEF MessageOf, m
        <4> QED BY <1>1, <3>2, <3>4, <4>1, <4>2, <4>3 DEF Unfinished
      <3>14. WriterAt(last2, ks2, os2)' BY <1>9, <3>1, <3>8, <3>13 DEF WriterAt, d
      <3> QED BY <3>9, <3>10, <3>12, <3>14 DEF Flow
    <2> QED BY <2>5, <2>6
  <1> QED BY <1>12, <1>13

\* The buffer goes to the wire, and the call goes on or returns.
LEMMA FlushFlows ==
  ASSUME Typed, NEW t \in Threads, Flush(t), NEW last, NEW ks, NEW os, Flow(last, ks, os)
  PROVE  Flow(last, ks, os)'
  <1>1. /\ pc[t] = "flush" /\ wire' = wire \o buf /\ buf' = <<>> /\ GoOn(t)
        /\ UNCHANGED <<werr, due, mbuf, mtype>>
    BY DEF Flush, readVars
  <1>2. Pending' = Pending
    <2>1. wire \in Seq(Sound) /\ buf \in Seq(Sound) BY DEF Typed, WriterTyped
    <2> QED BY <1>1, <2>1 DEF Pending
  <1>3. CASE LastFrame(t)
    <2>1. /\ pc'[t] = "idle" /\ call'[t] = NoCall
          /\ \A u \in Threads \ {t} : pc'[u] = pc[u] /\ call'[u] = call[u]
      BY <1>1, <1>3 DEF GoOn, Typed, WriterTyped
    <2>2. ~Unfinished(t)
      BY <1>1, <1>3, UnfinishedMid DEF NotDue
    <2>3. ~Unfinished(t)' BY <2>1 DEF Unfinished, Fragmented, NoCall
    <2>4. ASSUME NEW u \in Threads
          PROVE  /\ Unfinished(u)' <=> Unfinished(u)
                 /\ Unfinished(u) => Filled(u)' = Filled(u) /\ MessageOf(u)' = MessageOf(u)
      <3>1. CASE u = t BY <2>2, <2>3, <3>1
      <3>2. CASE u # t BY <2>1, <3>2, OtherKept
      <3> QED BY <3>1, <3>2
    <2> QED BY <1>1, <1>2, <2>4, FlowKept
  <1>4. CASE ~LastFrame(t)
    <2>1. pc' = [pc EXCEPT ![t] = "fill"] /\ call' = [call EXCEPT ![t].pos = FragmentEnd(t)]
      BY <1>1, <1>4 DEF GoOn
    <2>2. /\ pc'[t] = "fill" /\ call'[t] = [call[t] EXCEPT !.pos = FragmentEnd(t)]
          /\ \A u \in Threads \ {t} : pc'[u] = pc[u] /\ call'[u] = call[u]
      BY <2>1 DEF Typed, WriterTyped
    <2>3. /\ call'[t].kind = call[t].kind /\ call'[t].type = call[t].type
          /\ call'[t].data = call[t].data /\ call'[t].pos = FragmentEnd(t)
      <3>1. call[t] \in Calls BY DEF Typed, WriterTyped
      <3> QED BY <2>2, <3>1 DEF Calls
    <2>4. Filled(t)' = Filled(t) BY <1>1, <2>2, <2>3 DEF Filled
    <2>5. MessageOf(t)' = MessageOf(t) BY <2>3 DEF MessageOf
    <2>6. Unfinished(t)' <=> Unfinished(t) BY <2>3, <2>4 DEF Unfinished, Fragmented
    <2>7. ASSUME NEW u \in Threads
          PROVE  /\ Unfinished(u)' <=> Unfinished(u)
                 /\ Unfinished(u) => Filled(u)' = Filled(u) /\ MessageOf(u)' = MessageOf(u)
      <3>1. CASE u = t BY <2>4, <2>5, <2>6, <3>1
      <3>2. CASE u # t BY <2>2, <3>2, OtherKept
      <3> QED BY <3>1, <3>2
    <2> QED BY <1>1, <1>2, <2>7, FlowKept
  <1> QED BY <1>3, <1>4

\* A write that fails cuts the stream.
LEMMA FailFlows ==
  ASSUME Typed, NEW t \in Threads, FlushFails(t) \/ WriteFails(t),
         NEW last, NEW ks, NEW os, Flow(last, ks, os)
  PROVE  \E ks2, os2 : Flow(last, ks2, os2)'
  <1>1. CASE FlushFails(t)
    <2>1. PICK k \in 0 .. Len(buf) : wire' = wire \o SubSeq(buf, 1, k) BY <1>1 DEF FlushFails
    <2>2. buf' = <<>> /\ werr' = TRUE /\ UNCHANGED <<due, mbuf, mtype>>
      BY <1>1 DEF FlushFails, readVars
    <2>3. wire \in Seq(Sound) /\ buf \in Seq(Sound) BY DEF Typed, WriterTyped
    <2>4. wire' = SubSeq(wire \o buf, 1, Len(wire) + k) BY <2>1, <2>3
    <2>5. PICK p : p = Len(wire) + k OBVIOUS
    <2>6. p \in 0 .. Len(Pending) BY <2>1, <2>3, <2>5 DEF Pending
    <2>7. SubSeq(Pending, 1, p) \in Seq(Sound) BY <2>6, PendingTyped
    <2>8. Pending' = SubSeq(Pending, 1, p)
      <3>1. wire' = SubSeq(Pending, 1, p) BY <2>4, <2>5 DEF Pending
      <3>2. Pending' = wire' \o <<>> BY <2>2 DEF Pending
      <3> QED BY <2>7, <3>1, <3>2
    <2>9. last \in Messages /\ Parse(Pending, due, last, ks, os) /\ ReaderAt(last, ks, os)
      BY DEF Flow
    <2>10. PICK ks2, os2 :
             /\ Parse(SubSeq(Pending, 1, p), due, last, ks2, os2)
             /\ ks2[0] = ks[0] /\ os2[0] = os[0]
      BY <2>6, <2>9, PendingTyped, ParseLoses
    <2>11. Parse(Pending, due, last, ks2, os2)' BY <2>2, <2>8, <2>10
    <2>12. ReaderAt(last, ks2, os2)' BY <2>2, <2>9, <2>10 DEF ReaderAt
    <2> QED BY <2>2, <2>9, <2>11, <2>12 DEF Flow
  <1>2. CASE WriteFails(t)
    <2>1. werr' /\ Pending' = Pending /\ UNCHANGED <<due, mbuf, mtype>>
      BY <1>2 DEF WriteFails, readVars, Pending
    <2>2. Flow(last, ks, os)' BY <2>1, FlowKept
    <2> QED BY <2>2
  <1> QED BY <1>1, <1>2

\* The frame before the reader, when nothing has gone wrong.
LEMMA ReaderMeets ==
  ASSUME Typed, ~wild, NEW f, Arrived(f), NEW last, NEW ks, NEW os, Flow(last, ks, os)
  PROVE  /\ f \in Sound /\ Pending # <<>> /\ Pending' = Tail(Pending)
         /\ ks[1] \in 0 .. Len(due) /\ os[1] \in Nat
         /\ Leads(f, due, last, 0, Len(mbuf), ks[1], os[1])
         /\ Msg(due, last, 1) \in Messages
  <1>1. wire # <<>> /\ f = Head(wire) /\ wire' = Tail(wire) /\ buf' = buf
    BY ArrivedTakes
  <1>2. wire \in Seq(Sound) /\ buf \in Seq(Sound) BY DEF Typed, WriterTyped
  <1>3. f \in Sound BY <1>1, <1>2
  <1>4. /\ Pending # <<>> /\ Pending' = Tail(Pending) /\ Pending[1] = f /\ 1 \in 1 .. Len(Pending)
    BY <1>1, <1>2 DEF Pending
  <1>5. Parse(Pending, due, last, ks, os) /\ ReaderAt(last, ks, os) /\ last \in Messages
    BY DEF Flow
  <1>6. ks[0] = 0 /\ os[0] = Len(mbuf) BY <1>5 DEF ReaderAt
  <1>7. 1 \in 0 .. Len(Pending) /\ 1 - 1 = 0 BY <1>4, PendingTyped
  <1>8. Leads(Pending[1], due, last, ks[1 - 1], os[1 - 1], ks[1], os[1]) BY <1>4, <1>5 DEF Parse
  <1>9. ks[1] \in 0 .. Len(due) /\ os[1] \in Nat BY <1>5, <1>7 DEF Parse
  <1>10. Msg(due, last, 1) \in Messages
    <2>1. due \in Seq(Messages) /\ Len(due) \in Nat BY PendingTyped
    <2> QED BY <1>5, <2>1 DEF Msg
  <1> QED BY <1>3, <1>4, <1>6, <1>7, <1>8, <1>9, <1>10

\* The reader takes the first frame, and with it d messages.
LEMMA TakeFlows ==
  ASSUME Typed, Typed', ~wild, NEW f, Arrived(f), NEW last, NEW ks, NEW os, Flow(last, ks, os),
         NEW d \in {0, 1}, ks[1] = d,
         d = 0 => due' = due, d = 1 => due # <<>> /\ due' = Tail(due),
         Len(mbuf') = os[1],
         NEW m, m = Msg(due', last, 1),
         Len(mbuf') <= Len(m.data), mbuf' = SubSeq(m.data, 1, Len(mbuf')),
         mtype' = IF Len(mbuf') > 0 THEN m.type ELSE "none"
  PROVE  \E ks2, os2 : Flow(last, ks2, os2)'
  <1>1. /\ Pending # <<>> /\ Pending' = Tail(Pending) BY ReaderMeets
  <1>2. /\ Pending \in Seq(Sound) /\ due \in Seq(Messages) /\ Len(Pending) \in Nat /\ Len(due) \in Nat
    BY PendingTyped
  <1>3. last \in Messages /\ Parse(Pending, due, last, ks, os) /\ ks[0] = 0
    BY DEF Flow, ReaderAt
  <1>4. PICK D2 \in Seq(Messages) : D2 = due' BY DEF Typed, WriterTyped
  <1>5. /\ Len(D2) = Len(due) - d /\ \A k \in 1 .. Len(D2) : D2[k] = due[k + d]
    <2>1. CASE d = 0 BY <1>2, <1>4, <2>1
    <2>2. CASE d = 1
      <3>1. D2 = Tail(due) /\ due # <<>> BY <1>4, <2>2
      <3>2. /\ Len(Tail(due)) = Len(due) - 1
            /\ \A k \in 1 .. (Len(due) - 1) : Tail(due)[k] = due[k + 1]
        BY <1>2, <3>1
      <3> QED BY <2>2, <3>1, <3>2
    <2> QED BY <2>1, <2>2
  <1>6. Drops(due, D2, d) /\ First(ks, d) BY <1>3, <1>5 DEF Drops, First
  <1>7. PICK ks2, os2 :
          Parse(Tail(Pending), D2, last, ks2, os2) /\ Shifted(Pending, ks, os, d, ks2, os2)
    BY <1>1, <1>2, <1>3, <1>6, ParseTakes
  <1>8. Parse(Pending, due, last, ks2, os2)' BY <1>1, <1>4, <1>7
  <1>9. Len(Pending) > 0 /\ Len(Pending') = Len(Pending) - 1 BY <1>1, <1>2
  <1>10. ks2[0] = 0 /\ os2[0] = os[1]
    <2>1. 0 \in 0 .. (Len(Pending) - 1) BY <1>2, <1>9
    <2>2. ks2[0] = ks[0 + 1] - d /\ os2[0] = os[0 + 1] BY <1>7, <2>1 DEF Shifted
    <2> QED BY <2>2
  <1>11. ReaderAt(last, ks2, os2)' BY <1>10 DEF ReaderAt
  <1>12. ASSUME ~werr' PROVE WriterAt(last, ks2, os2)'
    <2>1. UNCHANGED <<pc, call, werr>> BY ArrivedTakes
    <2>2. WriterAt(last, ks, os) BY <1>12, <2>1 DEF Flow
    <2>3. PICK n : n = Len(Pending) OBVIOUS
    <2>4. /\ n - 1 \in 0 .. (n - 1) /\ (n - 1) + 1 = n /\ Len(Pending') = n - 1 /\ n \in Nat
      BY <1>2, <1>9, <2>3
    <2>5. ks2[n - 1] = ks[n] - d /\ os2[n - 1] = os[n] BY <1>7, <2>3, <2>4 DEF Shifted
    <2>6. ks[n] = Len(due) BY <2>2, <2>3 DEF WriterAt
    <2>7. (ks2[Len(Pending)] = Len(due))' BY <1>4, <1>5, <2>4, <2>5, <2>6
    <2>8. \A u \in Threads : /\ Unfinished(u)' <=> Unfinished(u)
                             /\ Filled(u)' = Filled(u) /\ MessageOf(u)' = MessageOf(u)
      BY <2>1, OtherKept
    <2>9. CASE \E u \in Threads : Unfinished(u) /\ os[Len(Pending)] = Filled(u) /\ last = MessageOf(u)
      <3>1. PICK u \in Threads : Unfinished(u) /\ os[n] = Filled(u) /\ last = MessageOf(u)
        BY <2>3, <2>9
      <3>2. (Unfinished(u) /\ os2[Len(Pending)] = Filled(u) /\ last = MessageOf(u))'
        BY <2>4, <2>5, <2>8, <3>1
      <3> QED BY <2>7, <3>2 DEF WriterAt
    <2>10. CASE Whole(Pending, due, ks, os) /\ \A u \in Threads : ~Unfinished(u)
      <3>1. ASSUME NEW i \in 0 .. (n - 1), ks2[i] = Len(due') PROVE os2[i] = 0
        <4>1. i + 1 \in 0 .. n BY <2>4
        <4>2. ks2[i] = ks[i + 1] - d /\ os2[i] = os[i + 1] BY <1>7, <2>3 DEF Shifted
        <4>3. ks[i + 1] \in 0 .. Len(due) BY <1>3, <2>3, <4>1 DEF Parse
        <4>4. ks[i + 1] = Len(due) BY <1>2, <1>4, <1>5, <3>1, <4>2, <4>3
        <4> QED BY <2>3, <2>10, <4>1, <4>2, <4>4 DEF Whole
      <3>2. Whole(Pending', due', ks2, os2) BY <2>4, <3>1 DEF Whole
      <3>3. \A u \in Threads : ~Unfinished(u)' BY <2>8, <2>10
      <3> QED BY <2>7, <3>2, <3>3 DEF WriterAt
    <2> QED BY <2>2, <2>9, <2>10 DEF WriterAt
  <1> QED BY <1>3, <1>8, <1>11, <1>12 DEF Flow

\* What readFrame makes of a sound frame is its data.
LEMMA SoundPayload ==
  ASSUME NEW f \in Sound
  PROVE  Payload(f).data = f.data /\ f.data \in Seq(Units) /\ Len(f.data) \in Nat
  <1>1. f.data \in Seq(Units) /\ PayloadLen(f.len) = Len(f.data) BY DEF Sound
  <1>2. Len(f.data) \in Nat BY <1>1
  <1>3. Len(f.data) = 0 => f.data = <<>> BY <1>1
  <1>4. CASE Len(f.data) > 0 BY <1>1, <1>2, <1>4 DEF Payload
  <1>5. CASE Len(f.data) = 0 BY <1>1, <1>2, <1>3, <1>5 DEF Payload
  <1> QED BY <1>1, <1>2, <1>4, <1>5

\* What the reader has after a data frame is the start of the message.
LEMMA DataMeets ==
  ASSUME Typed, ~wild, NEW f, Arrived(f), f.op # "ping",
         NEW last, NEW ks, NEW os, Flow(last, ks, os),
         NEW m, m = Msg(due, last, 1)
  PROVE  /\ m \in Messages /\ Len(m.data) \in Nat /\ m.data \in Seq(Units)
         /\ mbuf \o Payload(f).data \in Seq(Units)
         /\ Len(mbuf \o Payload(f).data) = Len(mbuf) + Len(f.data)
         /\ mbuf \o Payload(f).data = SubSeq(m.data, 1, Len(mbuf) + Len(f.data))
         /\ Len(mbuf) + Len(f.data) <= Len(m.data)
         /\ f.op = "continuation" => mtype = m.type /\ mtype # "none"
         /\ f.op # "continuation" => f.op = m.type
         /\ f.fin <=> Len(mbuf) + Len(f.data) = Len(m.data)
         /\ IF f.fin THEN ks[1] = 1 /\ os[1] = 0
            ELSE ks[1] = 0 /\ os[1] = Len(mbuf) + Len(f.data) /\ Len(f.data) > 0
         /\ Len(mbuf) \in Nat /\ Len(f.data) \in Nat
  <1>1. f \in Sound /\ Leads(f, due, last, 0, Len(mbuf), ks[1], os[1]) /\ m \in Messages
    BY ReaderMeets
  <1>2. 0 + 1 = 1 OBVIOUS
  <1>3. /\ Carries(f, m, Len(mbuf))
        /\ IF f.fin THEN ks[1] = 1 /\ os[1] = 0 ELSE ks[1] = 0 /\ os[1] = Len(mbuf) + Len(f.data)
    BY <1>1, <1>2 DEF Leads
  <1>4. Payload(f).data = f.data /\ f.data \in Seq(Units) /\ Len(f.data) \in Nat
    BY <1>1, SoundPayload
  <1>5. mbuf \in Seq(Units) /\ Len(mbuf) \in Nat BY DEF Typed, ReaderTyped
  <1>6. m.data \in Seq(Units) /\ Len(m.data) \in Nat /\ m.type \in DataTypes BY <1>1 DEF Messages
  <1>7. /\ Len(mbuf) <= Len(m.data) /\ mbuf = SubSeq(m.data, 1, Len(mbuf))
        /\ mtype = IF Len(mbuf) > 0 THEN m.type ELSE "none"
    BY DEF Flow, ReaderAt
  <1>8. /\ f.op = IF Len(mbuf) > 0 THEN "continuation" ELSE m.type
        /\ Len(mbuf) + Len(f.data) <= Len(m.data)
        /\ f.data = SubSeq(m.data, Len(mbuf) + 1, Len(mbuf) + Len(f.data))
        /\ f.fin <=> Len(mbuf) + Len(f.data) = Len(m.data)
        /\ ~f.fin => Len(f.data) > 0
    BY <1>3 DEF Carries
  <1>9. mbuf \o Payload(f).data = SubSeq(m.data, 1, Len(mbuf) + Len(f.data))
    <2>1. PICK o \in Nat, p \in Nat : o = Len(mbuf) /\ p = Len(mbuf) + Len(f.data) BY <1>4, <1>5
    <2>2. o \in 0 .. Len(m.data) /\ p \in o .. Len(m.data) BY <1>4, <1>5, <1>6, <1>7, <1>8, <2>1
    <2>3. SubSeq(m.data, 1, o) \o SubSeq(m.data, o + 1, p) = SubSeq(m.data, 1, p)
      BY <1>6, <2>2
    <2> QED BY <1>4, <1>7, <1>8, <2>1, <2>3
  <1>10. /\ f.op = "continuation" => mtype = m.type /\ mtype # "none"
         /\ f.op # "continuation" => f.op = m.type
    BY <1>6, <1>7, <1>8 DEF DataTypes
  <1>11. mbuf \o f.data \in Seq(Units) /\ Len(mbuf \o f.data) = Len(mbuf) + Len(f.data)
    BY <1>4, <1>5
  <1> QED BY <1>1, <1>3, <1>4, <1>5, <1>6, <1>8, <1>9, <1>10, <1>11

\* A control frame comes between messages.
LEMMA ControlFlows ==
  ASSUME Typed, Typed', ~wild, NEW f, ReadControl(f), NEW last, NEW ks, NEW os, Flow(last, ks, os)
  PROVE  \E ks2, os2 : Flow(last, ks2, os2)'
  <1>1. Arrived(f) /\ f.op = "ping" /\ mtype' = "none" /\ mbuf' = <<>> /\ due' = due
    BY DEF ReadControl, Restart
  <1>2. ks[1] = 0 /\ os[1] = 0 BY <1>1, ReaderMeets DEF Leads
  <1>3. PICK m : m = Msg(due, last, 1) OBVIOUS
  <1>4. m \in Messages BY <1>1, <1>3, ReaderMeets
  <1>5. m.data \in Seq(Units) /\ Len(m.data) \in Nat BY <1>4 DEF Messages
  <1>6. Len(mbuf') = 0 /\ SubSeq(m.data, 1, 0) = <<>> /\ 0 <= Len(m.data) BY <1>1, <1>5
  <1>7. /\ 0 \in {0, 1} /\ Len(mbuf') = os[1] /\ Len(mbuf') <= Len(m.data)
        /\ mbuf' = SubSeq(m.data, 1, Len(mbuf')) /\ m = Msg(due', last, 1)
        /\ mtype' = IF Len(mbuf') > 0 THEN m.type ELSE "none"
    BY <1>1, <1>2, <1>3, <1>6
  <1> QED BY <1>1, <1>2, <1>7, TakeFlows

\* A data frame of a message that is not complete.
LEMMA PartFlows ==
  ASSUME Typed, Typed', ~wild, NEW f, Arrived(f), f.op # "ping", ~f.fin,
         mbuf' = mbuf \o Payload(f).data, UNCHANGED due,
         mtype' = IF f.op = "continuation" THEN mtype ELSE f.op,
         NEW last, NEW ks, NEW os, Flow(last, ks, os)
  PROVE  \E ks2, os2 : Flow(last, ks2, os2)'
  <1>1. PICK m : m = Msg(due, last, 1) OBVIOUS
  <1>2. PICK p : p = Len(mbuf) + Len(f.data) OBVIOUS
  <1>3. /\ Len(mbuf') = p /\ mbuf' = SubSeq(m.data, 1, p) /\ p <= Len(m.data)
        /\ ks[1] = 0 /\ os[1] = p /\ Len(f.data) > 0 /\ Len(mbuf) \in Nat /\ Len(f.data) \in Nat
        /\ mtype' = m.type
    BY <1>1, <1>2, DataMeets
  <1>4. p > 0 BY <1>2, <1>3
  <1>5. PICK d \in {0, 1} : d = 0 OBVIOUS
  <1>6. /\ Len(mbuf') = os[1] /\ Len(mbuf') <= Len(m.data)
        /\ mbuf' = SubSeq(m.data, 1, Len(mbuf')) /\ m = Msg(due', last, 1)
        /\ mtype' = IF Len(mbuf') > 0 THEN m.type ELSE "none"
    BY <1>1, <1>3, <1>4
  <1>7. ks[1] = d /\ (d = 0 => due' = due) /\ (d = 1 => due # <<>> /\ due' = Tail(due))
    BY <1>3, <1>5
  <1> QED BY <1>6, <1>7, TakeFlows

\* The last frame of a message: ReadMessage returns what was written.
LEMMA WholeFlows ==
  ASSUME Typed, Typed', ~wild, ~mixed, NEW f, Arrived(f), f.op # "ping", f.fin, Restart,
         Returned([type |-> IF f.op = "continuation" THEN mtype ELSE f.op,
                   data |-> mbuf \o Payload(f).data]),
         NEW last, NEW ks, NEW os, Flow(last, ks, os)
  PROVE  (~wrong => ~wrong') /\ \E ks2, os2 : Flow(last, ks2, os2)'
  <1>1. PICK m : m = Msg(due, last, 1) OBVIOUS
  <1>2. /\ mbuf \o Payload(f).data = SubSeq(m.data, 1, Len(mbuf) + Len(f.data))
        /\ Len(mbuf) + Len(f.data) = Len(m.data) /\ m.data \in Seq(Units) /\ m \in Messages
        /\ ks[1] = 1 /\ os[1] = 0
        /\ (IF f.op = "continuation" THEN mtype ELSE f.op) = m.type
    BY <1>1, DataMeets
  <1>3. mbuf \o Payload(f).data = m.data BY <1>2
  <1>4. ks[1] \in 0 .. Len(due) BY ReaderMeets
  <1>5. due \in Seq(Messages) /\ Len(due) \in Nat BY PendingTyped
  <1>6. Len(due) >= 1 BY <1>2, <1>4, <1>5
  <1>7. due # <<>> /\ m = due[1] /\ Head(due) = due[1] BY <1>1, <1>5, <1>6 DEF Msg
  <1>8. m = [type |-> m.type, data |-> m.data] BY <1>2 DEF Messages
  <1>9. Returned(m) BY <1>2, <1>3, <1>8
  <1>10. due' = Tail(due) /\ wrong' = (wrong \/ m # Head(due)) BY <1>7, <1>9 DEF Returned
  <1>11. wrong' = (wrong \/ FALSE) BY <1>7, <1>10
  <1>12. ~wrong => ~wrong' BY <1>11
  <1>13. mtype' = "none" /\ mbuf' = <<>> /\ Len(mbuf') = 0 BY DEF Restart
  <1>14. PICK m2 : m2 = Msg(due', last, 1) OBVIOUS
  <1>15. m2 \in Messages
    <2>1. due' \in Seq(Messages) /\ Len(due') \in Nat BY DEF Typed, WriterTyped
    <2>2. last \in Messages BY DEF Flow
    <2> QED BY <1>14, <2>1, <2>2 DEF Msg
  <1>16. m2.data \in Seq(Units) BY <1>15 DEF Messages
  <1>17. SubSeq(m2.data, 1, 0) = <<>> /\ 0 <= Len(m2.data) BY <1>16
  <1>18. /\ 1 \in {0, 1} /\ Len(mbuf') = os[1] /\ Len(mbuf') <= Len(m2.data)
         /\ mbuf' = SubSeq(m2.data, 1, Len(mbuf'))
         /\ mtype' = IF Len(mbuf') > 0 THEN m2.type ELSE "none"
    BY <1>2, <1>13, <1>17
  <1>19. \E ks2, os2 : Flow(last, ks2, os2)'
    BY <1>2, <1>7, <1>10, <1>14, <1>18, TakeFlows
  <1> QED BY <1>12, <1>19

\* A frame that the reader breaks the connection for is of a message over
\* the limits, which is due or not complete.
LEMMA LimitsBreak ==
  ASSUME Typed, ~wild, ~werr, NEW f, Arrived(f), NEW last, NEW ks, NEW os, Flow(last, ks, os),
         f.op # "ping", Oversized(Msg(due, last, 1).data)
  PROVE  \/ \E i \in 1 .. Len(due) : Oversized(due[i].data)
         \/ \E t \in Threads : NotDue(t) /\ Oversized(call[t].data)
  <1>1. due \in Seq(Messages) /\ Len(due) \in Nat BY PendingTyped
  <1>2. CASE Len(due) >= 1
    <2>1. 1 \in 1 .. Len(due) /\ Msg(due, last, 1) = due[1] BY <1>1, <1>2 DEF Msg
    <2> QED BY <2>1
  <1>3. CASE Len(due) = 0
    <2>1. Msg(due, last, 1) = last BY <1>3 DEF Msg
    <2>2. WriterAt(last, ks, os) /\ ks[0] = 0 BY DEF Flow, ReaderAt
    <2>3. CASE Whole(Pending, due, ks, os)
      <3>1. ks[1] \in 0 .. Len(due) /\ Pending # <<>> BY ReaderMeets
      <3>2. /\ Len(mbuf) \in Nat /\ Len(f.data) \in Nat
            /\ IF f.fin THEN ks[1] = 1
               ELSE ks[1] = 0 /\ os[1] = Len(mbuf) + Len(f.data) /\ Len(f.data) > 0
        BY DataMeets
      <3>3. 1 \in 0 .. Len(Pending) BY <3>1, PendingTyped
      <3>4. ks[1] = 0 BY <1>3, <3>1
      <3>5. os[1] = 0 BY <1>3, <2>3, <3>3, <3>4 DEF Whole
      <3> QED BY <3>2, <3>4, <3>5
    <2>4. CASE \E t \in Threads : Unfinished(t) /\ last = MessageOf(t)
      <3>1. PICK t \in Threads : Unfinished(t) /\ last = MessageOf(t) BY <2>4
      <3>2. NotDue(t) /\ call[t].data = last.data BY <3>1, UnfinishedMid DEF MessageOf
      <3> QED BY <2>1, <3>2
    <2> QED BY <2>2, <2>3, <2>4 DEF WriterAt
  <1> QED BY <1>1, <1>2, <1>3

\* A step of the reader.
LEMMA ReaderStreams ==
  ASSUME StreamInv, Typed', ReaderStep
  PROVE  ~wrong' /\ Streaming' /\ Excused'
  <1> USE DEF StreamInv
  <1>1. CASE ReadEOF
    <2>1. wrong' = wrong /\ ended' = "eof" BY <1>1 DEF ReadEOF, ReadFails
    <2> QED BY <2>1 DEF Streaming, Excused
  <1>2. ASSUME NEW f \in Arriving,
               FrameRejected(f) \/ ReadControl(f) \/ ReadStray(f) \/ ReadData(f)
        PROVE  ~wrong' /\ Streaming' /\ Excused'
    <2>1. Arrived(f) BY <1>2 DEF FrameRejected, ReadControl, ReadStray, ReadData
    <2>2. UNCHANGED <<pc, call, werr, wild, mixed>> /\ ended = "no" BY <2>1, ArrivedTakes
    <2>3. CASE mixed \/ wild
      <3>1. wrong' = wrong
        BY <1>2, <2>3 DEF FrameRejected, ReadControl, ReadStray, ReadData, ReadFails, Returned
      <3> QED BY <2>2, <2>3, <3>1 DEF Streaming, Excused
    <2>4. CASE ~mixed /\ ~wild
      <3>1. PICK last, ks, os : Flow(last, ks, os) BY <2>2, <2>4 DEF Streaming
      <3>2. f \in Sound BY <2>4, ArrivingTyped
      <3>3. PayloadLen(f.len) = Len(f.data) /\ f.op # "reserved" BY <3>2 DEF Sound, DataTypes
      <3>4. MaxFrameSize \in Nat /\ MaxMessageSize \in Nat BY FramesAssumption
      <3>5. ASSUME ended' = "large", f.op # "ping", UNCHANGED due, wrong' = wrong,
                   ~werr => Oversized(Msg(due, last, 1).data)
            PROVE  ~wrong' /\ Streaming' /\ Excused'
        <4>1. Excused'
          <5>1. CASE werr BY <2>2, <5>1 DEF Excused
          <5>2. CASE ~werr
            <6>1. \/ \E i \in 1 .. Len(due) : Oversized(due[i].data)
                  \/ \E t \in Threads : NotDue(t) /\ Oversized(call[t].data)
              BY <2>1, <2>4, <3>1, <3>5, <5>2, LimitsBreak
            <6>2. \A t \in Threads : NotDue(t)' <=> NotDue(t) BY <2>2, OtherKept
            <6> QED BY <2>2, <3>5, <6>1, <6>2 DEF Excused, Oversized
          <5> QED BY <5>1, <5>2
        <4> QED BY <3>5, <4>1 DEF Streaming
      <3>6. CASE FrameRejected(f)
        <4>1. /\ ended' = "large" /\ UNCHANGED <<due, wrong>> /\ Len(f.data) > MaxFrameSize
          BY <3>2, <3>3, <3>4, <3>6, SoundPayload DEF FrameRejected, Accepted, ReadFails
        <4>2. f.op # "ping"
          <5>1. f.op = "ping" => Len(f.data) = 0 BY <2>1, <2>4, <3>1, ReaderMeets DEF Leads
          <5> QED BY <3>4, <4>1, <5>1
        <4>3. Oversized(Msg(due, last, 1).data)
          <5>1. PICK m : m = Msg(due, last, 1) OBVIOUS
          <5>2. /\ Len(mbuf) + Len(f.data) <= Len(m.data) /\ Len(m.data) \in Nat
                /\ Len(mbuf) \in Nat /\ Len(f.data) \in Nat
            BY <2>1, <2>4, <3>1, <4>2, <5>1, DataMeets
          <5>3. Len(m.data) > MaxFrameSize BY <3>4, <4>1, <5>2
          <5> QED BY <5>1, <5>3 DEF Oversized
        <4> QED BY <3>5, <4>1, <4>2, <4>3
      <3>7. CASE ReadControl(f)
        <4>1. wrong' = wrong /\ ended' = "no" BY <2>2, <3>7 DEF ReadControl
        <4>2. \E ks2, os2 : Flow(last, ks2, os2)' BY <2>4, <3>1, <3>7, ControlFlows
        <4> QED BY <4>1, <4>2 DEF Streaming, Excused
      <3>8. CASE ReadStray(f)
        <4>1. f.op = "continuation" /\ mtype = "none" BY <3>8 DEF ReadStray
        <4>2. mtype # "none" BY <2>1, <2>4, <3>1, <4>1, DataMeets
        <4> QED BY <4>1, <4>2
      <3>9. CASE ReadData(f)
        <4> DEFINE type == IF f.op = "continuation" THEN mtype ELSE f.op
                   data == mbuf \o Payload(f).data
        <4>1. /\ f.op # "ping"
              /\ \/ /\ Len(data) > MaxMessageSize
                    /\ ended' = "large" /\ UNCHANGED <<due, wrong>>
                 \/ f.fin /\ Restart /\ Returned([type |-> type, data |-> data]) /\ ended' = "no"
                 \/ /\ ~f.fin /\ mtype' = type /\ mbuf' = data
                    /\ ended' = "no" /\ UNCHANGED <<due, wrong>>
          BY <2>2, <3>9 DEF ReadData, TooLarge
        <4>2. CASE Len(data) > MaxMessageSize /\ ended' = "large" /\ UNCHANGED <<due, wrong>>
          <5>1. PICK m : m = Msg(due, last, 1) OBVIOUS
          <5>2. /\ Len(data) <= Len(m.data) /\ Len(m.data) \in Nat /\ Len(data) \in Nat
            BY <2>1, <2>4, <3>1, <4>1, <5>1, DataMeets
          <5> HIDE DEF data
          <5>3. Len(m.data) > MaxMessageSize BY <3>4, <4>2, <5>2
          <5>4. Oversized(Msg(due, last, 1).data) BY <5>1, <5>3 DEF Oversized
          <5> QED BY <3>5, <4>1, <4>2, <5>4
        <4>3. CASE f.fin /\ Restart /\ Returned([type |-> type, data |-> data]) /\ ended' = "no"
          <5>1. ~wrong' /\ \E ks2, os2 : Flow(last, ks2, os2)'
            BY <2>1, <2>4, <3>1, <4>1, <4>3, WholeFlows
          <5> QED BY <4>3, <5>1 DEF Streaming, Excused
        <4>4. CASE /\ ~f.fin /\ mtype' = type /\ mbuf' = data
                   /\ ended' = "no" /\ UNCHANGED <<due, wrong>>
          <5>1. \E ks2, os2 : Flow(last, ks2, os2)'
            BY <2>1, <2>4, <3>1, <4>1, <4>4, PartFlows
          <5> QED BY <4>4, <5>1 DEF Streaming, Excused
        <4> QED BY <4>1, <4>2, <4>3, <4>4
      <3> QED BY <1>2, <3>6, <3>7, <3>8, <3>9
    <2> QED BY <2>3, <2>4
  <1> QED BY <1>1, <1>2 DEF ReaderStep

\* A call is made.
LEMMA CallStreams ==
  ASSUME StreamInv, NEW t \in Threads, NEW kind, NEW type, NEW data, NEW size,
         Calling(t, kind, type, data, size)
  PROVE  ~wrong' /\ Streaming' /\ Excused'
  <1> USE DEF StreamInv
  <1>1. /\ pc[t] = "idle" /\ pc' = [pc EXCEPT ![t] = "fill"] /\ \E c : call' = [call EXCEPT ![t] = c]
        /\ UNCHANGED <<werr, wild, ended, wrong, due, mixed>>
    BY DEF Calling, Call, readVars
  <1>2. Streaming'
    <2> SUFFICES ASSUME ~mixed', ~wild', ended' = "no"
                 PROVE  \E last, ks, os : Flow(last, ks, os)'
      BY DEF Streaming
    <2>1. PICK last, ks, os : Flow(last, ks, os) BY <1>1 DEF Streaming
    <2> QED BY <2>1, CallFlows
  <1>3. ~Oversized(call[t].data)
    <2>1. call[t].data = <<>> BY <1>1 DEF Typed, CallOK
    <2>2. MaxFrameSize \in Nat /\ MaxMessageSize \in Nat BY FramesAssumption
    <2> QED BY <2>1, <2>2 DEF Oversized
  <1>4. ASSUME NEW u \in Threads, NotDue(u), Oversized(call[u].data)
        PROVE  NotDue(u)' /\ Oversized(call[u].data)'
    <2>1. u # t BY <1>3, <1>4
    <2>2. pc'[u] = pc[u] /\ call'[u] = call[u] BY <1>1, <2>1 DEF Typed, WriterTyped
    <2> QED BY <1>4, <2>2, OtherKept DEF Oversized
  <1>5. Excused' BY <1>1, <1>4 DEF Excused, Oversized
  <1> QED BY <1>1, <1>2, <1>5

\* A frame is written.
LEMMA FillStreams ==
  ASSUME StreamInv, Typed', NEW t \in Threads, Fill(t)
  PROVE  ~wrong' /\ Streaming' /\ Excused'
  <1> USE DEF StreamInv
  <1>1. /\ pc[t] = "fill" /\ ~werr /\ pc' = [pc EXCEPT ![t] = "flush"]
        /\ UNCHANGED <<call, werr, wild, ended, wrong>>
    BY DEF Fill, readVars
  <1>2. Streaming'
    <2> SUFFICES ASSUME ~mixed', ~wild', ended' = "no"
                 PROVE  \E last, ks, os : Flow(last, ks, os)'
      BY DEF Streaming
    <2>0. ~mixed BY DEF Fill
    <2>1. PICK last, ks, os : Flow(last, ks, os) BY <1>1, <2>0 DEF Streaming
    <2> QED BY <2>1, FillFlows
  <1>3. Excused'
    <2> SUFFICES ASSUME ended' \in {"invalid", "large"}, ~mixed', ~wild', ~werr'
                 PROVE  /\ ended' = "large"
                        /\ \/ \E i \in 1 .. Len(due') : Oversized(due'[i].data)
                           \/ \E u \in Threads : NotDue(u)' /\ Oversized(call'[u].data)
      BY DEF Excused, Oversized
    <2>1. ~mixed BY DEF Fill
    <2>2. /\ ended = "large"
          /\ \/ \E i \in 1 .. Len(due) : Oversized(due[i].data)
             \/ \E u \in Threads : NotDue(u) /\ Oversized(call[u].data)
      BY <1>1, <2>1 DEF Excused
    <2>3. due' = IF LastFrame(t) /\ call[t].kind # "control" THEN Append(due, MessageOf(t)) ELSE due
      BY DEF Fill, MessageOf
    <2>4. due \in Seq(Messages) /\ Len(due) \in Nat BY PendingTyped
    <2>5. CASE \E i \in 1 .. Len(due) : Oversized(due[i].data)
      <3>1. PICK i \in 1 .. Len(due) : Oversized(due[i].data) BY <2>5
      <3>2. i \in 1 .. Len(due') /\ due'[i] = due[i]
        <4>1. CASE due' = due BY <4>1
        <4>2. CASE due' = Append(due, MessageOf(t)) BY <2>4, <4>2
        <4> QED BY <2>3, <4>1, <4>2
      <3> QED BY <1>1, <2>2, <3>1, <3>2
    <2>6. ASSUME NEW u \in Threads, NotDue(u), Oversized(call[u].data)
          PROVE  \/ \E i \in 1 .. Len(due') : Oversized(due'[i].data)
                 \/ NotDue(u)' /\ Oversized(call'[u].data)
      <3>1. CASE u # t
        <4>1. pc'[u] = pc[u] /\ call'[u] = call[u] BY <1>1, <3>1 DEF Typed, WriterTyped
        <4> QED BY <2>6, <4>1, OtherKept
      <3>2. CASE u = t /\ ~LastFrame(t)
        <4>1. ~LastFrame(t)' BY <1>1, <3>2 DEF LastFrame, Fragmented, FragmentEnd
        <4> QED BY <1>1, <2>6, <3>2, <4>1 DEF NotDue
      <3>3. CASE u = t /\ LastFrame(t)
        <4>1. call[t].kind # "control"
          <5>1. call[t].kind = "control" => call[t].data = <<>> BY DEF Typed, CallOK
          <5>2. MaxFrameSize \in Nat /\ MaxMessageSize \in Nat BY FramesAssumption
          <5> QED BY <2>6, <3>3, <5>1, <5>2 DEF Oversized
        <4>2. due' = Append(due, MessageOf(t)) BY <2>3, <3>3, <4>1
        <4>3. Len(due) + 1 \in 1 .. Len(due') /\ due'[Len(due) + 1] = MessageOf(t)
          BY <2>4, <4>2
        <4> QED BY <2>6, <3>3, <4>3 DEF MessageOf
      <3> QED BY <3>1, <3>2, <3>3
    <2> QED BY <1>1, <2>2, <2>5, <2>6
  <1> QED BY <1>1, <1>2, <1>3

\* The buffer goes to the wire.
LEMMA FlushStreams ==
  ASSUME StreamInv, NEW t \in Threads, Flush(t)
  PROVE  ~wrong' /\ Streaming' /\ Excused'
  <1> USE DEF StreamInv
  <1>1. pc[t] = "flush" /\ GoOn(t) /\ UNCHANGED <<werr, wild, ended, wrong, due, mixed>>
    BY DEF Flush, readVars
  <1>2. Streaming'
    <2> SUFFICES ASSUME ~mixed', ~wild', ended' = "no"
                 PROVE  \E last, ks, os : Flow(last, ks, os)'
      BY DEF Streaming
    <2>1. PICK last, ks, os : Flow(last, ks, os) BY <1>1 DEF Streaming
    <2> QED BY <2>1, FlushFlows
  <1>3. ASSUME NEW u \in Threads, NotDue(u), Oversized(call[u].data)
        PROVE  NotDue(u)' /\ Oversized(call[u].data)'
    <2>1. CASE u # t
      <3>1. pc'[u] = pc[u] /\ call'[u] = call[u] BY <1>1, <2>1 DEF GoOn, Typed, WriterTyped
      <3> QED BY <1>3, <3>1, OtherKept DEF Oversized
    <2>2. CASE u = t
      <3>1. pc' = [pc EXCEPT ![t] = "fill"] /\ call' = [call EXCEPT ![t].pos = FragmentEnd(t)]
        BY <1>1, <1>3, <2>2 DEF GoOn, NotDue
      <3>2. pc'[t] = "fill" /\ call'[t] = [call[t] EXCEPT !.pos = FragmentEnd(t)]
        BY <3>1 DEF Typed, WriterTyped
      <3>3. call'[t].data = call[t].data
        <4>1. call[t] \in Calls BY DEF Typed, WriterTyped
        <4> QED BY <3>2, <4>1 DEF Calls
      <3> QED BY <1>3, <2>2, <3>2, <3>3 DEF NotDue, Oversized
    <2> QED BY <2>1, <2>2
  <1>4. Excused' BY <1>1, <1>3 DEF Excused, Oversized
  <1> QED BY <1>1, <1>2, <1>4

\* A write fails.
LEMMA FailStreams ==
  ASSUME StreamInv, NEW t \in Threads, FlushFails(t) \/ WriteFails(t)
  PROVE  ~wrong' /\ Streaming' /\ Excused'
  <1> USE DEF StreamInv
  <1>1. werr' /\ UNCHANGED <<wild, ended, wrong, mixed>>
    BY DEF FlushFails, WriteFails, readVars
  <1>2. Streaming'
    <2> SUFFICES ASSUME ~mixed', ~wild', ended' = "no"
                 PROVE  \E last, ks, os : Flow(last, ks, os)'
      BY DEF Streaming
    <2>1. PICK last, ks, os : Flow(last, ks, os) BY <1>1 DEF Streaming
    <2> QED BY <2>1, FailFlows
  <1> QED BY <1>1, <1>2 DEF Excused

\* Every step keeps the stream in order.
LEMMA StreamNext == StreamInv /\ [Next]_vars => StreamInv'
  <1> SUFFICES ASSUME StreamInv, [Next]_vars PROVE StreamInv' OBVIOUS
  <1>0. Typed' BY TypedNext DEF StreamInv
  <1> SUFFICES ~wrong' /\ Streaming' /\ Excused' BY <1>0 DEF StreamInv
  <1>1. CASE UNCHANGED vars \/ Idle
    <2>1. UNCHANGED <<pc, call, buf, wire, werr, wild, mtype, mbuf, ended, due, wrong, mixed>>
      BY <1>1 DEF vars, Idle
    <2>2. ASSUME NEW u \in Threads
          PROVE  /\ Unfinished(u)' <=> Unfinished(u)
                 /\ Filled(u)' = Filled(u) /\ MessageOf(u)' = MessageOf(u)
                 /\ NotDue(u)' <=> NotDue(u)
      BY <2>1, OtherKept
    <2>3. Streaming'
      <3> SUFFICES ASSUME ~mixed', ~wild', ended' = "no"
                   PROVE  \E last, ks, os : Flow(last, ks, os)'
        BY DEF Streaming
      <3>1. PICK last, ks, os : Flow(last, ks, os) BY <2>1 DEF StreamInv, Streaming
      <3>2. Pending' = Pending BY <2>1 DEF Pending
      <3>3. Flow(last, ks, os)' BY <2>1, <2>2, <3>1, <3>2, FlowKept
      <3> QED BY <3>3
    <2>4. Excused' BY <2>1, <2>2 DEF StreamInv, Excused, Oversized
    <2> QED BY <2>1, <2>3, <2>4 DEF StreamInv
  <1>2. CASE ForeignPeer
    <2>1. wild' /\ wrong' = wrong BY <1>2 DEF ForeignPeer, readVars
    <2> QED BY <2>1 DEF StreamInv, Streaming, Excused
  <1>3. CASE \/ \E t \in Writers : WriteMessage(t) \/ WriteFragmented(t)
             \/ WriteControl(Pinger)
    <2>1. PICK t \in Threads : \E kind, type, data, size : Calling(t, kind, type, data, size)
      BY <1>3, CallsMade DEF StreamInv
    <2> QED BY <2>1, CallStreams
  <1>4. ASSUME NEW t \in Threads, WriterStep(t) PROVE ~wrong' /\ Streaming' /\ Excused'
    BY <1>0, <1>4, FillStreams, FlushStreams, FailStreams DEF WriterStep
  <1>5. ASSUME NEW t \in Threads, Race(t) PROVE ~wrong' /\ Streaming' /\ Excused'
    <2>1. wild' /\ wrong' = wrong BY <1>5 DEF Race, readVars
    <2> QED BY <2>1 DEF StreamInv, Streaming, Excused
  <1>6. CASE ReaderStep BY <1>0, <1>6, ReaderStreams
  <1> QED BY <1>1, <1>2, <1>3, <1>4, <1>5, <1>6 DEF Next

\* ReadMessage returns the messages that were written, whole, with their
\* types and in their order, for as long as no frame of another call comes
\* between the fragments of a message and no two goroutines are in the
\* bufio.Writer at once.
THEOREM MessagesStayIntact == Spec => []MessagesIntact
  <1>1. StreamInv => MessagesIntact BY DEF StreamInv, MessagesIntact
  <1> QED BY <1>1, StreamInit, StreamNext, PTL DEF Spec

\* The reader breaks the connection only for a message over its limits, as
\* long as no frame of another call, a ping of the keep-alive among them,
\* came between the fragments of a message, no two goroutines wrote at once,
\* the peer is this library and no write has failed.
THEOREM BreaksForLimits == Spec => []OnlyLimitsBreak
  <1>1. StreamInv => OnlyLimitsBreak BY DEF StreamInv, Excused, OnlyLimitsBreak
  <1> QED BY <1>1, StreamInit, StreamNext, PTL DEF Spec
=============================================================================
