-------------------------- MODULE UsbStorageProofs --------------------------
(***************************************************************************)
(* That a read which returns true has the sector it was asked for, and     *)
(* that a lone stick is never given up.  A stick is either out of step     *)
(* with the driver's toggles or not; in both cases what is left of its     *)
(* answer after the data tells whether a status can still be taken.        *)
(***************************************************************************)
EXTENDS UsbStorage, SequenceTheorems, FiniteSetTheorems, TLAPS

Real == Packets \ {Nothing}
Sectors == Lbas \cup {Capacity}
StickStates == [address : 0 .. 2, out : {0, 1}, in : {0, 1}, send : Seq(Real)]
Sized == [address : {1, 2, IoBase}, sized : BOOLEAN]

(* What the proof needs of the types beyond TypeOK.                        *)
Typed ==
  /\ os \in {"OS1", "OS2"} /\ whole \in BOOLEAN /\ found \in BOOLEAN /\ plugged \subseteq Ports
  /\ pc \in {"free", "mounting", "command", "data", "status"} /\ next \in Nat
  /\ toggleOut \in {0, 1} /\ toggleIn \in {0, 1}
  /\ stick \in [Ports -> StickStates]
  /\ \A p \in Ports : Len(stick[p].send) <= Parts + 1 /\ stick[p].address \in {0, p + 1}
  /\ drives \in Seq(Sized)
  /\ call \in ((0 .. 2) \cup {IoBase}) \X Sectors
  /\ buffer \in Packets /\ faults \in 0 .. MaxFaults

LEMMA PacketFacts ==
  ASSUME NEW p \in Ports, NEW l \in Sectors, NEW n \in 1 .. Parts
  PROVE  /\ Data(p, l, n) \in Real /\ Data(p, l, n) \notin {Good, Bad}
         /\ Good \in Real /\ Bad \in Real
         /\ Size(Good) = 13 /\ Size(Bad) = 13
         /\ Size(Data(p, l, n)) = IF l = Capacity THEN 8 ELSE 64
<1>1. Data(p, l, n) \notin {Good, Bad, Nothing}
  <2>1. Len(Data(p, l, n)) = 4 /\ Len(Good) = 1 /\ Len(Bad) = 1 /\ Len(Nothing) = 1
    BY DEF Data, Good, Bad, Nothing
  <2> QED
    BY <2>1
<1>2. Good # Nothing /\ Bad # Nothing
  <2>1. Good[1] = "good status" /\ Bad[1] = "bad status" /\ Nothing[1] = "nothing"
    BY DEF Good, Bad, Nothing
  <2> QED
    BY <2>1
<1>3. Data(p, l, n)[3] = l
  BY DEF Data
<1>4. Data(p, l, n) \in Packets /\ Good \in Packets /\ Bad \in Packets
  BY DEF Packets, Sectors
<1> QED
  BY <1>1, <1>2, <1>3, <1>4 DEF Real, Size

(* The answer in parts: three of them, and the status.                     *)
LEMMA RowOfFour ==
  ASSUME NEW S, NEW f \in [1 .. 3 -> S], NEW d \in S
  PROVE  f \o <<d>> = <<f[1], f[2], f[3], d>>
<1> DEFINE s == f \o <<d>>
           t == <<f[1], f[2], f[3], d>>
<1>1. f \in Seq(S) /\ Len(f) = 3
  <2>1. 3 \in Nat
    OBVIOUS
  <2>2. f \in Seq(S)
    BY <2>1, SeqDef
  <2> QED
    BY <2>2, LenProperties
<1>2. <<d>> \in Seq(S) /\ Len(<<d>>) = 1 /\ <<d>>[1] = d
  OBVIOUS
<1>3. s \in Seq(S) /\ Len(s) = 4 /\ \A i \in 1 .. 4 : s[i] = IF i <= 3 THEN f[i] ELSE <<d>>[i - 3]
  <2> DEFINE last == <<d>>
  <2>1. last \in Seq(S) /\ Len(last) = 1
    BY <1>2
  <2> HIDE DEF last
  <2>2. f \o last \in Seq(S) /\ Len(f \o last) = 4
        /\ \A i \in 1 .. 4 : (f \o last)[i] = IF i <= 3 THEN f[i] ELSE last[i - 3]
    <3>1. /\ f \o last \in Seq(S) /\ Len(f \o last) = Len(f) + Len(last)
          /\ \A i \in 1 .. Len(f) + Len(last) :
               (f \o last)[i] = IF i <= Len(f) THEN f[i] ELSE last[i - Len(f)]
      BY <1>1, <2>1, ConcatProperties
    <3>2. Len(f) + Len(last) = 4
      BY <1>1, <2>1
    <3> QED
      BY <1>1, <3>1, <3>2
  <2> QED
    BY <2>2 DEF last
<1>4. t \in Seq(S) /\ Len(t) = 4 /\ t[1] = f[1] /\ t[2] = f[2] /\ t[3] = f[3] /\ t[4] = d
  <2>1. f[1] \in S /\ f[2] \in S /\ f[3] \in S
    OBVIOUS
  <2> QED
    BY <2>1
<1>5. \A i \in 1 .. 4 : s[i] = t[i]
  <2> HIDE DEF s, t
  <2> TAKE i \in 1 .. 4
  <2>1. CASE i = 1 \/ i = 2 \/ i = 3
    BY <1>3, <1>4, <2>1
  <2>2. CASE i = 4
    <3>1. i - 3 = 1 /\ ~(i <= 3)
      BY <2>2
    <3> QED
      BY <1>2, <1>3, <1>4, <2>2, <3>1
  <2> QED
    BY <2>1, <2>2
<1> HIDE DEF s, t
<1>6. s = t
  BY <1>3, <1>4, <1>5, SeqEqual
<1> QED
  BY <1>6 DEF s, t

LEMMA PartsReply ==
  ASSUME NEW p \in Ports, NEW l \in Sectors, ~(whole \/ l = Capacity)
  PROVE  Reply(p, l) = <<Data(p, l, 1), Data(p, l, 2), Data(p, l, 3), Good>>
<1> DEFINE parts == [n \in 1 .. Parts |-> Data(p, l, n)]
<1>1. /\ parts \in [1 .. 3 -> Real] /\ Good \in Real
      /\ parts[1] = Data(p, l, 1) /\ parts[2] = Data(p, l, 2) /\ parts[3] = Data(p, l, 3)
  BY PacketFacts DEF Parts
<1> HIDE DEF parts
<1>2. parts \o <<Good>> = <<parts[1], parts[2], parts[3], Good>>
  BY <1>1, RowOfFour
<1> QED
  BY <1>1, <1>2 DEF Reply, parts

LEMMA RowsTyped ==
  ASSUME NEW S, NEW a \in S, NEW b \in S, NEW c \in S, NEW d \in S
  PROVE  /\ <<a, b, c, d>> \in Seq(S) /\ Len(<<a, b, c, d>>) = 4
         /\ <<a, b>> \in Seq(S) /\ Len(<<a, b>>) = 2
         /\ <<a>> \in Seq(S) /\ Len(<<a>>) = 1
OBVIOUS

LEMMA ReplyTyped ==
  ASSUME NEW p \in Ports, NEW l \in Sectors
  PROVE  Reply(p, l) \in Seq(Real) /\ Len(Reply(p, l)) <= Parts + 1
<1> DEFINE d1 == Data(p, l, 1)
           d2 == Data(p, l, 2)
           d3 == Data(p, l, 3)
<1>1. d1 \in Real /\ d2 \in Real /\ d3 \in Real /\ Good \in Real
  BY PacketFacts DEF Parts
<1>2. Reply(p, l) = <<d1, Good>> \/ Reply(p, l) = <<d1, d2, d3, Good>>
  BY PartsReply DEF Reply
<1> HIDE DEF d1, d2, d3
<1>3. /\ <<d1, Good>> \in Seq(Real) /\ Len(<<d1, Good>>) = 2
      /\ <<d1, d2, d3, Good>> \in Seq(Real) /\ Len(<<d1, d2, d3, Good>>) = 4
  BY <1>1, RowsTyped
<1>4. CASE Reply(p, l) = <<d1, Good>>
  <2>1. Reply(p, l) \in Seq(Real) /\ Len(Reply(p, l)) = 2
    BY <1>3, <1>4
  <2> QED
    BY <2>1 DEF Parts
<1>5. CASE Reply(p, l) = <<d1, d2, d3, Good>>
  <2>1. Reply(p, l) \in Seq(Real) /\ Len(Reply(p, l)) = 4
    BY <1>3, <1>5
  <2> QED
    BY <2>1 DEF Parts
<1> QED
  BY <1>2, <1>4, <1>5

-----------------------------------------------------------------------------
(* What a transfer does to the sticks.                                     *)

\* The sticks keep their addresses and queue no more than an answer.
SticksKept(new) ==
  /\ new \in [Ports -> StickStates]
  /\ \A p \in Ports : Len(new[p].send) <= Parts + 1 /\ new[p].address = stick[p].address

LEMMA OneStickChanges ==
  ASSUME Typed, NEW p \in Ports, NEW s \in StickStates,
         Len(s.send) <= Parts + 1, s.address = stick[p].address
  PROVE  SticksKept([stick EXCEPT ![p] = s])
BY DEF Typed, SticksKept

LEMMA SendShrinks ==
  ASSUME NEW s \in StickStates, s.send # <<>>, Len(s.send) <= Parts + 1
  PROVE  /\ Tail(s.send) \in Seq(Real) /\ Len(Tail(s.send)) <= Parts + 1
         /\ Head(s.send) \in Real
<1>1. s.send \in Seq(Real)
  BY DEF StickStates
<1> DEFINE row == s.send
<1>2. row \in Seq(Real) /\ row # <<>> /\ Len(row) <= Parts + 1
  BY <1>1
<1> HIDE DEF row
<1>3. Tail(row) \in Seq(Real) /\ Len(Tail(row)) = Len(row) - 1 /\ Len(row) \in Nat
      /\ Head(row) \in Real
  BY <1>2, HeadTailProperties
<1>4. Len(Tail(row)) <= Parts + 1
  BY <1>2, <1>3 DEF Parts
<1> QED
  BY <1>3, <1>4 DEF row

LEMMA StickSteps ==
  ASSUME Typed, NEW p \in Ports
  PROVE  /\ /\ Awaited(p) \in StickStates /\ Len(Awaited(p).send) <= Parts + 1
            /\ Awaited(p).address = stick[p].address
         /\ Awaited(p).send # <<>> =>
              LET s == Acknowledged(Awaited(p))
              IN  /\ s \in StickStates /\ Len(s.send) <= Parts + 1
                  /\ s.address = stick[p].address
         /\ \A r \in Seq(Real) :
              /\ Took(p, r) \in StickStates /\ Took(p, r).send = r
              /\ Took(p, r).address = stick[p].address
<1>1. stick[p] \in StickStates /\ Len(stick[p].send) <= Parts + 1
  BY DEF Typed
<1>2. ASSUME NEW s \in StickStates, s.send # <<>>, Len(s.send) <= Parts + 1
      PROVE  LET t == [s EXCEPT !.in = Flip(@), !.send = Tail(@)]
             IN  /\ t \in StickStates /\ Len(t.send) <= Parts + 1 /\ t.address = s.address
  <2>1. Tail(s.send) \in Seq(Real) /\ Len(Tail(s.send)) <= Parts + 1
    BY <1>2, SendShrinks
  <2>2. Flip(s.in) \in {0, 1}
    BY DEF Flip, StickStates
  <2> QED
    BY <2>1, <2>2 DEF StickStates
<1>3. /\ Awaited(p) \in StickStates /\ Len(Awaited(p).send) <= Parts + 1
      /\ Awaited(p).address = stick[p].address
  BY <1>1, <1>2 DEF Awaited, Expected
<1>4. Awaited(p).send # <<>> =>
        LET s == Acknowledged(Awaited(p))
        IN  /\ s \in StickStates /\ Len(s.send) <= Parts + 1 /\ s.address = stick[p].address
  BY <1>2, <1>3 DEF Acknowledged
<1>5. \A r \in Seq(Real) :
        /\ Took(p, r) \in StickStates /\ Took(p, r).send = r
        /\ Took(p, r).address = stick[p].address
  <2>1. Flip(stick[p].out) \in {0, 1}
    BY <1>1 DEF Flip, StickStates
  <2> QED
    BY <1>1, <2>1 DEF Took, StickStates
<1> QED
  BY <1>3, <1>4, <1>5

LEMMA TogglesTurn ==
  ASSUME Typed
  PROVE  NextToggle(toggleOut) \in {0, 1} /\ NextToggle(toggleIn) \in {0, 1}
BY DEF Typed, NextToggle, Flip

LEMMA CommandKeeps ==
  ASSUME Typed, NEW a, NEW l \in Sectors, NEW ok \in BOOLEAN, BulkOut(a, l, ok)
  PROVE  /\ SticksKept(stick') /\ faults' \in 0 .. MaxFaults /\ faults' \in {faults, faults + 1}
         /\ toggleOut' \in {0, 1} /\ toggleIn' = toggleIn
<1>1. SticksKept(stick)
  BY DEF Typed, SticksKept
<1>2. faults \in 0 .. MaxFaults /\ (Fault => faults' \in 0 .. MaxFaults /\ faults' = faults + 1)
  BY FaultsAssumption DEF Typed, Fault
<1>3. toggleOut' \in {0, 1} /\ toggleIn' = toggleIn
  BY TogglesTurn DEF BulkOut
<1>4. <<Bad>> \in Seq(Real) /\ Len(<<Bad>>) <= Parts + 1
  <2>1. Bad # Nothing /\ Bad \in Packets
    <3>1. Bad[1] = "bad status" /\ Nothing[1] = "nothing"
      BY DEF Bad, Nothing
    <3>2. Bad \in Packets
      BY DEF Packets
    <3> QED
      BY <3>1, <3>2
  <2> QED
    BY <2>1, RowsTyped DEF Real, Parts
<1>5. ASSUME NEW p \in Ports
      PROVE  /\ SticksKept([stick EXCEPT ![p] = Took(p, Reply(p, l))])
             /\ SticksKept([stick EXCEPT ![p] = Took(p, <<Bad>>)])
  BY <1>4, ReplyTyped, StickSteps, OneStickChanges
<1>6. CASE ok
  <2>1. PICK p \in At(a) : CommandArrives(p, l)
    BY <1>6 DEF BulkOut
  <2>2. p \in Ports
    BY DEF At, Typed
  <2> QED
    BY <1>1, <1>2, <1>3, <1>5, <2>1, <2>2 DEF CommandArrives
<1>7. CASE ~ok
  <2>1. CASE UNCHANGED <<stick, faults>>
    BY <1>1, <1>2, <1>3, <2>1
  <2>2. ASSUME NEW p \in At(a), CommandLost(p, l)
        PROVE  SticksKept(stick') /\ faults' \in 0 .. MaxFaults /\ faults' = faults + 1
    <3>1. p \in Ports
      BY DEF At, Typed
    <3> QED
      BY <1>1, <1>2, <1>5, <2>2, <3>1 DEF CommandLost
  <2> QED
    BY <1>3, <1>7, <2>1, <2>2 DEF BulkOut
<1> QED
  BY <1>6, <1>7

LEMMA DataKeeps ==
  ASSUME Typed, NEW a, NEW room, NEW ok \in BOOLEAN, NEW packet, BulkIn(a, room, ok, packet)
  PROVE  /\ SticksKept(stick') /\ faults' \in 0 .. MaxFaults /\ faults' \in {faults, faults + 1}
         /\ toggleIn' \in {0, 1} /\ toggleOut' = toggleOut
<1>1. SticksKept(stick)
  BY DEF Typed, SticksKept
<1>2. faults \in 0 .. MaxFaults /\ (Fault => faults' \in 0 .. MaxFaults /\ faults' = faults + 1)
  BY FaultsAssumption DEF Typed, Fault
<1>3. toggleIn' \in {0, 1} /\ toggleOut' = toggleOut
  BY TogglesTurn DEF BulkIn
<1>4. ASSUME NEW p \in At(a)
      PROVE  /\ p \in Ports
             /\ SticksKept([stick EXCEPT ![p] = Awaited(p)])
             /\ Awaited(p).send # <<>> => SticksKept([stick EXCEPT ![p] = Acknowledged(Awaited(p))])
  <2>1. p \in Ports
    BY DEF At, Typed
  <2> QED
    BY <2>1, StickSteps, OneStickChanges
<1>5. CASE ok
  <2>1. PICK p \in At(a) :
          /\ Answers(p, room)
          /\ \/ stick' = [stick EXCEPT ![p] = Acknowledged(Awaited(p))] /\ UNCHANGED faults
             \/ stick' = [stick EXCEPT ![p] = Awaited(p)] /\ Fault
    BY <1>5 DEF BulkIn, Taken
  <2>2. Awaited(p).send # <<>>
    BY <2>1 DEF Answers
  <2> QED
    BY <1>2, <1>3, <1>4, <2>1, <2>2
<1>6. CASE ~ok
  <2>1. CASE /\ stick' = [p \in Ports |-> IF p \in At(a) THEN Awaited(p) ELSE stick[p]]
             /\ UNCHANGED faults
    <3>1. SticksKept([p \in Ports |-> IF p \in At(a) THEN Awaited(p) ELSE stick[p]])
      BY StickSteps DEF SticksKept, Typed
    <3> QED
      BY <1>2, <1>3, <2>1, <3>1
  <2>2. CASE \E p \in At(a) : stick' \in {stick, [stick EXCEPT ![p] = Awaited(p)]} /\ Fault
    BY <1>1, <1>2, <1>3, <1>4, <2>2
  <2> QED
    BY <1>6, <2>1, <2>2 DEF BulkIn, Missed
<1> QED
  BY <1>5, <1>6
-----------------------------------------------------------------------------
(* Types.                                                                  *)
LEMMA CallEnds ==
  ASSUME Typed, NEW result, EndCall(result)
  PROVE  drives' \in Seq(Sized) /\ pc' \in {"mounting", "free"}
<1>1. CASE Mounting
  <2> DEFINE n == Len(drives)
             new == [drives EXCEPT ![n].sized = (result = "ok")]
  <2>1. drives \in Seq(Sized) /\ (result = "ok") \in BOOLEAN
    BY DEF Typed
  <2>2. n \in Nat /\ drives \in [1 .. n -> Sized]
    BY <2>1
  <2> HIDE DEF n
  <2>3. new \in [1 .. n -> Sized]
    BY ZenonT(60), <2>1, <2>2 DEF Sized
  <2> HIDE DEF new
  <2>4. new \in Seq(Sized)
    BY <2>2, <2>3, SeqDef
  <2> QED
    BY <1>1, <2>4 DEF EndCall, new, n
<1>2. CASE ~Mounting
  BY <1>2 DEF EndCall, Typed
<1> QED
  BY <1>1, <1>2

LEMMA TypedInit == Init => Typed
<1> SUFFICES ASSUME Init PROVE Typed
  OBVIOUS
<1>1. stick \in [Ports -> StickStates]
      /\ \A p \in Ports : stick[p].send = <<>> /\ stick[p].address \in {0, p + 1}
  BY PortsAssumption DEF Init, Fresh, StickStates
<1>2. \A p \in Ports : Len(stick[p].send) <= Parts + 1
  BY <1>1 DEF Parts
<1>3. drives \in Seq(Sized) /\ call \in ((0 .. 2) \cup {IoBase}) \X Sectors
  BY DEF Init, Sectors
<1>4. buffer \in Packets /\ faults \in 0 .. MaxFaults
  BY FaultsAssumption DEF Init, Packets
<1>5. /\ os \in {"OS1", "OS2"} /\ whole \in BOOLEAN /\ found \in BOOLEAN /\ plugged \subseteq Ports
      /\ pc \in {"free", "mounting", "command", "data", "status"} /\ next \in Nat
      /\ toggleOut \in {0, 1} /\ toggleIn \in {0, 1}
  BY WholeAssumption DEF Init
<1> QED
  BY <1>1, <1>2, <1>3, <1>4, <1>5 DEF Typed

LEMMA TypedStep ==
  ASSUME Typed, [Next]_vars
  PROVE  Typed'
<1>0. call[1] \in (0 .. 2) \cup {IoBase} /\ call[2] \in Sectors
  BY DEF Typed
<1>00. ASSUME SticksKept(stick')
       PROVE  /\ stick' \in [Ports -> StickStates]
              /\ \A p \in Ports : Len(stick'[p].send) <= Parts + 1 /\ stick'[p].address \in {0, p + 1}
  BY <1>00 DEF SticksKept, Typed
<1>1. CASE SendCommand
  <2>1. PICK ok \in BOOLEAN : BulkOut(call[1], call[2], ok) /\ Continue(ok, "data")
    BY <1>1 DEF SendCommand
  <2>2. /\ SticksKept(stick') /\ faults' \in 0 .. MaxFaults
        /\ toggleOut' \in {0, 1} /\ toggleIn' = toggleIn
    BY <1>0, <2>1, CommandKeeps
  <2>3. drives' \in Seq(Sized) /\ pc' \in {"free", "mounting", "data"}
    BY <2>1, CallEnds DEF Continue, Typed
  <2> QED
    BY <1>1, <1>00, <2>2, <2>3 DEF SendCommand, Typed, device
<1>2. CASE ReceiveData
  <2>1. PICK ok \in BOOLEAN, packet \in Packets :
          /\ BulkIn(call[1], IF Mounting THEN 8 ELSE 512, ok, packet)
          /\ buffer' = IF ok THEN packet ELSE buffer
          /\ Continue(ok, "status")
    BY <1>2 DEF ReceiveData
  <2>2. /\ SticksKept(stick') /\ faults' \in 0 .. MaxFaults
        /\ toggleIn' \in {0, 1} /\ toggleOut' = toggleOut
    BY <2>1, DataKeeps
  <2>3. drives' \in Seq(Sized) /\ pc' \in {"free", "mounting", "status"}
    BY <2>1, CallEnds DEF Continue, Typed
  <2>4. buffer' \in Packets
    BY <2>1 DEF Typed
  <2> QED
    BY <1>2, <1>00, <2>2, <2>3, <2>4 DEF ReceiveData, Typed, device
<1>3. CASE ReceiveStatus
  <2>1. PICK ok \in BOOLEAN, packet \in Packets :
          /\ BulkIn(call[1], 13, ok, packet)
          /\ EndCall(IF ok /\ StatusAccepted(packet) THEN "ok" ELSE "failed")
    BY <1>3 DEF ReceiveStatus
  <2>2. /\ SticksKept(stick') /\ faults' \in 0 .. MaxFaults
        /\ toggleIn' \in {0, 1} /\ toggleOut' = toggleOut
    BY <2>1, DataKeeps
  <2>3. drives' \in Seq(Sized) /\ pc' \in {"free", "mounting"}
    BY <2>1, CallEnds
  <2> QED
    BY <1>3, <1>00, <2>2, <2>3 DEF ReceiveStatus, Typed, device
<1>4. CASE PciFindUhci
  BY <1>4 DEF PciFindUhci, Typed, device, host
<1>5. CASE MountPort
  <2>1. next \in Ports /\ next \in {0, 1} /\ next + 1 \in {1, 2} /\ next' \in Nat
    BY <1>5, PortsAssumption DEF MountPort
  <2>2. /\ stick' \in [Ports -> StickStates]
        /\ \A p \in Ports : Len(stick'[p].send) <= Parts + 1 /\ stick'[p].address \in {0, p + 1}
    <3>1. Enumerated(next) \in StickStates /\ Enumerated(next).address = next + 1
          /\ Len(Enumerated(next).send) <= Parts + 1
      <4>1. <<>> \in Seq(Real) /\ Len(<<>>) <= Parts + 1
        BY DEF Parts
      <4> QED
        BY <2>1, <4>1 DEF Enumerated, Fresh, StickStates
    <3>2. stick' \in {stick, [stick EXCEPT ![next] = Enumerated(next)]}
      BY <1>5 DEF MountPort, ControlFails
    <3> QED
      BY <2>1, <3>1, <3>2 DEF Typed
  <2>3. drives' \in Seq(Sized)
    <3>1. [address |-> next + 1, sized |-> FALSE] \in Sized
      BY <2>1 DEF Sized
    <3>2. drives \in Seq(Sized)
      BY DEF Typed
    <3>3. drives' = drives \/ drives' = Append(drives, [address |-> next + 1, sized |-> FALSE])
      BY <1>5 DEF MountPort
    <3>4. Append(drives, [address |-> next + 1, sized |-> FALSE]) \in Seq(Sized)
      BY <3>1, <3>2, AppendProperties
    <3> QED
      BY <3>2, <3>3, <3>4
  <2>4. call' \in ((0 .. 2) \cup {IoBase}) \X Sectors
    BY <1>5, <2>1 DEF MountPort, Typed, Sectors
  <2>5. pc' \in {"mounting", "command"} /\ faults' \in 0 .. MaxFaults
    BY <1>5, FaultsAssumption DEF MountPort, ControlFails, Fault, Typed
  <2> QED
    BY <1>5, <2>1, <2>2, <2>3, <2>4, <2>5 DEF MountPort, Typed, device, host
<1>6. CASE MountEnds
  BY <1>6 DEF MountEnds, Typed, device, host
<1>7. CASE ScanUsb
  <2>1. [address |-> IoBase, sized |-> FALSE] \in Sized
    BY DEF Sized
  <2>2. drives' \in Seq(Sized)
    BY <1>7, <2>1 DEF ScanUsb
  <2> QED
    BY <1>7, <2>2 DEF ScanUsb, Typed, device, host
<1>8. CASE Sweep
  BY <1>8 DEF Sweep, Typed, device, host
<1>9. ASSUME NEW d \in DOMAIN drives, NEW l \in Lbas, Read(d, l)
      PROVE  Typed'
  <2>1. drives[d] \in Sized
    BY DEF Typed
  <2>2. call' \in ((0 .. 2) \cup {IoBase}) \X Sectors
    BY <1>9, <2>1 DEF Read, Sized, Sectors
  <2> QED
    BY <1>9, <2>2 DEF Read, Typed, device, host
<1>10. CASE UNCHANGED vars
  BY <1>10 DEF vars, Typed, device, host
<1>11. CASE \E d \in DOMAIN drives, l \in Lbas : Read(d, l)
  <2> HIDE DEF Typed
  <2> QED
    BY <1>9, <1>11
<1> QED
  BY <1>1, <1>2, <1>3, <1>4, <1>5, <1>6, <1>7, <1>8, <1>10, <1>11 DEF Next

LEMMA TypedGivesTypeOK == Typed => TypeOK
<1> SUFFICES ASSUME Typed PROVE TypeOK
  OBVIOUS
<1>1. \A d \in DOMAIN drives : drives[d].address \in {1, 2, IoBase}
  <2>1. drives \in Seq(Sized)
    BY DEF Typed
  <2>2. \A d \in DOMAIN drives : drives[d] \in Sized
    BY <2>1
  <2> QED
    BY <2>2 DEF Sized
<1>2. \A p \in Ports : /\ stick[p].out \in {0, 1} /\ stick[p].in \in {0, 1}
                       /\ stick[p].address \in 0 .. 2
                       /\ stick[p].send \in Seq(Packets \ {Nothing})
                       /\ Len(stick[p].send) <= Parts + 1
  BY DEF Typed, StickStates, Real
<1> QED
  BY <1>1, <1>2 DEF TypeOK, Typed

-----------------------------------------------------------------------------
(* What a read returns.                                                    *)

RightData(p) == buffer = Data(p, call[2], 1) /\ (whole \/ Mounting)

(* A call is never one for address 0.  After the command the stick has     *)
(* nothing to send, a refusal or the whole answer; after the data, either  *)
(* the data was right or nothing it has left can be taken for a status.    *)
CallInv ==
  /\ answer = "ok" => pc \in {"free", "mounting"}
  /\ pc \in {"command", "data", "status"} => call[1] # 0
  /\ pc = "data" =>
       \A p \in At(call[1]) : stick[p].send \in {<<>>, <<Bad>>, Reply(p, call[2])}
  /\ pc = "status" => \A p \in At(call[1]) : RightData(p) \/ ~Answers(p, 13)
  /\ ReadIsTrue

(* Two sticks share no address but that of the sticks not yet enumerated.  *)
LEMMA OneStickAt ==
  ASSUME Typed, NEW a, a # 0, NEW p \in At(a), NEW q \in At(a)
  PROVE  p = q /\ p \in Ports
<1>1. p \in Ports /\ q \in Ports /\ stick[p].address = a /\ stick[q].address = a
  BY DEF At, Typed
<1>2. stick[p].address \in {0, p + 1} /\ stick[q].address \in {0, q + 1}
  BY <1>1 DEF Typed
<1>3. p + 1 = q + 1 /\ p \in {0, 1} /\ q \in {0, 1}
  BY <1>1, <1>2, PortsAssumption
<1> QED
  BY <1>1, <1>3

LEMMA SticksStay ==
  ASSUME Typed, SticksKept(stick'), UNCHANGED plugged, NEW a
  PROVE  At(a)' = At(a)
BY DEF SticksKept, At, Typed

(* The driver turns its toggle whether or not the stick heard it, so what  *)
(* the stick offers next is always what it offered, without the packet     *)
(* that was taken.                                                         *)
LEMMA TakenMovesOn ==
  ASSUME Typed, NEW a, a # 0, NEW room, NEW packet, BulkIn(a, room, TRUE, packet),
         NEW p \in At(a)
  PROVE  /\ Awaited(p).send # <<>> /\ packet = Head(Awaited(p).send) /\ Fits(packet, room)
         /\ Awaited(p)'.send = Tail(Awaited(p).send)
<1>1. PICK q \in At(a) :
        /\ Answers(q, room) /\ packet = Head(Awaited(q).send)
        /\ \/ stick' = [stick EXCEPT ![q] = Acknowledged(Awaited(q))]
           \/ stick' = [stick EXCEPT ![q] = Awaited(q)]
  BY DEF BulkIn, Taken
<1>2. p = q /\ p \in Ports
  BY OneStickAt
<1> DEFINE s == Awaited(p)
<1>3. /\ s \in StickStates /\ s.send # <<>> /\ packet = Head(s.send) /\ Fits(packet, room)
      /\ stick \in [Ports -> StickStates]
  BY <1>1, <1>2, StickSteps DEF Answers, Typed
<1>4. toggleIn' = Flip(toggleIn) /\ toggleIn \in {0, 1}
  BY DEF BulkIn, NextToggle, Typed
<1>5. s.in = toggleIn
  <2> DEFINE was == stick[p]
  <2>1. was \in StickStates /\ was.in \in {0, 1} /\ "in" \in DOMAIN was
    BY <1>2, <1>3 DEF StickStates
  <2>2. s = IF was.send # <<>> /\ was.in # toggleIn
            THEN [was EXCEPT !.in = Flip(@), !.send = Tail(@)] ELSE was
    BY DEF Awaited, Expected
  <2> HIDE DEF was, s
  <2>3. CASE was.send # <<>> /\ was.in # toggleIn
    <3>1. s.in = Flip(was.in)
      BY <2>1, <2>2, <2>3 DEF StickStates
    <3> QED
      BY <1>4, <2>1, <2>3, <3>1 DEF Flip
  <2>4. CASE ~(was.send # <<>> /\ was.in # toggleIn)
    BY <1>3, <2>2, <2>4
  <2> QED
    BY <2>3, <2>4
<1>6. Awaited(p)' = IF stick'[p].send # <<>> /\ stick'[p].in # toggleIn'
                    THEN Acknowledged(stick'[p]) ELSE stick'[p]
  BY DEF Awaited, Expected, Acknowledged
<1> HIDE DEF s
<1>7. CASE stick' = [stick EXCEPT ![p] = Acknowledged(s)]
  <2>1. stick'[p] = Acknowledged(s)
    BY <1>2, <1>3, <1>7
  <2>2. Acknowledged(s).in = Flip(s.in) /\ Acknowledged(s).send = Tail(s.send)
    BY <1>3 DEF Acknowledged, StickStates
  <2>3. Awaited(p)' = stick'[p]
    BY <1>4, <1>5, <1>6, <2>1, <2>2
  <2> QED
    BY <1>3, <2>1, <2>2, <2>3 DEF s
<1>8. CASE stick' = [stick EXCEPT ![p] = s]
  <2>1. stick'[p] = s
    BY <1>2, <1>3, <1>8
  <2>2. s.in # toggleIn'
    BY <1>4, <1>5 DEF Flip
  <2>3. Awaited(p)' = Acknowledged(s)
    BY <1>3, <1>6, <2>1, <2>2
  <2>4. Acknowledged(s).send = Tail(s.send)
    BY <1>3 DEF Acknowledged, StickStates
  <2> QED
    BY <1>3, <2>3, <2>4 DEF s
<1> QED
  BY <1>1, <1>2, <1>7, <1>8 DEF s

(* From a whole answer, or one without its first packet, the data transfer *)
(* takes the sector, or leaves nothing that is as short as a status.       *)
LEMMA DataOrNoStatus ==
  ASSUME NEW p \in Ports, NEW l \in Sectors, NEW offered,
         \E s \in {<<>>, <<Bad>>, Reply(p, l)} : offered \in {s, Tail(s)},
         offered # <<>>, Len(offered) \in Nat,
         Size(Head(offered)) <= 8 \/ l # Capacity
  PROVE  \/ Head(offered) = Data(p, l, 1) /\ (whole \/ l = Capacity)
         \/ Tail(offered) = <<>>
         \/ ~(Size(Head(Tail(offered))) <= 13)
<1> DEFINE d1 == Data(p, l, 1)
           d2 == Data(p, l, 2)
           d3 == Data(p, l, 3)
<1>1. d1 \in Real /\ d2 \in Real /\ d3 \in Real /\ Good \in Real /\ Bad \in Real
  BY PacketFacts DEF Parts
<1>2. l # Capacity => Size(d2) = 64 /\ Size(d3) = 64
  BY PacketFacts DEF Parts
<1> HIDE DEF d1, d2, d3
<1>3. /\ Tail(<<Bad>>) = <<>>
      /\ Head(<<d1, Good>>) = d1 /\ Tail(<<d1, Good>>) = <<Good>> /\ Tail(<<Good>>) = <<>>
      /\ Tail(<<d1, d2, d3, Good>>) = <<d2, d3, Good>> /\ Tail(<<d2, d3, Good>>) = <<d3, Good>>
      /\ Head(<<d2, d3, Good>>) = d2 /\ Head(<<d3, Good>>) = d3
  BY <1>1
<1>4. PICK s \in {<<>>, <<Bad>>, Reply(p, l)} : offered \in {s, Tail(s)}
  OBVIOUS
<1>5. CASE s = <<Bad>>
  BY <1>3, <1>4, <1>5
<1>6. CASE s = Reply(p, l) /\ (whole \/ l = Capacity)
  <2>1. s = <<d1, Good>>
    BY <1>6 DEF Reply, d1
  <2>2. CASE offered = s
    BY <1>3, <1>6, <2>1, <2>2 DEF d1
  <2>3. CASE offered = Tail(s)
    BY <1>3, <2>1, <2>3
  <2> QED
    BY <1>4, <2>2, <2>3
<1>7. CASE s = Reply(p, l) /\ ~(whole \/ l = Capacity)
  <2>1. s = <<d1, d2, d3, Good>>
    BY <1>7, PartsReply DEF d1, d2, d3
  <2>2. Size(Head(Tail(offered))) = 64
    BY <1>2, <1>3, <1>4, <1>7, <2>1
  <2> QED
    BY <2>2
<1>8. CASE s = <<>>
  <2>1. Tail(<<>>) = <<>>
    BY DEF Tail
  <2> QED
    BY <1>4, <1>8, <2>1
<1> QED
  BY <1>4, <1>5, <1>6, <1>7, <1>8

LEMMA CallInit == Init => CallInv
<1>1. "free" \notin {"command", "data", "status"} /\ "mounting" \notin {"command", "data", "status"}
  OBVIOUS
<1> QED
  BY <1>1 DEF Init, CallInv, ReadIsTrue

(* A step that leaves the calls alone.                                     *)
LEMMA CallRests ==
  ASSUME CallInv, pc \in {"free", "mounting"},
         \/ pc' \in {"free", "mounting"} /\ answer' # "ok"
         \/ /\ pc' \in {"free", "mounting"}
            /\ UNCHANGED <<answer, call, buffer, whole, plugged, stick>>
  PROVE  CallInv'
BY DEF CallInv, ReadIsTrue, At, Data, Mounting

LEMMA CallStep ==
  ASSUME Typed, CallInv, [Next]_vars
  PROVE  CallInv'
<1>0. call[1] \in (0 .. 2) \cup {IoBase} /\ call[2] \in Sectors
  BY DEF Typed
<1>1. CASE SendCommand
  <2>1. PICK ok \in BOOLEAN : BulkOut(call[1], call[2], ok) /\ Continue(ok, "data")
    BY <1>1 DEF SendCommand
  <2>2. pc = "command" /\ call[1] # 0 /\ UNCHANGED <<device, call, buffer>> /\ answer # "ok"
    BY <1>1 DEF SendCommand, CallInv
  <2>3. At(call[1])' = At(call[1])
    BY <1>0, <2>1, <2>2, CommandKeeps, SticksStay DEF device
  <2>4. CASE ok
    <3>1. PICK q \in At(call[1]) : CommandArrives(q, call[2])
      BY <2>1, <2>4 DEF BulkOut
    <3>2. ASSUME NEW p \in At(call[1])
          PROVE  stick'[p].send \in {<<>>, <<Bad>>, Reply(p, call[2])}
      <4>1. p = q /\ p \in Ports
        BY <2>2, <3>1, OneStickAt
      <4>2. <<Bad>> \in Seq(Real) /\ Reply(p, call[2]) \in Seq(Real)
        BY <1>0, <4>1, ReplyTyped, PacketFacts DEF Parts
      <4>3. CASE stick' = stick
        BY <3>1, <4>1, <4>3 DEF CommandArrives
      <4>4. CASE \E r \in {<<Bad>>, Reply(p, call[2])} : stick' = [stick EXCEPT ![p] = Took(p, r)]
        <5>1. PICK r \in {<<Bad>>, Reply(p, call[2])} : stick' = [stick EXCEPT ![p] = Took(p, r)]
          BY <4>4
        <5>2. Took(p, r).send = r
          BY <4>1, <4>2, <5>1, StickSteps
        <5>3. stick'[p] = Took(p, r)
          BY <4>1, <5>1 DEF Typed
        <5> QED
          BY <5>1, <5>2, <5>3
      <4> QED
        BY <3>1, <4>1, <4>3, <4>4 DEF CommandArrives
    <3>3. pc' = "data" /\ answer' # "ok"
      BY <2>1, <2>2, <2>4 DEF Continue
    <3>4. \A p \in At(call[1]) : (Reply(p, call[2]))' = Reply(p, call[2])
      BY <2>2 DEF device, Reply
    <3> QED
      BY <2>2, <2>3, <3>2, <3>3, <3>4 DEF CallInv, ReadIsTrue
  <2>5. CASE ~ok
    <3>1. pc' \in {"free", "mounting"} /\ answer' = "failed"
      BY <2>1, <2>5 DEF Continue, EndCall
    <3> QED
      BY <3>1 DEF CallInv, ReadIsTrue
  <2> QED
    BY <2>4, <2>5
<1>2. CASE ReceiveData
  <2>1. PICK ok \in BOOLEAN, packet \in Packets :
          /\ BulkIn(call[1], IF Mounting THEN 8 ELSE 512, ok, packet)
          /\ buffer' = IF ok THEN packet ELSE buffer
          /\ Continue(ok, "status")
    BY <1>2 DEF ReceiveData
  <2>2. pc = "data" /\ call[1] # 0 /\ UNCHANGED <<device, call>> /\ answer # "ok"
    BY <1>2 DEF ReceiveData, CallInv
  <2>3. At(call[1])' = At(call[1])
    BY <2>1, <2>2, DataKeeps, SticksStay DEF device
  <2>4. CASE ok
    <3>1. pc' = "status" /\ answer' # "ok" /\ buffer' = packet
      BY <2>1, <2>2, <2>4 DEF Continue
    <3>2. ASSUME NEW p \in At(call[1])
          PROVE  RightData(p)' \/ ~Answers(p, 13)'
      <4> DEFINE offered == Awaited(p).send
                 room == IF Mounting THEN 8 ELSE 512
      <4>1. p \in Ports
        BY <2>2, OneStickAt
      <4>2. BulkIn(call[1], room, TRUE, packet)
        BY <2>1, <2>4
      <4>3. /\ offered # <<>> /\ packet = Head(offered) /\ Fits(packet, room)
            /\ Awaited(p)'.send = Tail(offered)
        <5> HIDE DEF room
        <5> QED
          BY <1>0, <2>2, <4>2, TakenMovesOn
      <4>4. \E s \in {<<>>, <<Bad>>, Reply(p, call[2])} : offered \in {s, Tail(s)}
        <5>1. stick[p].send \in {<<>>, <<Bad>>, Reply(p, call[2])}
          BY <2>2 DEF CallInv
        <5>2. offered \in {stick[p].send, Tail(stick[p].send)}
          <6>1. stick[p] \in StickStates
            BY <4>1 DEF Typed
          <6> QED
            BY <6>1 DEF Awaited, Expected, StickStates
        <5> QED
          BY <5>1, <5>2
      <4>5. Len(offered) \in Nat
        BY <4>1, StickSteps DEF StickStates
      <4>6. Size(Head(offered)) <= 8 \/ call[2] # Capacity
        BY <4>3 DEF Fits, Mounting
      <4> HIDE DEF offered
      <4>7. \/ Head(offered) = Data(p, call[2], 1) /\ (whole \/ call[2] = Capacity)
            \/ Tail(offered) = <<>>
            \/ ~(Size(Head(Tail(offered))) <= 13)
        BY <1>0, <4>1, <4>3, <4>4, <4>5, <4>6, DataOrNoStatus
      <4>8. CASE Head(offered) = Data(p, call[2], 1) /\ (whole \/ call[2] = Capacity)
        BY <2>2, <3>1, <4>3, <4>8 DEF RightData, Mounting, Data, device
      <4>9. CASE Tail(offered) = <<>> \/ ~(Size(Head(Tail(offered))) <= 13)
        <5>1. ~(Awaited(p)'.send # <<>> /\ Fits(Head(Awaited(p)'.send), 13))
          BY <4>3, <4>9 DEF Fits
        <5> QED
          BY <5>1 DEF Answers
      <4> QED
        BY <4>7, <4>8, <4>9
    <3> QED
      BY <2>2, <2>3, <3>1, <3>2 DEF CallInv, ReadIsTrue
  <2>5. CASE ~ok
    <3>1. pc' \in {"free", "mounting"} /\ answer' = "failed"
      BY <2>1, <2>5 DEF Continue, EndCall
    <3> QED
      BY <3>1 DEF CallInv, ReadIsTrue
  <2> QED
    BY <2>4, <2>5
<1>3. CASE ReceiveStatus
  <2>1. PICK ok \in BOOLEAN, packet \in Packets :
          /\ BulkIn(call[1], 13, ok, packet)
          /\ EndCall(IF ok /\ StatusAccepted(packet) THEN "ok" ELSE "failed")
    BY <1>3 DEF ReceiveStatus
  <2>2. pc = "status" /\ call[1] # 0 /\ UNCHANGED <<device, call, buffer>>
    BY <1>3 DEF ReceiveStatus, CallInv
  <2>3. At(call[1])' = At(call[1])
    BY <2>1, <2>2, DataKeeps, SticksStay DEF device
  <2>4. pc' \in {"free", "mounting"} /\ answer' \in {"ok", "failed"}
        /\ (answer' = "ok" => ok)
    BY <2>1 DEF EndCall
  <2>5. ASSUME answer' = "ok" PROVE ReadIsTrue'
    <3>1. PICK p \in At(call[1]) : Answers(p, 13)
      BY <2>1, <2>4, <2>5 DEF BulkIn, Taken
    <3>2. RightData(p)
      BY <2>2, <3>1 DEF CallInv
    <3> QED
      BY <2>2, <2>3, <3>2 DEF RightData, ReadIsTrue, Mounting, Data, device
  <2>6. ReadIsTrue'
    BY <2>5 DEF ReadIsTrue
  <2> QED
    BY <2>4, <2>6 DEF CallInv
<1>4. CASE PciFindUhci
  BY <1>4, CallRests DEF PciFindUhci, device
<1>5. CASE MountPort
  <2>1. pc = "mounting" /\ answer' = "none" /\ next \in Ports
    BY <1>5 DEF MountPort
  <2>2. CASE pc' = "mounting"
    BY <2>1, <2>2, CallRests
  <2>3. CASE pc' = "command" /\ call' = <<next + 1, Capacity>>
    <3>1. call'[1] = next + 1 /\ next + 1 # 0
      BY <2>1, <2>3, PortsAssumption
    <3> QED
      BY <2>1, <2>3, <3>1 DEF CallInv, ReadIsTrue
  <2> QED
    BY <1>5, <2>1, <2>2, <2>3 DEF MountPort
<1>6. CASE MountEnds
  BY <1>6, CallRests DEF MountEnds, OwnRead, BulkTransfer, UhciBasePort
<1>7. CASE ScanUsb
  BY <1>7, CallRests DEF ScanUsb, device
<1>8. CASE Sweep
  BY <1>8, CallRests DEF Sweep, OwnRead, BulkTransfer, UhciBasePort
<1>9. ASSUME NEW d \in DOMAIN drives, NEW l \in Lbas, Read(d, l)
      PROVE  CallInv'
  <2>1. drives[d].address \in {1, 2, IoBase}
    BY TypedGivesTypeOK DEF TypeOK
  <2>2. call'[1] # 0 /\ pc' = "command" /\ answer' = "none"
    BY <1>9, <2>1 DEF Read, IoBase
  <2> QED
    BY <2>2 DEF CallInv, ReadIsTrue
<1>10. CASE UNCHANGED vars
  BY <1>10 DEF vars, device, host, CallInv, ReadIsTrue, RightData, At, Mounting, Answers, Awaited,
               Expected, Reply, Data
<1>11. CASE \E d \in DOMAIN drives, l \in Lbas : Read(d, l)
  BY <1>9, <1>11
<1> QED
  BY <1>1, <1>2, <1>3, <1>4, <1>5, <1>6, <1>7, <1>8, <1>10, <1>11 DEF Next

(* Toggles, packets and addresses are in range, and usb_bot_read_sectors   *)
(* returns true only with the sector it was asked for in the buffer.       *)
THEOREM ReadsAreTrue == Spec => []TransfersAreSound
<1>1. Init => Typed /\ CallInv
  BY TypedInit, CallInit
<1>2. Typed /\ CallInv /\ [Next]_vars => (Typed /\ CallInv)'
  BY TypedStep, CallStep
<1>3. Typed /\ CallInv => TransfersAreSound
  BY TypedGivesTypeOK DEF CallInv, TransfersAreSound
<1> QED
  BY <1>1, <1>2, <1>3, PTL DEF Spec

-----------------------------------------------------------------------------
(* A stick that is alone.                                                  *)

Calling == pc \in {"command", "data", "status"}

(* It has not been mounted and the toggles are as after a reset, or they   *)
(* are where the stick's are and it sends what the call awaits.            *)
LoneState(p) ==
  /\ answer # "failed"
  /\ drives = <<>> => toggleOut = 0 /\ toggleIn = 0 /\ pc \in {"mounting", "free"}
  /\ drives # <<>> =>
       /\ found /\ next > p /\ Len(drives) = 1
       /\ drives[1].address = p + 1 /\ stick[p].address = p + 1
       /\ stick[p].out = toggleOut /\ stick[p].in = toggleIn
       /\ Calling => call[1] = p + 1
       /\ stick[p].send = CASE pc = "data" -> <<Data(p, call[2], 1), Good>>
                            [] pc = "status" -> <<Good>> [] OTHER -> <<>>
       /\ drives[1].sized \/ (Calling /\ Mounting)

Lone(p) == os = "OS1" /\ whole /\ faults = 0 /\ plugged = {p}
LoneInv == \A p \in Ports : Lone(p) => LoneState(p)

LEMMA LoneInit == Init => LoneInv
BY DEF Init, LoneInv, LoneState, Lone, Calling

LEMMA LoneAt ==
  ASSUME Typed, NEW p \in Ports, Lone(p), LoneState(p), Calling
  PROVE  /\ drives # <<>> /\ At(call[1]) = {p} /\ call[1] = p + 1 /\ found
         /\ drives \in [{1} -> Sized] /\ stick[p] \in StickStates
         /\ stick[p].out = toggleOut /\ stick[p].in = toggleIn
         /\ call[2] \in Sectors /\ answer # "failed"
         /\ toggleOut \in {0, 1} /\ toggleIn \in {0, 1}
         /\ stick \in [Ports -> StickStates]
<1>1. drives # <<>> /\ call[1] = p + 1 /\ Len(drives) = 1
  BY DEF LoneState, Calling
<1>2. At(call[1]) = {p}
  BY <1>1 DEF At, Lone, LoneState
<1>3. drives \in Seq(Sized)
  BY DEF Typed
<1>4. drives \in [1 .. 1 -> Sized] /\ 1 .. 1 = {1}
  BY <1>1, <1>3
<1> QED
  BY <1>1, <1>2, <1>4 DEF Typed, LoneState

(* The transfers of a lone stick, in which nothing is lost.                *)
LEMMA LoneCommand ==
  ASSUME Typed, NEW p \in Ports, Lone(p), LoneState(p), pc = "command",
         NEW ok \in BOOLEAN, BulkOut(call[1], call[2], ok), faults' = 0
  PROVE  /\ ok
         /\ stick'[p] = Took(p, <<Data(p, call[2], 1), Good>>)
<1>1. Calling
  BY DEF Calling
<1>2. At(call[1]) = {p} /\ found /\ stick[p].send = <<>> /\ stick[p].out = toggleOut
      /\ stick \in [Ports -> StickStates] /\ faults = 0 /\ drives # <<>>
  BY <1>1, LoneAt DEF LoneState, Lone
<1>3. ~Fault
  BY <1>2 DEF Fault
<1>4. ok
  BY <1>2, <1>3 DEF BulkOut, CommandLost
<1>5. CommandArrives(p, call[2])
  BY <1>2, <1>4 DEF BulkOut
<1>6. stick' = [stick EXCEPT ![p] = Took(p, Reply(p, call[2]))]
  BY <1>2, <1>3, <1>5 DEF CommandArrives
<1>7. Reply(p, call[2]) = <<Data(p, call[2], 1), Good>>
  BY DEF Reply, Lone
<1> QED
  BY <1>2, <1>4, <1>6, <1>7

LEMMA LoneTransfer ==
  ASSUME Typed, NEW p \in Ports, Lone(p), LoneState(p), Calling,
         stick[p].send # <<>>, NEW room, Fits(Head(stick[p].send), room),
         NEW ok \in BOOLEAN, NEW packet, BulkIn(call[1], room, ok, packet), faults' = 0
  PROVE  /\ ok /\ packet = Head(stick[p].send)
         /\ stick'[p] = Acknowledged(stick[p])
<1>1. At(call[1]) = {p} /\ stick[p].in = toggleIn
      /\ stick \in [Ports -> StickStates] /\ faults = 0
  BY LoneAt DEF Lone
<1>2. ~Fault
  BY <1>1 DEF Fault
<1>3. Awaited(p) = stick[p]
  BY <1>1 DEF Awaited, Expected
<1>4. Answers(p, room)
  BY <1>3 DEF Answers
<1>5. ok
  BY <1>1, <1>2, <1>4 DEF BulkIn, Missed
<1>6. packet = Head(Awaited(p).send) /\ stick' = [stick EXCEPT ![p] = Acknowledged(Awaited(p))]
  BY <1>1, <1>2, <1>5 DEF BulkIn, Taken
<1> QED
  BY <1>1, <1>3, <1>5, <1>6

(* While the bus of a lone stick works, the step before was of one too.    *)
LEMMA LoneBefore ==
  ASSUME Typed, [Next]_vars, NEW p \in Ports, Lone(p)'
  PROVE  Lone(p) /\ faults' = 0
<1>0. faults \in Nat /\ call[2] \in Sectors
  BY FaultsAssumption DEF Typed
<1>1. UNCHANGED device /\ faults' \in {faults, faults + 1}
  <2>1. CASE SendCommand
    <3>1. PICK ok \in BOOLEAN : BulkOut(call[1], call[2], ok)
      BY <2>1 DEF SendCommand
    <3> QED
      BY <1>0, <2>1, <3>1, CommandKeeps DEF SendCommand
  <2>2. CASE ReceiveData
    <3>1. PICK ok \in BOOLEAN, packet \in Packets :
            BulkIn(call[1], IF Mounting THEN 8 ELSE 512, ok, packet)
      BY <2>2 DEF ReceiveData
    <3> QED
      BY <2>2, <3>1, DataKeeps DEF ReceiveData
  <2>3. CASE ReceiveStatus
    <3>1. PICK ok \in BOOLEAN, packet \in Packets : BulkIn(call[1], 13, ok, packet)
      BY <2>3 DEF ReceiveStatus
    <3> QED
      BY <2>3, <3>1, DataKeeps DEF ReceiveStatus
  <2>4. CASE MountPort
    BY <2>4 DEF MountPort, ControlFails, Fault
  <2>5. CASE PciFindUhci \/ MountEnds \/ ScanUsb \/ Sweep
    BY <2>5 DEF PciFindUhci, MountEnds, ScanUsb, Sweep
  <2>6. CASE \E d \in DOMAIN drives, l \in Lbas : Read(d, l)
    BY <2>6 DEF Read
  <2>7. CASE UNCHANGED vars
    BY <2>7 DEF vars
  <2> QED
    BY <2>1, <2>2, <2>3, <2>4, <2>5, <2>6, <2>7 DEF Next
<1>2. faults' = 0
  BY DEF Lone
<1>3. faults = 0
  BY <1>0, <1>1, <1>2
<1> QED
  BY <1>1, <1>2, <1>3 DEF Lone, device

LEMMA LoneStep ==
  ASSUME Typed, LoneInv, [Next]_vars
  PROVE  LoneInv'
<1> SUFFICES ASSUME NEW p \in Ports, Lone(p)'
             PROVE  LoneState(p)'
  BY DEF LoneInv
<1>0. Lone(p) /\ LoneState(p) /\ faults' = 0 /\ p \in {0, 1}
  BY LoneBefore, PortsAssumption DEF LoneInv
<1>1. CASE SendCommand
  <2>1. PICK ok \in BOOLEAN : BulkOut(call[1], call[2], ok) /\ Continue(ok, "data")
    BY <1>1 DEF SendCommand
  <2>2. pc = "command" /\ Calling /\ UNCHANGED <<device, found, next, call, buffer>>
    BY <1>1 DEF SendCommand, Calling
  <2>3. ok /\ stick'[p] = Took(p, <<Data(p, call[2], 1), Good>>)
    BY <1>0, <2>1, <2>2, LoneCommand
  <2>4. pc' = "data" /\ UNCHANGED <<drives, answer>>
    BY <2>1, <2>3 DEF Continue
  <2>5. stick[p] \in StickStates /\ stick[p].out = toggleOut /\ stick[p].in = toggleIn
        /\ drives # <<>>
    BY <1>0, <2>2, LoneAt
  <2>6. toggleOut' = Flip(toggleOut) /\ toggleIn' = toggleIn
    BY <2>1 DEF BulkOut, NextToggle
  <2>7. /\ stick'[p].out = toggleOut' /\ stick'[p].in = toggleIn'
        /\ stick'[p].address = stick[p].address
        /\ stick'[p].send = <<Data(p, call[2], 1), Good>>
    BY <2>3, <2>5, <2>6 DEF Took, StickStates
  <2>8. Data(p, call[2], 1)' = Data(p, call[2], 1) /\ Calling' /\ Mounting' = Mounting
    BY <2>2, <2>4 DEF Data, Calling, Mounting
  <2> QED
    BY <1>0, <2>2, <2>4, <2>5, <2>7, <2>8 DEF LoneState
<1>2. CASE ReceiveData
  <2> DEFINE d1 == Data(p, call[2], 1)
             room == IF Mounting THEN 8 ELSE 512
  <2>1. PICK ok \in BOOLEAN, packet \in Packets :
          BulkIn(call[1], room, ok, packet) /\ Continue(ok, "status")
    BY <1>2 DEF ReceiveData
  <2>2. pc = "data" /\ Calling /\ UNCHANGED <<device, found, next, call>>
    BY <1>2 DEF ReceiveData, Calling
  <2>3. stick[p] \in StickStates /\ stick[p].out = toggleOut /\ stick[p].in = toggleIn
        /\ drives # <<>> /\ call[2] \in Sectors
    BY <1>0, <2>2, LoneAt
  <2>4. stick[p].send = <<d1, Good>>
    BY <1>0, <2>2, <2>3 DEF LoneState
  <2>5. Size(d1) = (IF call[2] = Capacity THEN 8 ELSE 64) /\ d1 \in Real /\ Good \in Real
    BY <2>3, PacketFacts DEF Parts
  <2>6. stick[p].send # <<>> /\ Head(stick[p].send) = d1 /\ Tail(stick[p].send) = <<Good>>
    <3> HIDE DEF d1
    <3> QED
      BY <2>4, <2>5
  <2>7. Fits(Head(stick[p].send), room)
    <3> HIDE DEF d1
    <3> QED
      BY <2>5, <2>6 DEF Fits, Mounting
  <2> HIDE DEF d1, room
  <2>8. ok /\ stick'[p] = Acknowledged(stick[p])
    BY <1>0, <2>1, <2>2, <2>6, <2>7, LoneTransfer
  <2>9. pc' = "status" /\ UNCHANGED <<drives, answer>>
    BY <2>1, <2>8 DEF Continue
  <2>10. toggleIn' = Flip(toggleIn) /\ toggleOut' = toggleOut
    BY <2>1 DEF BulkIn, NextToggle
  <2>11. /\ stick'[p].out = toggleOut' /\ stick'[p].in = toggleIn'
         /\ stick'[p].address = stick[p].address /\ stick'[p].send = <<Good>>
    BY <2>3, <2>6, <2>8, <2>10 DEF Acknowledged, StickStates
  <2>12. Calling' /\ Mounting' = Mounting
    BY <2>2, <2>9 DEF Calling, Mounting
  <2> QED
    BY <1>0, <2>2, <2>3, <2>9, <2>11, <2>12 DEF LoneState
<1>3. CASE ReceiveStatus
  <2>1. PICK ok \in BOOLEAN, packet \in Packets :
          /\ BulkIn(call[1], 13, ok, packet)
          /\ EndCall(IF ok /\ StatusAccepted(packet) THEN "ok" ELSE "failed")
    BY <1>3 DEF ReceiveStatus
  <2>2. pc = "status" /\ Calling /\ UNCHANGED <<device, found, next, call>>
    BY <1>3 DEF ReceiveStatus, Calling
  <2>3. stick[p] \in StickStates /\ stick[p].out = toggleOut /\ stick[p].in = toggleIn
        /\ drives # <<>> /\ drives \in [{1} -> Sized]
    BY <1>0, <2>2, LoneAt
  <2>4. stick[p].send = <<Good>>
    BY <1>0, <2>2, <2>3 DEF LoneState
  <2>5. Size(Good) = 13 /\ stick[p].send # <<>> /\ Head(stick[p].send) = Good
        /\ Tail(stick[p].send) = <<>>
    BY <2>4 DEF Size
  <2>6. Fits(Head(stick[p].send), 13)
    BY <2>5 DEF Fits
  <2>7. ok /\ packet = Good /\ stick'[p] = Acknowledged(stick[p])
    BY <1>0, <2>1, <2>2, <2>5, <2>6, LoneTransfer
  <2>8. EndCall("ok")
    BY <2>1, <2>7 DEF StatusAccepted
  <2>9. answer' = "ok" /\ pc' \in {"mounting", "free"}
    BY <2>8 DEF EndCall
  <2>10. toggleIn' = Flip(toggleIn) /\ toggleOut' = toggleOut
    BY <2>1 DEF BulkIn, NextToggle
  <2>11. /\ stick'[p].out = toggleOut' /\ stick'[p].in = toggleIn'
         /\ stick'[p].address = stick[p].address /\ stick'[p].send = <<>>
    BY <2>3, <2>5, <2>7, <2>10 DEF Acknowledged, StickStates
  <2>12. Len(drives) = 1
    BY <1>0, <2>3 DEF LoneState
  <2>13. drives' # <<>> /\ Len(drives') = 1 /\ drives'[1].address = drives[1].address
         /\ drives'[1].sized
    <3>1. CASE Mounting
      <4>1. drives' = [drives EXCEPT ![1].sized = TRUE]
        BY <2>8, <2>12, <3>1 DEF EndCall
      <4>2. drives' \in [{1} -> Sized] /\ drives'[1].address = drives[1].address /\ drives'[1].sized
        BY <2>3, <4>1 DEF Sized
      <4>3. drives' \in [1 .. 1 -> Sized] /\ 1 \in Nat
        BY <4>2
      <4>4. drives' \in Seq(Sized) /\ Len(drives') = 1
        <5> DEFINE new == drives'
        <5>1. new \in [1 .. 1 -> Sized] /\ 1 \in Nat
          BY <4>3
        <5> HIDE DEF new
        <5>2. new \in Seq(Sized)
          BY <5>1, SeqDef
        <5>3. Len(new) = 1
          BY <5>1, <5>2, LenProperties
        <5> QED
          BY <5>2, <5>3 DEF new
      <4>5. drives' # <<>>
        BY SMTT(30), <4>4
      <4> QED
        BY <4>2, <4>4, <4>5
    <3>2. CASE ~Mounting
      <4>1. drives' = drives
        BY <2>8, <3>2 DEF EndCall
      <4>2. drives[1].sized
        BY <1>0, <2>3, <3>2 DEF LoneState
      <4> QED
        BY <2>3, <2>12, <4>1, <4>2
    <3> QED
      BY <3>1, <3>2
  <2>14. ~Calling' /\ pc' # "data" /\ pc' # "status"
    BY <2>9 DEF Calling
  <2> QED
    BY <1>0, <2>2, <2>3, <2>9, <2>11, <2>13, <2>14 DEF LoneState
<1>4. CASE PciFindUhci
  BY <1>0, <1>4 DEF PciFindUhci, LoneState, Calling, Mounting, Data, host
<1>5. CASE MountPort
  <2>1. pc = "mounting" /\ next \in Ports /\ next' = next + 1 /\ answer' = "none"
        /\ UNCHANGED <<host, found>> /\ found /\ next \in {0, 1} /\ stick \in [Ports -> StickStates]
    BY <1>5, PortsAssumption DEF MountPort, Typed
  <2>2. CASE next = p
    <3>1. drives = <<>>
      BY <1>0, <2>1, <2>2 DEF LoneState
    <3>2. /\ stick' = [stick EXCEPT ![next] = Enumerated(next)]
          /\ drives' = Append(drives, [address |-> next + 1, sized |-> FALSE])
          /\ call' = <<next + 1, Capacity>> /\ pc' = "command"
      BY <1>0, <1>5, <2>2 DEF MountPort, ControlFails, Fault, Lone
    <3>3. drives' = <<[address |-> p + 1, sized |-> FALSE]>>
      BY <2>2, <3>1, <3>2
    <3>4. drives' # <<>> /\ Len(drives') = 1 /\ drives'[1].address = p + 1
      BY <3>3
    <3>5. stick'[p] = Fresh(p + 1)
      BY <2>1, <2>2, <3>2 DEF Enumerated
    <3>6. stick'[p].address = p + 1 /\ stick'[p].out = 0 /\ stick'[p].in = 0 /\ stick'[p].send = <<>>
      BY <3>5 DEF Fresh
    <3>7. toggleOut' = 0 /\ toggleIn' = 0
      BY <1>0, <2>1, <3>1 DEF LoneState, host
    <3>8. Calling' /\ Mounting' /\ call'[1] = p + 1 /\ next' > p /\ found'
      BY <1>0, <2>1, <2>2, <3>2 DEF Calling, Mounting
    <3> QED
      BY <2>1, <3>2, <3>4, <3>6, <3>7, <3>8 DEF LoneState
  <2>3. CASE next # p
    <3>1. UNCHANGED <<stick, drives, call, pc>>
      BY <1>0, <1>5, <2>3 DEF MountPort, Lone, ControlFails, Fault
    <3>2. next > p => next' > p
      BY <1>0, <2>1
    <3>3. ~Calling /\ ~Calling'
      BY <2>1, <3>1 DEF Calling
    <3> QED
      BY <1>0, <2>1, <3>1, <3>2, <3>3 DEF LoneState, host
  <2> QED
    BY <2>2, <2>3
<1>6. CASE MountEnds
  <2>1. ~Calling /\ ~Calling' /\ pc \notin {"data", "status"} /\ pc' \notin {"data", "status"}
        /\ pc' = "free" /\ answer' # "failed"
    BY <1>6 DEF MountEnds, Calling, OwnRead, BulkTransfer, UhciBasePort
  <2> QED
    BY <1>0, <1>6, <2>1 DEF MountEnds, LoneState, host
<1>7. CASE ScanUsb
  BY <1>0, <1>7 DEF ScanUsb, Lone
<1>8. CASE Sweep
  <2>1. ~Calling /\ answer' # "failed"
    BY <1>8 DEF Sweep, Calling, OwnRead, BulkTransfer, UhciBasePort
  <2>2. ~Calling'
    BY <1>8 DEF Sweep, Calling
  <2> QED
    BY <1>0, <1>8, <2>1, <2>2 DEF Sweep, LoneState, host
<1>9. ASSUME NEW d \in DOMAIN drives, NEW l \in Lbas, Read(d, l)
      PROVE  LoneState(p)'
  <2>1. drives # <<>> /\ d = 1
    <3>1. drives \in Seq(Sized)
      BY DEF Typed
    <3>2. drives # <<>>
      BY <3>1
    <3>3. Len(drives) = 1
      BY <1>0, <3>2 DEF LoneState
    <3> QED
      BY <3>1, <3>2, <3>3
  <2>2. pc = "free" /\ pc' = "command" /\ answer' = "none" /\ call' = <<p + 1, l>>
    BY <1>0, <1>9, <2>1 DEF Read, LoneState
  <2>3. ~Calling /\ Calling' /\ call'[1] = p + 1
    BY <2>2 DEF Calling
  <2> QED
    BY <1>0, <1>9, <2>1, <2>2, <2>3 DEF Read, LoneState, host
<1>10. CASE UNCHANGED vars
  BY <1>0, <1>10 DEF vars, device, host, LoneState, Calling, Mounting, Data
<1>11. CASE \E d \in DOMAIN drives, l \in Lbas : Read(d, l)
  BY <1>9, <1>11
<1> QED
  BY <1>1, <1>2, <1>3, <1>4, <1>5, <1>6, <1>7, <1>8, <1>10, <1>11 DEF Next

(* usb_mount_drive sizes a stick that is alone, and every read of it comes *)
(* back, as long as nothing is lost or refused.                            *)
THEOREM LoneSticksAnswer == Spec => []LoneStickAnswers
<1>1. Init => Typed /\ LoneInv
  BY TypedInit, LoneInit
<1>2. Typed /\ LoneInv /\ [Next]_vars => (Typed /\ LoneInv)'
  BY TypedStep, LoneStep
<1>3. Typed /\ LoneInv => LoneStickAnswers
  <2> SUFFICES ASSUME Typed, LoneInv, os = "OS1", whole, faults = 0, Cardinality(plugged) = 1
               PROVE  answer # "failed" /\ (pc = "free" => \A d \in DOMAIN drives : drives[d].sized)
    BY DEF LoneStickAnswers
  <2>1. PICK p \in Ports : plugged = {p}
    <3>1. IsFiniteSet({0, 1})
      <4>1. IsFiniteSet({0} \cup {1})
        BY FS_Singleton, FS_AddElement
      <4>2. {0} \cup {1} = {0, 1}
        OBVIOUS
      <4> QED
        BY <4>1, <4>2
    <3>2. plugged \subseteq {0, 1} /\ plugged \subseteq Ports
      BY PortsAssumption DEF Typed
    <3>3. IsFiniteSet(plugged)
      BY <3>1, <3>2, FS_Subset
    <3>4. \E p : plugged = {p}
      BY <3>3, FS_Singleton
    <3> QED
      BY <3>2, <3>4
  <2>2. LoneState(p)
    BY <2>1 DEF LoneInv, Lone
  <2>3. ASSUME pc = "free", NEW d \in DOMAIN drives
        PROVE  drives[d].sized
    <3>1. drives \in Seq(Sized)
      BY DEF Typed
    <3>2. drives # <<>>
      BY <3>1, <2>3
    <3>3. Len(drives) = 1 /\ drives[1].sized
      BY <2>2, <2>3, <3>2 DEF LoneState, Calling
    <3> QED
      BY <2>3, <3>1, <3>3
  <2> QED
    BY <2>2, <2>3 DEF LoneState
<1> QED
  BY <1>1, <1>2, <1>3, PTL DEF Spec
=============================================================================
