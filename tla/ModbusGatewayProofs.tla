------------------------- MODULE ModbusGatewayProofs -------------------------
(***************************************************************************)
(* Proofs about ModbusGateway, for any number of requests, symbols of a    *)
(* message, room in the buffer and damaged replies.  Turns says that one   *)
(* thing at most is under way, a request on its way down, a frame on the   *)
(* line or a reply on its way up; Rtu and Ascii say what the receivers     *)
(* know meanwhile, Owned that all the symbols there are belong to the last *)
(* request, and Written how much of it is on the line.                     *)
(***************************************************************************)
EXTENDS ModbusGateway, TLAPS, SequenceTheorems

\* The client waits for a reply, or until none will come; the timer of the RTU receiver
\* has its time, and no ASCII reply loses its LF.
PatientLoads ==
  \A l \in Loads : ~l.eager /\ (IF l.protocol = "rtu" THEN l.t35 ELSE "lf" \notin l.damage)

-----------------------------------------------------------------------------
(* Symbols of one message *)

\* All of s belong to the message t, or to none.
Own(s, t) == \A i \in 1..Len(s) : s[i].m \in {0, t}

\* An ASCII frame, and what is left of one after its START.
Closed(p)  == Len(p) >= 2 /\ p[Len(p) - 1] = CR /\ p[Len(p)] = LF
Text(p, n) == \A i \in n..(Len(p) - 2) : p[i].k = "data"
Framed(p)  == Len(p) >= 4 /\ p[1] = START /\ Text(p, 2) /\ Closed(p)
Opened(p)  == Text(p, 1) /\ Closed(p)

\* The symbols there are.
LEMMA SymbolTypes ==
  /\ Noise \in Symbols /\ START \in Symbols /\ CR \in Symbols /\ LF \in Symbols
  /\ Noise.m = 0 /\ START.m = 0 /\ CR.m = 0 /\ LF.m = 0
  /\ Noise.k = "data" /\ START.k = "start" /\ CR.k = "cr" /\ LF.k = "lf"
  /\ \A m \in 0..Requests, i \in 0..Parts : Sym("data", m, i) \in Symbols
BY ModbusConstants DEF Noise, START, CR, LF, Sym, Symbols

\* A message is its Parts symbols.
LEMMA BodyType ==
  ASSUME NEW m \in 0..Requests
  PROVE  /\ Body(m) \in Seq(Symbols) /\ Len(Body(m)) = Parts
         /\ \A i \in 1..Parts : Body(m)[i] = Sym("data", m, i)
         /\ Own(Body(m), m)
<1>1. Parts \in Nat /\ \A i \in 1..Parts : i \in 0..Parts
  BY ModbusConstants
<1>2. \A i \in 1..Parts : Sym("data", m, i) \in Symbols
  BY <1>1, SymbolTypes
<1>3. /\ Body(m) \in Seq(Symbols) /\ Len(Body(m)) = Parts
      /\ \A i \in 1..Parts : Body(m)[i] = Sym("data", m, i)
  BY <1>1, <1>2 DEF Body
<1> QED BY <1>3 DEF Own, Sym

\* Two messages have no symbol in common.
LEMMA BodyOfOne ==
  ASSUME NEW m \in 1..Requests, NEW s, NEW t, Own(s, t), s = Body(m)
  PROVE  m = t
<1>1. Len(s) = Parts /\ 1 \in 1..Parts
  BY BodyType, ModbusConstants
<1>2. s[1] = Sym("data", m, 1)
  BY <1>1, BodyType
<1> QED BY <1>1, <1>2 DEF Own, Sym

\* The frame of a message, symbol by symbol.
LEMMA OnLineType ==
  ASSUME load \in Load, NEW m \in 1..Requests
  PROVE  /\ OnLine(m) \in Seq(Symbols)
         /\ load.protocol = "rtu" => OnLine(m) = Body(m)
         /\ load.protocol = "ascii" =>
              /\ Len(OnLine(m)) = Parts + 3 /\ OnLine(m)[1] = START
              /\ \A i \in 1..Parts : OnLine(m)[i + 1] = Body(m)[i]
              /\ OnLine(m)[Parts + 2] = CR /\ OnLine(m)[Parts + 3] = LF
<1>1. /\ Body(m) \in Seq(Symbols) /\ Len(Body(m)) = Parts /\ Parts \in Nat
      /\ <<START>> \in Seq(Symbols) /\ <<CR, LF>> \in Seq(Symbols)
  BY BodyType, SymbolTypes, ModbusConstants
<1>2. load.protocol \in {"rtu", "ascii"}
  BY DEF Load
<1>3. CASE load.protocol = "rtu"
  BY <1>1, <1>3 DEF OnLine
<1>4. CASE load.protocol = "ascii"
  <2> DEFINE b == Body(m)
             q == <<START>> \o b
  <2>1. OnLine(m) = q \o <<CR, LF>>
    BY <1>4 DEF OnLine
  <2>2. q \in Seq(Symbols) /\ Len(q) = Parts + 1 /\ q[1] = START
    BY <1>1, ConcatProperties
  <2>3. \A i \in 1..Parts : q[i + 1] = b[i]
    BY <1>1, ConcatProperties
  <2> HIDE DEF q, b
  <2>4. /\ OnLine(m) \in Seq(Symbols) /\ Len(OnLine(m)) = Parts + 3
        /\ \A i \in 1..(Parts + 1) : OnLine(m)[i] = q[i]
        /\ OnLine(m)[Parts + 2] = CR /\ OnLine(m)[Parts + 3] = LF
    BY <1>1, <2>1, <2>2, ConcatProperties
  <2>5. \A i \in 1..Parts : OnLine(m)[i + 1] = b[i]
    BY <1>1, <2>3, <2>4
  <2>6. OnLine(m)[1] = START
    BY <1>1, <2>2, <2>4
  <2> QED BY <1>4, <2>4, <2>5, <2>6 DEF b
<1> QED BY <1>2, <1>3, <1>4

\* A sequence without the element at i.
LEMMA Removed ==
  ASSUME NEW S, NEW s \in Seq(S), NEW i \in 1..Len(s)
  PROVE  /\ RemoveAt(s, i) \in Seq(S) /\ Len(RemoveAt(s, i)) = Len(s) - 1
         /\ \A j \in 1..(Len(s) - 1) : RemoveAt(s, i)[j] = IF j < i THEN s[j] ELSE s[j + 1]
<1>1. Len(s) \in Nat /\ i \in Nat /\ i >= 1 /\ i <= Len(s)
  BY LenProperties
<1> DEFINE a == SubSeq(s, 1, i - 1)
           b == SubSeq(s, i + 1, Len(s))
<1>2. a \in Seq(S) /\ Len(a) = i - 1 /\ \A j \in 1..(i - 1) : a[j] = s[j]
  BY <1>1
<1>3. b \in Seq(S) /\ Len(b) = Len(s) - i /\ \A j \in 1..(Len(s) - i) : b[j] = s[i + j]
  BY <1>1
<1>4. RemoveAt(s, i) = a \o b
  BY DEF RemoveAt
<1> HIDE DEF a, b
<1>5. /\ a \o b \in Seq(S) /\ Len(a \o b) = Len(s) - 1
      /\ \A j \in 1..(Len(s) - 1) : (a \o b)[j] = IF j <= i - 1 THEN a[j] ELSE b[j - (i - 1)]
  <2>1. /\ a \o b \in Seq(S) /\ Len(a \o b) = Len(a) + Len(b)
        /\ \A j \in 1..(Len(a) + Len(b)) :
             (a \o b)[j] = IF j <= Len(a) THEN a[j] ELSE b[j - Len(a)]
    BY <1>2, <1>3, ConcatProperties
  <2>2. Len(a) = i - 1 /\ Len(a) + Len(b) = Len(s) - 1
    BY <1>1, <1>2, <1>3
  <2> QED BY <2>1, <2>2
<1>6. ASSUME NEW j \in 1..(Len(s) - 1)
      PROVE  (a \o b)[j] = IF j < i THEN s[j] ELSE s[j + 1]
  <2>1. CASE j < i
    BY <1>1, <1>2, <1>5, <2>1
  <2>2. CASE j >= i
    <3>1. j - (i - 1) \in 1..(Len(s) - i) /\ i + (j - (i - 1)) = j + 1
      BY <1>1, <2>2
    <3> QED BY <1>1, <1>3, <1>5, <2>2, <3>1
  <2>3. j < i \/ j >= i
    BY <1>1
  <2> QED BY <2>1, <2>2, <2>3
<1> QED BY <1>4, <1>5, <1>6

\* One symbol after the other, of the frames a task puts together and takes apart.
LEMMA OwnTail ==
  ASSUME NEW p \in Seq(Symbols), p # <<>>, NEW t, Own(p, t)
  PROVE  Tail(p) \in Seq(Symbols) /\ Own(Tail(p), t) /\ Head(p) \in Symbols /\ Head(p).m \in {0, t}
<1>1. Len(p) \in Nat \ {0} /\ Head(p) = p[1]
  OBVIOUS
<1>2. /\ Tail(p) \in Seq(Symbols) /\ Len(Tail(p)) = Len(p) - 1 /\ Head(p) \in Symbols
      /\ \A i \in 1..(Len(p) - 1) : Tail(p)[i] = p[i + 1]
  BY HeadTailProperties
<1>3. \A i \in 1..(Len(p) - 1) : i + 1 \in 1..Len(p)
  BY <1>1
<1> QED BY <1>1, <1>2, <1>3 DEF Own

LEMMA OwnAppend ==
  ASSUME NEW p \in Seq(Symbols), NEW t, Own(p, t), NEW b \in Symbols, b.m \in {0, t}
  PROVE  /\ Append(p, b) \in Seq(Symbols) /\ Own(Append(p, b), t)
         /\ Len(Append(p, b)) = Len(p) + 1
<1>1. /\ Append(p, b) \in Seq(Symbols) /\ Len(Append(p, b)) = Len(p) + 1 /\ Len(p) \in Nat
      /\ \A i \in 1..Len(p) : Append(p, b)[i] = p[i]
      /\ Append(p, b)[Len(p) + 1] = b
  BY AppendProperties
<1>2. \A i \in 1..(Len(p) + 1) : i \in 1..Len(p) \/ i = Len(p) + 1
  BY <1>1
<1> QED BY <1>1, <1>2 DEF Own

\* After its START a frame is open; an open one has its CR at the end of the text.
LEMMA FramedTail ==
  ASSUME NEW p \in Seq(Symbols), Framed(p)
  PROVE  p # <<>> /\ Head(p) = START /\ Opened(Tail(p)) /\ Len(Tail(p)) >= 3
<1>1. Len(p) \in Nat /\ Len(p) >= 4 /\ p # <<>> /\ Head(p) = p[1]
  BY DEF Framed
<1>2. /\ Len(Tail(p)) = Len(p) - 1
      /\ \A i \in 1..(Len(p) - 1) : Tail(p)[i] = p[i + 1]
  BY <1>1, HeadTailProperties
<1>3. \A i \in 1..(Len(p) - 3) : i + 1 \in 2..(Len(p) - 2) /\ i \in 1..(Len(p) - 1)
  BY <1>1
<1>4. Text(Tail(p), 1)
  <2>1. Len(Tail(p)) - 2 = Len(p) - 3
    BY <1>1, <1>2
  <2>2. \A i \in 1..(Len(p) - 3) : Tail(p)[i].k = "data"
    BY <1>2, <1>3 DEF Framed, Text
  <2> QED BY <2>1, <2>2 DEF Text
<1>5. Closed(Tail(p))
  <2>1. Len(p) - 2 \in 1..(Len(p) - 1) /\ Len(p) - 1 \in 1..(Len(p) - 1)
    BY <1>1
  <2>2. Tail(p)[Len(p) - 2] = p[Len(p) - 1] /\ Tail(p)[Len(p) - 1] = p[Len(p)]
    BY <1>1, <1>2, <2>1
  <2>3. Len(Tail(p)) - 1 = Len(p) - 2 /\ Len(Tail(p)) >= 2
    BY <1>1, <1>2
  <2> QED BY <1>2, <2>2, <2>3 DEF Framed, Closed
<1> QED BY <1>1, <1>2, <1>4, <1>5 DEF Framed, Opened

LEMMA OpenedTail ==
  ASSUME NEW p \in Seq(Symbols), Opened(p)
  PROVE  /\ p # <<>>
         /\ Len(p) = 2 => Head(p) = CR /\ Tail(p) = <<LF>>
         /\ Len(p) # 2 => Head(p) # CR /\ Opened(Tail(p)) /\ Len(Tail(p)) >= 2
<1>1. Len(p) \in Nat /\ Len(p) >= 2 /\ p # <<>> /\ Head(p) = p[1]
  BY DEF Opened, Closed
<1>2. /\ Tail(p) \in Seq(Symbols) /\ Len(Tail(p)) = Len(p) - 1
      /\ \A i \in 1..(Len(p) - 1) : Tail(p)[i] = p[i + 1]
  BY <1>1, HeadTailProperties
<1>3. CASE Len(p) = 2
  <2>1. p[1] = CR /\ p[2] = LF
    BY <1>3 DEF Opened, Closed
  <2>2. Len(Tail(p)) = 1 /\ Tail(p)[1] = LF
    BY <1>2, <1>3, <2>1, SMTT(60)
  <2>3. Tail(p) = <<LF>>
    <3> DEFINE q == Tail(p)
               z == <<LF>>
    <3>1. q \in Seq(Symbols) /\ Len(q) = 1 /\ q[1] = LF
      BY <1>2, <2>2
    <3>2. z \in Seq(Symbols) /\ Len(z) = 1 /\ z[1] = LF
      BY SymbolTypes
    <3> HIDE DEF q, z
    <3>3. \A i \in 1..Len(q) : q[i] = z[i]
      BY <3>1, <3>2
    <3>4. q = z
      BY <3>1, <3>2, <3>3, SeqEqual
    <3> QED BY <3>4 DEF q, z
  <2> QED BY <1>1, <1>3, <2>1, <2>3
<1>4. CASE Len(p) # 2
  <2>0. Len(p) >= 3
    <3>1. \A n \in Nat : n >= 2 /\ n # 2 => n >= 3
      OBVIOUS
    <3> QED BY <1>1, <1>4, <3>1
  <2>1. 1 \in 1..(Len(p) - 2)
    BY <1>1, <2>0
  <2>2. Head(p) # CR
    BY <1>1, <2>1, SymbolTypes DEF Opened, Text
  <2>3. Text(Tail(p), 1)
    <3>1. \A i \in 1..(Len(p) - 3) : i + 1 \in 1..(Len(p) - 2) /\ i \in 1..(Len(p) - 1)
      BY <1>1
    <3>2. Len(Tail(p)) - 2 = Len(p) - 3
      BY <1>1, <1>2
    <3>3. \A i \in 1..(Len(p) - 3) : Tail(p)[i].k = "data"
      BY <1>2, <3>1 DEF Opened, Text
    <3> QED BY <3>2, <3>3 DEF Text
  <2>4. Closed(Tail(p)) /\ Len(Tail(p)) >= 2
    <3>1. Len(p) - 2 \in 1..(Len(p) - 1) /\ Len(p) - 1 \in 1..(Len(p) - 1)
      BY <1>1, <2>0
    <3>2. Tail(p)[Len(p) - 2] = p[Len(p) - 1] /\ Tail(p)[Len(p) - 1] = p[Len(p)]
      BY <1>1, <1>2, <3>1
    <3>3. Len(Tail(p)) - 1 = Len(p) - 2 /\ Len(Tail(p)) >= 2
      BY <1>1, <1>2, <2>0
    <3> QED BY <1>2, <3>2, <3>3 DEF Opened, Closed
  <2> QED BY <1>1, <1>4, <2>2, <2>3, <2>4 DEF Opened
<1> QED BY <1>3, <1>4

\* What the slave sends for the message m: symbols of m or of none; in ASCII a frame, unless
\* the LF is lost.
LEMMA ReplyForms ==
  ASSUME load \in Load, NEW m \in 1..Requests, NEW r \in {OnLine(m)} \cup Damaged(m),
         load.protocol = "ascii" => "lf" \notin load.damage
  PROVE  r \in Seq(Symbols) /\ Own(r, m) /\ (load.protocol = "ascii" => Framed(r))
<1> DEFINE whole == OnLine(m)
           body  == {i \in DOMAIN whole : whole[i].k = "data"}
           long  == [i \in 1..(Room + 1) |-> Noise]
<1>0. load.protocol \in {"rtu", "ascii"} /\ Parts \in Nat /\ Parts >= 2 /\ Room \in Nat /\ Room >= 1
  BY ModbusConstants DEF Load
<1>1. /\ whole \in Seq(Symbols) /\ Len(whole) \in Nat /\ DOMAIN whole = 1..Len(whole)
      /\ Own(whole, m)
      /\ load.protocol = "ascii" => Framed(whole) /\ Len(whole) = Parts + 3
  <2>1. whole \in Seq(Symbols)
    BY OnLineType
  <2>2. Len(Body(m)) = Parts /\ \A i \in 1..Parts : Body(m)[i] = Sym("data", m, i)
    BY BodyType
  <2>3. CASE load.protocol = "rtu"
    BY <2>1, <2>3, BodyType, OnLineType, LenProperties
  <2>4. CASE load.protocol = "ascii"
    <3>1. /\ Len(whole) = Parts + 3 /\ whole[1] = START
          /\ \A i \in 1..Parts : whole[i + 1] = Sym("data", m, i)
          /\ whole[Parts + 2] = CR /\ whole[Parts + 3] = LF
      BY <2>2, <2>4, OnLineType
    <3>2. \A i \in 2..(Parts + 1) : whole[i] = Sym("data", m, i - 1)
      <4>1. \A i \in 2..(Parts + 1) : i - 1 \in 1..Parts /\ (i - 1) + 1 = i
        BY <1>0
      <4> QED BY <3>1, <4>1
    <3> HIDE DEF whole
    <3>0. \A i \in 2..(Parts + 1) : whole[i].m = m /\ whole[i].k = "data"
      <4>1. \A i : Sym("data", m, i).m = m /\ Sym("data", m, i).k = "data"
        BY DEF Sym
      <4> QED BY <3>2, <4>1
    <3>3. \A i \in 1..(Parts + 3) : i = 1 \/ i \in 2..(Parts + 1) \/ i = Parts + 2 \/ i = Parts + 3
      BY <1>0
    <3>4. Own(whole, m)
      <4>2. \A i \in 1..(Parts + 3) : whole[i].m \in {0, m}
        BY <3>0, <3>1, <3>3, SymbolTypes
      <4> QED BY <3>1, <4>2 DEF Own
    <3>5. Len(whole) - 2 = Parts + 1 /\ Len(whole) - 1 = Parts + 2 /\ Len(whole) >= 4
      BY <1>0, <3>1
    <3>6. Framed(whole)
      BY <3>0, <3>1, <3>5 DEF Framed, Text, Closed
    <3> QED BY <2>1, <2>4, <3>1, <3>4, <3>6, LenProperties
  <2> QED BY <1>0, <2>3, <2>4
<1>2. CASE r = whole
  BY <1>1, <1>2
<1>3. CASE \E i \in body : r = [whole EXCEPT ![i] = Noise]
  <2>1. PICK i \in 1..Len(whole) : r = [whole EXCEPT ![i] = Noise] /\ whole[i].k = "data"
    BY <1>1, <1>3
  <2>2. /\ r \in Seq(Symbols) /\ Len(r) = Len(whole)
        /\ \A j \in 1..Len(whole) : r[j] = IF j = i THEN Noise ELSE whole[j]
    BY <1>1, <2>1, SymbolTypes
  <2>3. Own(r, m)
    BY <1>1, <2>2, SymbolTypes DEF Own
  <2>4. ASSUME load.protocol = "ascii" PROVE Framed(r)
    <3>1. Framed(whole) /\ Len(whole) >= 4 /\ Len(whole) \in Nat
      BY <1>1, <2>4 DEF Framed
    <3>2. i # 1 /\ i # Len(whole) - 1 /\ i # Len(whole)
      BY <2>1, <3>1, SymbolTypes DEF Framed, Closed
    <3>3. /\ 1 \in 1..Len(whole) /\ Len(whole) - 1 \in 1..Len(whole) /\ Len(whole) \in 1..Len(whole)
          /\ \A j \in 2..(Len(whole) - 2) : j \in 1..Len(whole)
      BY <3>1
    <3> QED BY <2>2, <3>1, <3>2, <3>3, SymbolTypes DEF Framed, Text, Closed
  <2> QED BY <2>2, <2>3, <2>4
<1>4. CASE \E i \in body : r = RemoveAt(whole, i)
  <2>1. PICK i \in 1..Len(whole) : r = RemoveAt(whole, i) /\ whole[i].k = "data"
    BY <1>1, <1>4, SMTT(60)
  <2>2. /\ r \in Seq(Symbols) /\ Len(r) = Len(whole) - 1
        /\ \A j \in 1..(Len(whole) - 1) : r[j] = IF j < i THEN whole[j] ELSE whole[j + 1]
    BY <1>1, <2>1, Removed, ZenonT(60)
  <2>3. \A j \in 1..(Len(whole) - 1) : j \in 1..Len(whole) /\ j + 1 \in 1..Len(whole)
    BY <1>1
  <2>4. Own(r, m)
    BY <1>1, <2>2, <2>3 DEF Own
  <2>5. ASSUME load.protocol = "ascii" PROVE Framed(r)
    <3>1. Framed(whole) /\ Len(whole) = Parts + 3 /\ Len(whole) \in Nat /\ Len(whole) >= 5
      BY <1>0, <1>1, <2>5
    <3>2. i # 1 /\ i # Len(whole) - 1 /\ i # Len(whole)
      BY <2>1, <3>1, SymbolTypes DEF Framed, Closed
    <3>3. i \in 2..(Len(whole) - 2)
      BY <3>1, <3>2
    <3>4. r[1] = START /\ r[Len(whole) - 2] = CR /\ r[Len(whole) - 1] = LF
      <4>1. r[1] = whole[1]
        BY <2>2, <3>1, <3>3
      <4>2. r[Len(whole) - 2] = whole[Len(whole) - 1]
        BY <2>2, <3>1, <3>3
      <4>3. r[Len(whole) - 1] = whole[Len(whole)]
        BY <2>2, <3>1, <3>3
      <4> QED BY <3>1, <4>1, <4>2, <4>3 DEF Framed, Closed
    <3>5. \A j \in 2..(Len(whole) - 3) : r[j].k = "data"
      <4>1. \A j \in 2..(Len(whole) - 3) : /\ j \in 2..(Len(whole) - 2) /\ j \in 1..(Len(whole) - 1)
                                           /\ j + 1 \in 2..(Len(whole) - 2)
        BY <3>1
      <4> QED BY <2>2, <3>1, <4>1 DEF Framed, Text
    <3>6. Len(r) - 2 = Len(whole) - 3 /\ Len(r) - 1 = Len(whole) - 2 /\ Len(r) >= 4
      BY <2>2, <3>1
    <3> QED BY <2>2, <3>4, <3>5, <3>6 DEF Framed, Text, Closed
  <2> QED BY <2>2, <2>4, <2>5
<1>5. long \in Seq(Symbols) /\ Len(long) = Room + 1 /\ \A i \in 1..(Room + 1) : long[i] = Noise
  BY <1>0, SymbolTypes
<1>6. CASE load.protocol = "rtu" /\ r = long
  BY <1>5, <1>6, SymbolTypes DEF Own
<1>7. CASE load.protocol = "ascii" /\ r = <<START>> \o long \o <<CR, LF>>
  <2> HIDE DEF long
  <2> DEFINE q == <<START>> \o long
  <2>1. q \in Seq(Symbols) /\ Len(q) = Room + 2 /\ q[1] = START
    BY <1>0, <1>5, SymbolTypes, ConcatProperties
  <2>2. \A i \in 2..(Room + 2) : q[i] = Noise
    <3>1. \A i \in 2..(Room + 2) : i - 1 \in 1..(Room + 1)
      BY <1>0
    <3>2. \A i \in 2..(Room + 2) : q[i] = long[i - 1]
      BY <1>0, <1>5, SymbolTypes, ConcatProperties
    <3> QED BY <1>5, <3>1, <3>2
  <2>3. <<CR, LF>> \in Seq(Symbols)
    BY SymbolTypes
  <2> HIDE DEF q
  <2>4. r = q \o <<CR, LF>>
    BY <1>7 DEF q
  <2>5. /\ r \in Seq(Symbols) /\ Len(r) = Room + 4
        /\ \A i \in 1..(Room + 2) : r[i] = q[i]
        /\ r[Room + 3] = CR /\ r[Room + 4] = LF
    BY <1>0, <2>1, <2>3, <2>4, ConcatProperties
  <2>6. r[1] = START /\ \A i \in 2..(Room + 2) : r[i] = Noise
    BY <1>0, <2>1, <2>2, <2>5
  <2>7. \A i \in 1..(Room + 4) : i = 1 \/ i \in 2..(Room + 2) \/ i = Room + 3 \/ i = Room + 4
    BY <1>0
  <2>8. Own(r, m)
    BY <2>5, <2>6, <2>7, SymbolTypes DEF Own
  <2>9. Len(r) - 2 = Room + 2 /\ Len(r) - 1 = Room + 3 /\ Len(r) >= 4
    BY <1>0, <2>5
  <2> QED BY <2>5, <2>6, <2>8, <2>9, SymbolTypes DEF Framed, Text, Closed
<1>8. CASE "lf" \in load.damage /\ r = Front(whole)
  <2>1. load.protocol = "rtu"
    BY <1>0, <1>8
  <2>2. Len(whole) = Parts /\ r = SubSeq(whole, 1, Len(whole) - 1)
    BY <1>8, <2>1, OnLineType, BodyType DEF Front
  <2>3. r \in Seq(Symbols) /\ Len(r) = Len(whole) - 1 /\ \A i \in 1..(Len(whole) - 1) : r[i] = whole[i]
    BY <1>0, <1>1, <2>2
  <2>4. \A i \in 1..(Len(whole) - 1) : i \in 1..Len(whole)
    BY <1>1
  <2> QED BY <1>1, <2>1, <2>3, <2>4 DEF Own
<1>9. r \in Damaged(m) =>
        \/ \E i \in body : r = [whole EXCEPT ![i] = Noise] \/ r = RemoveAt(whole, i)
        \/ load.protocol = "rtu" /\ r = long
        \/ load.protocol # "rtu" /\ r = <<START>> \o long \o <<CR, LF>>
        \/ "lf" \in load.damage /\ r = Front(whole)
  <2> SUFFICES ASSUME r \in Damaged(m)
               PROVE  \/ \E i \in body : r = [whole EXCEPT ![i] = Noise] \/ r = RemoveAt(whole, i)
                      \/ load.protocol = "rtu" /\ r = long
                      \/ load.protocol # "rtu" /\ r = <<START>> \o long \o <<CR, LF>>
                      \/ "lf" \in load.damage /\ r = Front(whole)
    OBVIOUS
  <2> DEFINE D1 == {[whole EXCEPT ![i] = Noise] : i \in IF "bad" \in load.damage THEN body ELSE {}}
             D2 == {RemoveAt(whole, i) : i \in IF "lost" \in load.damage THEN body ELSE {}}
             D3 == IF "babble" \notin load.damage THEN {}
                   ELSE IF load.protocol = "rtu" THEN {long}
                   ELSE {<<START>> \o long \o <<CR, LF>>}
             D4 == IF "lf" \in load.damage THEN {Front(whole)} ELSE {}
  <2>1. Damaged(m) = UNION {D1, D2, D3, D4}
    BY DEF Damaged
  <2>2. r \in D1 \/ r \in D2 \/ r \in D3 \/ r \in D4
    <3> HIDE DEF D1, D2, D3, D4
    <3> QED BY <2>1
  <2> HIDE DEF whole, long
  <2>3. CASE r \in D1
    BY <2>3
  <2>4. CASE r \in D2
    BY <2>4
  <2>5. CASE r \in D3
    BY <2>5
  <2>6. CASE r \in D4
    BY <2>6
  <2> QED BY <2>2, <2>3, <2>4, <2>5, <2>6
<1> QED BY <1>0, <1>2, <1>3, <1>4, <1>6, <1>7, <1>8, <1>9

\* A frame is of one message.
LEMMA OnLineOfOne ==
  ASSUME load \in Load, NEW m \in 1..Requests, NEW t \in 1..Requests, OnLine(m) = OnLine(t)
  PROVE  m = t
<1>1. Own(Body(t), t) /\ Len(Body(m)) = Parts /\ Len(Body(t)) = Parts /\ 1 \in 1..Parts
  BY BodyType, ModbusConstants
<1>2. Body(m)[1] = Body(t)[1]
  <2>1. load.protocol \in {"rtu", "ascii"}
    BY DEF Load
  <2> QED BY <1>1, <2>1, OnLineType
<1>3. Body(m)[1] = Sym("data", m, 1) /\ Body(t)[1] = Sym("data", t, 1)
  BY <1>1, BodyType
<1>4. Sym("data", m, 1).m = m /\ Sym("data", t, 1).m = t
  BY DEF Sym
<1> QED BY <1>2, <1>3, <1>4

\* A sequence that agrees with another one up to its end is a prefix of it.
LEMMA Agrees ==
  ASSUME NEW S, NEW s \in Seq(S), NEW t \in Seq(S), Len(s) <= Len(t),
         \A i \in 1..Len(s) : s[i] = t[i]
  PROVE  IsPrefix(s, t)
<1>1. Len(s) \in Nat /\ Len(t) \in Nat
  BY LenProperties
<1> DEFINE a == SubSeq(s, 1, Len(s))
           b == SubSeq(t, 1, Len(s))
<1>2. a \in Seq(S) /\ Len(a) = Len(s) /\ \A i \in 1..Len(s) : a[i] = s[i]
  BY <1>1
<1>3. b \in Seq(S) /\ Len(b) = Len(s) /\ \A i \in 1..Len(s) : b[i] = t[i]
  BY <1>1
<1> HIDE DEF a, b
<1>4. a = b
  BY <1>2, <1>3, SeqEqual
<1> QED BY <1>4 DEF IsPrefix, a, b

-----------------------------------------------------------------------------
(* The inductive invariant *)

\* A request on its way to the line, a frame on the line, a reply on its way to the client.
Down   == rx # <<>> \/ recvpc # "wait"
OnWire == (wire # <<>> /\ recvpc = "wait") \/ u2epc = "again"
Up     == reply # <<>> \/ ring # <<>> \/ rcv \in {"rcv", "end"} \/ finish

\* At most one of the three, and none when the client waits for nothing.
Turns ==
  /\ ~(Down /\ OnWire) /\ ~(Down /\ Up) /\ ~(OnWire /\ Up)
  /\ asked = 0 => ~Down /\ ~OnWire /\ ~Up
  /\ tid = 0 => recvpc = "wait" /\ ~OnWire /\ ~Up
  /\ Len(rx) <= 1 /\ seg_e2u_sem = Len(rx)
  /\ recvpc # "wait" => rx = <<>>
  /\ finish => reply = <<>> /\ ring = <<>>

\* The RTU receiver: its timer runs during a frame, and a complete one is seen.
Rtu ==
  load.protocol = "rtu" =>
    /\ recvpc \in {"wait", "write"} /\ rcv # "end"
    /\ rcv = "rcv" => timer
    /\ finish => rcv # "rcv" /\ (seg_u2e_sem > 0 \/ u2epc \in {"read", "check"})
    /\ tid # 0 => rtulast = Parts

\* What the receivers have still to read of a reply.
Pending == ring \o reply

\* The ASCII receiver: a frame before its START, one after it, and its LF.
Ascii ==
  load.protocol = "ascii" =>
    /\ ~timer /\ u2epc # "again" /\ rcv # "init"
    /\ finish => u2epc = "check" /\ left > 0 /\ rcv = "idle"
    /\ rcv = "idle" => Pending = <<>> \/ Framed(Pending)
    /\ rcv = "rcv" => Opened(Pending) /\ (Len(Pending) = 2 => left > 0)
    /\ rcv = "end" => left > 0 /\ Pending = <<LF>>

\* Nothing on its way to the client is of another request.
Owned ==
  /\ Own(reply, tid) /\ Own(ring, tid)
  /\ rcv \in {"rcv", "end"} \/ finish => Own(frame, tid)

\* The slave has got the first n symbols of the frame.
Reached(n) == Len(wire) = n /\ \A i \in 1..n : wire[i] = OnLine(tid)[i]

\* How much of the frame is on the line.
Written ==
  /\ tid # 0 => aucTCPBuf = Body(tid) /\ (recvpc = "wait" => cur = Parts + 1)
  /\ recvpc = "wait" /\ u2epc # "again" => wire = <<>> \/ wire = OnLine(tid)
  /\ recvpc = "start" => wire = <<>> /\ cur = 1 /\ left = Parts
  /\ recvpc = "write" => /\ left <= Parts /\ cur = Parts - left + 1
                         /\ Reached(IF load.protocol = "rtu" THEN cur - 1 ELSE cur)
  /\ recvpc = "end" => cur = Parts + 1 /\ Reached(Parts + 2)
  /\ u2epc = "again" => Reached(Parts - again)

IInv == TypeOK /\ Turns /\ Rtu /\ Ascii /\ Owned /\ Written /\ RepliesAnswer

\* What the loads allow.
LEMMA LoadFacts ==
  ASSUME PatientLoads, load \in Loads
  PROVE  /\ load \in Load /\ load.protocol \in {"rtu", "ascii"} /\ ~load.eager
         /\ load.protocol = "rtu" => load.t35
         /\ load.protocol = "ascii" => "lf" \notin load.damage
<1>1. load \in Load
  BY ModbusConstants
<1> QED BY <1>1 DEF PatientLoads, Load

\* The numbers a step may leave behind.
LEMMA Numbers ==
  /\ Requests \in Nat \ {0} /\ Parts \in Nat /\ Parts >= 2 /\ Room \in Nat /\ Room >= Parts
  /\ \A t \in 1..Requests : (t % Requests) + 1 \in 1..Requests
  /\ \A n \in 0..Tokens : Token(n) \in 0..Tokens /\ Token(n) > 0
BY ModbusConstants DEF Token

LEMMA InitKept ==
  ASSUME PatientLoads, Init
  PROVE  IInv
<1>1. load \in Loads /\ load \in Load
  BY LoadFacts DEF Init
<1>2. TypeOK
  <2>1. /\ <<>> \in Seq(1..Requests) /\ <<>> \in Seq(Symbols) /\ Len(<<>>) = 0
        /\ 0 \in 0..Requests /\ 1 \in 1..Requests /\ 0 \in 0..Tokens /\ 1 \in 1..(Parts + 1)
        /\ 0 \in 0..Room /\ 0 \in 0..Faults /\ 0 \in 0..MB_RETRY_MAX /\ 0 \in 0..Parts
        /\ 0 \in 0..(MB_RETRY_MAX + 1) /\ 0 <= Parts /\ 0 <= Room
    BY Numbers, ModbusConstants
  <2>2. rcv \in {"init", "idle"}
    BY <1>1 DEF Init
  <2>3. answer \in [tid : 0..Requests, m : 0..Requests]
    BY <2>1 DEF Init
  <2>4. /\ load \in Loads /\ asked \in 0..Requests /\ turn \in 1..Requests
        /\ rx \in Seq(1..Requests) /\ Len(rx) <= 2
        /\ seg_e2u_sem \in 0..Tokens /\ seg_u2e_sem \in 0..Tokens /\ recvpc = "wait"
        /\ tid \in 0..Requests /\ aucTCPBuf \in Seq(Symbols) /\ Len(aucTCPBuf) <= Parts
    BY <1>1, <2>1 DEF Init
  <2>5. /\ cur \in 1..(Parts + 1) /\ left \in 0..Room /\ rtulast \in {0, Parts}
        /\ wire \in Seq(Symbols) /\ reply \in Seq(Symbols) /\ faults \in 0..Faults
        /\ ring \in Seq(Symbols) /\ frame \in Seq(Symbols) /\ Len(frame) <= Room
    BY <2>1 DEF Init
  <2>6. /\ timer \in BOOLEAN /\ finish \in BOOLEAN /\ u2epc = "wait"
        /\ retries \in 0..MB_RETRY_MAX /\ again \in 0..Parts /\ repeats \in 0..(MB_RETRY_MAX + 1)
    BY <2>1 DEF Init
  <2> QED BY <2>2, <2>3, <2>4, <2>5, <2>6 DEF TypeOK
<1>3. Turns
  BY DEF Init, Turns, Down, OnWire, Up
<1>4. Rtu
  BY DEF Init, Rtu
<1>5. Pending = <<>>
  BY DEF Init, Pending
<1>6. Ascii
  BY <1>5 DEF Init, Ascii
<1>7. Owned
  BY <1>1 DEF Init, Owned, Own, Load
<1>8. Written
  BY DEF Init, Written
<1> QED BY <1>2, <1>3, <1>4, <1>6, <1>7, <1>8 DEF IInv, Init, RepliesAnswer

\* When the client asks nothing is under way.
LEMMA ClientKeeps ==
  ASSUME PatientLoads, IInv, Client
  PROVE  IInv'
<1>0. /\ load \in Load /\ load.protocol \in {"rtu", "ascii"} /\ ~load.eager
  BY LoadFacts DEF IInv, TypeOK
<1>1. ~Down /\ ~OnWire /\ ~Up
  <2>1. CASE asked = 0
    BY <2>1 DEF IInv, Turns
  <2>2. CASE Quiet
    <3>1. Pending = <<>>
      BY <2>2 DEF Quiet, Pending
    <3>2. CASE load.protocol = "rtu"
      BY <2>2, <3>2 DEF IInv, Rtu, Quiet, Down, OnWire, Up, TypeOK
    <3>3. CASE load.protocol = "ascii"
      <4>1. rcv # "rcv" /\ rcv # "end"
        <5>1. Len(<<>>) = 0 /\ <<>> # <<LF>>
          OBVIOUS
        <5> QED BY <3>1, <3>3, <5>1 DEF IInv, Ascii, Opened, Closed
      <4>2. ~finish
        BY <2>2, <3>3 DEF IInv, Ascii, Quiet
      <4> QED BY <2>2, <4>1, <4>2 DEF Quiet, Down, OnWire, Up
    <3> QED BY <1>0, <3>2, <3>3
  <2> QED BY <1>0, <2>1, <2>2 DEF Client
<1>2. rx = <<>> /\ seg_e2u_sem = 0 /\ recvpc = "wait" /\ turn \in 1..Requests
  <2>1. Len(<<>>) = 0
    OBVIOUS
  <2> QED BY <1>1, <2>1 DEF Down, IInv, Turns, TypeOK
<1>3. /\ rx' = <<turn>> /\ seg_e2u_sem' = 1 /\ asked' = turn /\ turn' = (turn % Requests) + 1
      /\ UNCHANGED <<load, answer, recvpc, tid, aucTCPBuf, cur, left, rtulast, line, up>>
  <2>1. Token(0) = 1
    BY ModbusConstants DEF Token
  <2>2. Append(<<>>, turn) = <<turn>>
    OBVIOUS
  <2> QED BY <1>2, <2>1, <2>2 DEF Client, Ask
<1>4. rx' \in Seq(1..Requests) /\ Len(rx') = 1 /\ rx' # <<>>
  BY <1>2, <1>3
<1>5. TypeOK'
  <2>1. asked' \in 0..Requests /\ turn' \in 1..Requests /\ seg_e2u_sem' \in 0..Tokens
    BY <1>2, <1>3, Numbers, ModbusConstants
  <2> QED BY <1>3, <1>4, <2>1 DEF IInv, TypeOK, line, up
<1>6. Turns'
  <2>1. asked' # 0
    BY <1>2, <1>3, Numbers
  <2> QED BY <1>1, <1>2, <1>3, <1>4, <2>1 DEF IInv, Turns, Down, OnWire, Up, line, up
<1>7. Rtu' /\ Ascii' /\ Owned'
  BY <1>3 DEF IInv, Rtu, Ascii, Owned, Pending, line, up
<1>8. Written'
  <2>1. OnLine(tid)' = OnLine(tid)
    BY <1>3 DEF OnLine
  <2> QED BY <1>3, <2>1 DEF IInv, Written, Reached, line, up
<1> QED BY <1>3, <1>5, <1>6, <1>7, <1>8 DEF IInv, RepliesAnswer

\* A request becomes a frame, of which nothing is on the line yet.
LEMMA RecvTakeKeeps ==
  ASSUME PatientLoads, IInv, RecvTake
  PROVE  IInv'
<1>0. load.protocol \in {"rtu", "ascii"} /\ recvpc = "wait" /\ seg_e2u_sem > 0
  BY LoadFacts DEF IInv, TypeOK, RecvTake
<1>1. rx # <<>> /\ Len(rx) = 1 /\ rx[1] = Head(rx) /\ Head(rx) \in 1..Requests
  <2>1. rx \in Seq(1..Requests) /\ Len(rx) <= 1 /\ Len(rx) > 0
    BY <1>0 DEF IInv, Turns, TypeOK
  <2>2. Len(rx) \in Nat
    BY <2>1, LenProperties
  <2>3. Len(rx) = 1
    <3>1. \A n \in Nat : n <= 1 /\ n > 0 => n = 1
      OBVIOUS
    <3> QED BY <2>1, <2>2, <3>1
  <2>4. rx # <<>>
    BY <2>3
  <2>5. Head(rx) = rx[1]
    OBVIOUS
  <2>6. Head(rx) \in 1..Requests
    BY <2>1, <2>4, HeadTailProperties
  <2> QED BY <2>3, <2>4, <2>5, <2>6
<1>2. Down /\ ~OnWire /\ ~Up /\ asked # 0
  BY <1>1 DEF IInv, Turns, Down
<1>3. /\ wire = <<>> /\ u2epc # "again" /\ reply = <<>> /\ ring = <<>> /\ ~finish
      /\ rcv \notin {"rcv", "end"}
  BY <1>0, <1>2 DEF OnWire, Up
<1>4. /\ tid' = Head(rx) /\ aucTCPBuf' = Body(Head(rx)) /\ rx' = <<>>
      /\ cur' = 1 /\ left' = Parts /\ repeats' = 0 /\ seg_e2u_sem' = seg_e2u_sem - 1
      /\ rtulast' = IF load.protocol = "rtu" THEN Parts ELSE rtulast
      /\ recvpc' = IF load.protocol = "rtu" THEN "write" ELSE "start"
      /\ UNCHANGED <<load, client, line, ring, rcv, frame, timer, finish, u2epc, retries, again,
                     seg_u2e_sem>>
  BY <1>1 DEF RecvTake, Package
<1>5. TypeOK'
  <2>1. /\ tid' \in 0..Requests /\ aucTCPBuf' \in Seq(Symbols) /\ Len(aucTCPBuf') <= Parts
        /\ rx' \in Seq(1..Requests) /\ Len(rx') <= 2
    BY <1>1, <1>4, BodyType, Numbers
  <2>2. /\ cur' \in 1..(Parts + 1) /\ left' \in 0..Room /\ repeats' \in 0..(MB_RETRY_MAX + 1)
        /\ seg_e2u_sem' \in 0..Tokens
    BY <1>0, <1>4, Numbers, ModbusConstants DEF IInv, TypeOK
  <2>3. rtulast' \in {0, Parts} /\ recvpc' \in {"wait", "start", "write", "end"}
    BY <1>4 DEF IInv, TypeOK
  <2> QED BY <1>4, <2>1, <2>2, <2>3 DEF IInv, TypeOK, client, line
<1>6. Turns'
  <2>1. rx' = <<>> /\ Len(rx') = 0 /\ seg_e2u_sem' = 0
    BY <1>1, <1>4 DEF IInv, Turns
  <2>2. recvpc' # "wait" /\ ~OnWire' /\ ~Up'
    BY <1>3, <1>4 DEF OnWire, Up, line
  <2>3. tid' # 0
    BY <1>1, <1>4
  <2>4. Len(rx') <= 1 /\ seg_e2u_sem' = Len(rx')
    BY <2>1
  <2>5. ~finish'
    BY <1>3, <1>4
  <2>6. asked' # 0
    BY <1>2, <1>4 DEF client
  <2> QED BY <2>1, <2>2, <2>3, <2>4, <2>5, <2>6 DEF Turns
<1>7. Rtu'
  BY <1>3, <1>4 DEF IInv, Rtu
<1>8. Ascii'
  BY <1>3, <1>4 DEF IInv, Ascii, Pending, line
<1>9. Owned'
  <2>1. Len(<<>>) = 0
    OBVIOUS
  <2> QED BY <1>3, <1>4, <2>1 DEF Owned, Own, line
<1>10. Written'
  <2>1. wire' = <<>> /\ Len(wire') = 0
    BY <1>3, <1>4 DEF line
  <2>2. load' = load /\ recvpc' # "wait" /\ recvpc' # "end" /\ u2epc' # "again"
    BY <1>3, <1>4
  <2>3. recvpc' = "write" => load'.protocol = "rtu" /\ Reached(cur - 1)'
    BY <1>4, <2>1 DEF Reached
  <2>4. cur' = Parts - left' + 1 /\ left' <= Parts
    BY <1>4, Numbers
  <2> QED BY <1>4, <2>1, <2>2, <2>3, <2>4 DEF Written
<1> QED BY <1>4, <1>5, <1>6, <1>7, <1>8, <1>9, <1>10 DEF IInv, RepliesAnswer, client

\* One more symbol of the frame is on the line.
LEMMA OneMore ==
  ASSUME load \in Load, NEW t \in 1..Requests, NEW w \in Seq(Symbols), NEW n \in Nat,
         Len(w) = n, \A i \in 1..n : w[i] = OnLine(t)[i],
         NEW s \in Symbols, s = OnLine(t)[n + 1]
  PROVE  /\ Append(w, s) \in Seq(Symbols) /\ Len(Append(w, s)) = n + 1
         /\ \A i \in 1..(n + 1) : Append(w, s)[i] = OnLine(t)[i]
<1>1. /\ Append(w, s) \in Seq(Symbols) /\ Len(Append(w, s)) = n + 1
      /\ \A i \in 1..n : Append(w, s)[i] = w[i]
      /\ Append(w, s)[n + 1] = s
  BY AppendProperties
<1>2. \A i \in 1..(n + 1) : i \in 1..n \/ i = n + 1
  OBVIOUS
<1> QED BY <1>1, <1>2

\* A frame that is on the line up to its end is whole.
LEMMA AllThere ==
  ASSUME load \in Load, NEW t \in 1..Requests, NEW w \in Seq(Symbols),
         Len(w) = Len(OnLine(t)), \A i \in 1..Len(w) : w[i] = OnLine(t)[i]
  PROVE  w = OnLine(t)
BY OnLineType, SeqEqual

\* The frame goes out symbol by symbol, and is whole when the task is done.
LEMMA RecvWriteKeeps ==
  ASSUME PatientLoads, IInv, RecvWrite
  PROVE  IInv'
<1>0. load \in Load /\ load.protocol \in {"rtu", "ascii"}
  BY LoadFacts DEF IInv, TypeOK
<1>1. /\ UNCHANGED <<load, client, rx, seg_e2u_sem, tid, aucTCPBuf, rtulast, up>>
      /\ UNCHANGED <<reply, faults>>
      /\ recvpc # "wait" /\ recvpc \in {"start", "write", "end"}
  BY DEF RecvWrite, Write, line
<1>2. /\ Down /\ ~OnWire /\ ~Up /\ asked # 0 /\ rx = <<>> /\ tid # 0
  BY <1>1 DEF Down, IInv, Turns
<1>3. /\ u2epc # "again" /\ reply = <<>> /\ ring = <<>> /\ ~finish /\ rcv \notin {"rcv", "end"}
  BY <1>2 DEF OnWire, Up
<1>4. tid \in 1..Requests /\ aucTCPBuf = Body(tid) /\ wire \in Seq(Symbols)
  <2>1. \A t \in 0..Requests : t # 0 => t \in 1..Requests
    BY Numbers
  <2> QED BY <1>2, <2>1 DEF IInv, TypeOK, Written
<1>5. /\ left \in Nat /\ cur \in Nat /\ Parts \in Nat
      /\ recvpc = "write" => /\ left <= Parts /\ cur = Parts - left + 1
                             /\ Reached(IF load.protocol = "rtu" THEN cur - 1 ELSE cur)
      /\ recvpc = "start" => wire = <<>> /\ cur = 1 /\ left = Parts /\ load.protocol = "ascii"
      /\ recvpc = "end" => cur = Parts + 1 /\ Reached(Parts + 2) /\ load.protocol = "ascii"
  <2>1. left \in 0..Room /\ cur \in 1..(Parts + 1)
    BY DEF IInv, TypeOK
  <2>2. left \in Nat /\ cur \in Nat /\ Parts \in Nat
    BY <2>1, Numbers
  <2>3. recvpc \notin {"wait", "write"} => load.protocol = "ascii"
    BY <1>0 DEF IInv, Rtu
  <2>4. "start" \notin {"wait", "write"} /\ "end" \notin {"wait", "write"}
    OBVIOUS
  <2> QED BY <2>2, <2>3, <2>4 DEF IInv, Written
<1>6. OnLine(tid)' = OnLine(tid)
  BY <1>1 DEF OnLine
<1>7. ASSUME wire' \in Seq(Symbols), cur' \in 1..(Parts + 1), left' \in 0..Room,
             recvpc' \in {"wait", "start", "write", "end"},
             load.protocol = "rtu" => recvpc' \in {"wait", "write"},
             Written'
      PROVE  IInv'
  <2>1. TypeOK'
    BY <1>1, <1>7 DEF IInv, TypeOK, client, up
  <2>2. Turns'
    <3>1. ~Up'
      BY <1>1, <1>3 DEF Up, up
    <3>2. ~(Down' /\ OnWire')
      BY <1>1, <1>2, <1>3 DEF Down, OnWire, up
    <3>3. asked' # 0 /\ tid' # 0 /\ rx' = <<>> /\ ~finish'
      BY <1>1, <1>2, <1>3 DEF client, up
    <3>4. Len(rx') <= 1 /\ seg_e2u_sem' = Len(rx')
      BY <1>1 DEF IInv, Turns
    <3> QED BY <3>1, <3>2, <3>3, <3>4 DEF Turns
  <2>3. Rtu'
    BY <1>1, <1>7 DEF IInv, Rtu, up
  <2>4. Ascii'
    BY <1>1, <1>3 DEF IInv, Ascii, Pending, up
  <2>5. Owned'
    BY <1>1 DEF IInv, Owned, up
  <2> QED BY <1>1, <1>7, <2>1, <2>2, <2>3, <2>4, <2>5 DEF IInv, RepliesAnswer, client
<1>8. u2epc' # "again" /\ tid' = tid /\ aucTCPBuf' = aucTCPBuf /\ load' = load
  BY <1>1, <1>3 DEF up
<1>9. CASE recvpc = "start" /\ Write(START) /\ recvpc' = "write" /\ UNCHANGED <<cur, left>>
  <2>1. wire = <<>> /\ cur = 1 /\ left = Parts /\ load.protocol = "ascii"
    BY <1>5, <1>9
  <2>2. wire' = <<START>>
    BY <1>9, <2>1 DEF Write
  <2>3. wire' \in Seq(Symbols) /\ Reached(1)'
    BY <1>0, <1>4, <1>6, <2>1, <2>2, SymbolTypes, OnLineType DEF Reached
  <2>4. Written'
    <3>1. left' <= Parts /\ cur' = Parts - left' + 1 /\ cur' = 1
      BY <1>9, <2>1, Numbers
    <3> QED BY <1>4, <1>8, <1>9, <2>1, <2>3, <3>1 DEF Written
  <2>5. cur' \in 1..(Parts + 1) /\ left' \in 0..Room
    BY <1>9 DEF IInv, TypeOK
  <2> QED BY <1>7, <1>9, <2>1, <2>3, <2>4, <2>5
<1>10. CASE /\ recvpc = "write" /\ left > 0
            /\ Write(IF cur \in DOMAIN aucTCPBuf THEN aucTCPBuf[cur] ELSE Noise)
            /\ cur' = cur + 1 /\ left' = left - 1 /\ UNCHANGED recvpc
  <2> DEFINE n == IF load.protocol = "rtu" THEN cur - 1 ELSE cur
             s == Body(tid)[cur]
  <2>1. cur \in 1..Parts /\ cur' \in 1..(Parts + 1) /\ left' <= Parts /\ cur' = Parts - left' + 1
    BY <1>5, <1>10
  <2>2. wire' = Append(wire, s) /\ s \in Symbols
    <3>1. DOMAIN aucTCPBuf = 1..Parts /\ s \in Symbols
      BY <1>4, <2>1, BodyType, Numbers, ElementOfSeq, LenProperties
    <3> QED BY <1>4, <1>10, <2>1, <3>1 DEF Write
  <2>3. n \in Nat /\ s = OnLine(tid)[n + 1]
    <3>1. CASE load.protocol = "rtu"
      BY <1>0, <1>4, <2>1, <3>1, OnLineType
    <3>2. CASE load.protocol = "ascii"
      BY <1>0, <1>4, <2>1, <3>2, OnLineType
    <3> QED BY <1>0, <3>1, <3>2
  <2>4. Reached(n)
    BY <1>5, <1>10
  <2>5. n + 1 = IF load.protocol = "rtu" THEN cur' - 1 ELSE cur'
    BY <1>10, <2>1
  <2> HIDE DEF n, s
  <2>6. /\ wire' \in Seq(Symbols) /\ Len(wire') = n + 1
        /\ \A i \in 1..(n + 1) : wire'[i] = OnLine(tid)[i]
    BY <1>0, <1>4, <2>2, <2>3, <2>4, OneMore DEF Reached
  <2>7. Reached(IF load.protocol = "rtu" THEN cur - 1 ELSE cur)'
    BY <1>6, <1>8, <2>5, <2>6 DEF Reached
  <2>8. Written'
    BY <1>4, <1>8, <1>10, <2>1, <2>7 DEF Written
  <2>9. left' \in 0..Room
    <3>1. \A k \in 0..Room : k > 0 => k - 1 \in 0..Room
      BY Numbers
    <3>2. left \in 0..Room
      BY DEF IInv, TypeOK
    <3> QED BY <1>10, <3>1, <3>2
  <2> QED BY <1>7, <1>10, <2>1, <2>6, <2>8, <2>9
<1>11. CASE recvpc = "write" /\ left = 0 /\ UNCHANGED <<cur, left>>
  <2>1. cur = Parts + 1 /\ cur' = cur /\ left' = left /\ cur' \in 1..(Parts + 1) /\ left' \in 0..Room
    BY <1>5, <1>11 DEF IInv, TypeOK
  <2>2. CASE load.protocol = "rtu" /\ recvpc' = "wait" /\ UNCHANGED line
    <3>1. Reached(Parts)
      BY <1>5, <1>11, <2>1, <2>2
    <3>2. wire = OnLine(tid)
      BY <1>0, <1>4, <2>2, <3>1, OnLineType, BodyType, AllThere DEF Reached
    <3>3. wire' = OnLine(tid)'
      BY <1>6, <2>2, <3>2 DEF line
    <3>4. Written'
      BY <1>4, <1>8, <2>1, <2>2, <3>3 DEF Written
    <3> QED BY <1>4, <1>7, <2>1, <2>2, <3>4 DEF line
  <2>3. CASE load.protocol = "ascii" /\ recvpc' = "end" /\ Write(CR)
    <3>1. Reached(Parts + 1)
      BY <1>5, <1>11, <2>1, <2>3
    <3>2. CR \in Symbols /\ CR = OnLine(tid)[(Parts + 1) + 1] /\ Parts + 1 \in Nat
      <4>1. (Parts + 1) + 1 = Parts + 2 /\ Parts + 1 \in Nat
        BY Numbers
      <4> QED BY <1>0, <1>4, <2>3, <4>1, OnLineType, SymbolTypes
    <3>3. /\ wire' \in Seq(Symbols) /\ Len(wire') = (Parts + 1) + 1
          /\ \A i \in 1..((Parts + 1) + 1) : wire'[i] = OnLine(tid)[i]
      BY <1>0, <1>4, <2>3, <3>1, <3>2, OneMore DEF Reached, Write
    <3>4. (Parts + 1) + 1 = Parts + 2
      BY Numbers
    <3>5. Reached(Parts + 2)'
      BY <1>6, <3>3, <3>4 DEF Reached
    <3>6. Written'
      BY <1>4, <1>8, <2>1, <2>3, <3>5 DEF Written
    <3> QED BY <1>7, <2>1, <2>3, <3>3, <3>6
  <2>4. \/ load.protocol = "rtu" /\ recvpc' = "wait" /\ UNCHANGED line
        \/ load.protocol = "ascii" /\ recvpc' = "end" /\ Write(CR)
    BY <1>11 DEF RecvWrite
  <2> QED BY <2>2, <2>3, <2>4
<1>12. CASE recvpc = "end" /\ Write(LF) /\ recvpc' = "wait" /\ UNCHANGED <<cur, left>>
  <2>1. /\ cur = Parts + 1 /\ Reached(Parts + 2) /\ load.protocol = "ascii"
        /\ cur' = cur /\ left' = left /\ cur' \in 1..(Parts + 1) /\ left' \in 0..Room
    BY <1>5, <1>12 DEF IInv, TypeOK
  <2>2. LF \in Symbols /\ LF = OnLine(tid)[(Parts + 2) + 1] /\ Parts + 2 \in Nat
    <3>1. (Parts + 2) + 1 = Parts + 3 /\ Parts + 2 \in Nat
      BY Numbers
    <3> QED BY <1>0, <1>4, <2>1, <3>1, OnLineType, SymbolTypes
  <2>3. /\ wire' \in Seq(Symbols) /\ Len(wire') = (Parts + 2) + 1
        /\ \A i \in 1..((Parts + 2) + 1) : wire'[i] = OnLine(tid)[i]
    BY <1>0, <1>4, <1>12, <2>1, <2>2, OneMore DEF Reached, Write
  <2>4. Len(OnLine(tid)) = (Parts + 2) + 1
    <3>1. (Parts + 2) + 1 = Parts + 3
      BY Numbers
    <3> QED BY <1>0, <1>4, <2>1, <3>1, OnLineType
  <2>5. wire' = OnLine(tid)
    BY <1>0, <1>4, <2>3, <2>4, AllThere
  <2>6. Written'
    BY <1>4, <1>6, <1>8, <1>12, <2>1, <2>5 DEF Written
  <2> QED BY <1>7, <1>12, <2>1, <2>3, <2>6
<1> QED BY <1>9, <1>10, <1>11, <1>12 DEF RecvWrite

\* A symbol that goes from the front of one sequence to the end of another is still between
\* the same symbols.
LEMMA MoveHead ==
  ASSUME NEW S, NEW p \in Seq(S), NEW q \in Seq(S), q # <<>>
  PROVE  Append(p, Head(q)) \o Tail(q) = p \o q
<1>1. /\ Len(p) \in Nat /\ Len(q) \in Nat \ {0} /\ Head(q) = q[1] /\ Head(q) \in S
      /\ Tail(q) \in Seq(S) /\ Len(Tail(q)) = Len(q) - 1
      /\ \A i \in 1..(Len(q) - 1) : Tail(q)[i] = q[i + 1]
  BY HeadTailProperties, LenProperties
<1> DEFINE a == Append(p, Head(q))
           b == Tail(q)
<1>2. a \in Seq(S) /\ Len(a) = Len(p) + 1 /\ a[Len(p) + 1] = q[1] /\ \A i \in 1..Len(p) : a[i] = p[i]
  BY <1>1, AppendProperties
<1> HIDE DEF a
<1>3. b \in Seq(S) /\ Len(b) = Len(q) - 1 /\ \A i \in 1..(Len(q) - 1) : b[i] = q[i + 1]
  BY <1>1
<1> HIDE DEF b
<1>4. /\ a \o b \in Seq(S) /\ Len(a \o b) = Len(a) + Len(b)
      /\ \A i \in 1..(Len(a) + Len(b)) : (a \o b)[i] = IF i <= Len(a) THEN a[i] ELSE b[i - Len(a)]
  BY <1>2, <1>3, ConcatProperties
<1>5. /\ p \o q \in Seq(S) /\ Len(p \o q) = Len(p) + Len(q)
      /\ \A i \in 1..(Len(p) + Len(q)) : (p \o q)[i] = IF i <= Len(p) THEN p[i] ELSE q[i - Len(p)]
  BY ConcatProperties
<1>6. Len(a) + Len(b) = Len(p) + Len(q)
  BY <1>1, <1>2, <1>3
<1>7. ASSUME NEW i \in 1..(Len(p) + Len(q)) PROVE (a \o b)[i] = (p \o q)[i]
  <2>1. CASE i <= Len(p)
    BY <1>1, <1>2, <1>4, <1>5, <1>6, <2>1
  <2>2. CASE i = Len(p) + 1
    BY <1>1, <1>2, <1>4, <1>5, <1>6, <2>2
  <2>3. CASE i > Len(p) + 1
    <3>1. i - (Len(p) + 1) \in 1..(Len(q) - 1) /\ (i - (Len(p) + 1)) + 1 = i - Len(p)
      BY <1>1, <2>3
    <3>2. (a \o b)[i] = b[i - (Len(p) + 1)]
      BY <1>1, <1>2, <1>4, <1>6, <2>3
    <3>3. (p \o q)[i] = q[i - Len(p)]
      BY <1>1, <1>5, <2>3
    <3> QED BY <1>3, <3>1, <3>2, <3>3
  <2>4. i <= Len(p) \/ i = Len(p) + 1 \/ i > Len(p) + 1
    <3>1. i \in Nat
      BY <1>1
    <3>2. \A k, n \in Nat : k <= n \/ k = n + 1 \/ k > n + 1
      OBVIOUS
    <3> QED BY <1>1, <3>1, <3>2
  <2> QED BY <2>1, <2>2, <2>3, <2>4
<1>8. a \o b = p \o q
  BY <1>4, <1>5, <1>6, <1>7, SeqEqual
<1> QED BY <1>8 DEF a, b

\* The slave reads a whole frame, that of the last request, and answers this one.
LEMMA SlaveAnswersKeeps ==
  ASSUME PatientLoads, IInv, SlaveAnswers
  PROVE  IInv'
<1>0. /\ load \in Load /\ load.protocol \in {"rtu", "ascii"}
      /\ load.protocol = "ascii" => "lf" \notin load.damage
      /\ wire # <<>> /\ reply = <<>> /\ wire' = <<>> /\ UNCHANGED <<load, client, down, up>>
  BY LoadFacts DEF IInv, TypeOK, SlaveAnswers
<1>1. recvpc = "wait" /\ u2epc # "again"
  <2>1. CASE load.protocol = "rtu"
    BY <2>1 DEF SlaveAnswers
  <2>2. CASE load.protocol = "ascii"
    <3>1. Last(wire) = LF /\ u2epc # "again"
      BY <2>2 DEF SlaveAnswers, IInv, Ascii
    <3>2. recvpc # "start"
      BY <1>0 DEF IInv, Written
    <3>3. recvpc # "wait" => tid \in 1..Requests /\ cur \in 1..(Parts + 1)
      <4>1. \A t \in 0..Requests : t # 0 => t \in 1..Requests
        BY Numbers
      <4> QED BY <4>1 DEF IInv, Turns, TypeOK
    <3>4. ASSUME recvpc = "write" PROVE FALSE
      <4>1. Len(wire) = cur /\ cur \in 1..(Parts + 1) /\ wire[cur] = OnLine(tid)[cur]
        BY <2>2, <3>3, <3>4, Numbers DEF IInv, Written, Reached
      <4>2. CASE cur = 1
        BY <1>0, <2>2, <3>1, <3>3, <3>4, <4>1, <4>2, OnLineType, SymbolTypes DEF Last
      <4>3. CASE cur # 1
        <5>1. cur - 1 \in 1..Parts /\ (cur - 1) + 1 = cur
          BY <4>1, <4>3, Numbers
        <5>2. wire[cur] = Sym("data", tid, cur - 1)
          <6>1. OnLine(tid)[cur] = Body(tid)[cur - 1]
            BY <1>0, <2>2, <3>3, <3>4, <5>1, OnLineType
          <6> QED BY <3>3, <3>4, <4>1, <5>1, <6>1, BodyType
        <5>3. Sym("data", tid, cur - 1).k = "data"
          BY DEF Sym
        <5> QED BY <3>1, <4>1, <5>2, <5>3, SymbolTypes DEF Last
      <4> QED BY <4>2, <4>3
    <3>5. ASSUME recvpc = "end" PROVE FALSE
      <4>1. Len(wire) = Parts + 2 /\ wire[Parts + 2] = OnLine(tid)[Parts + 2]
        BY <3>5, Numbers DEF IInv, Written, Reached
      <4> QED BY <1>0, <2>2, <3>1, <3>3, <3>5, <4>1, OnLineType, SymbolTypes DEF Last
    <3> QED BY <3>1, <3>2, <3>4, <3>5 DEF IInv, TypeOK
  <2> QED BY <1>0, <2>1, <2>2
<1>2. OnWire /\ ~Down /\ ~Up /\ asked # 0 /\ tid # 0 /\ wire = OnLine(tid)
  <2>1. OnWire
    BY <1>0, <1>1 DEF OnWire
  <2> QED BY <1>0, <1>1, <2>1 DEF IInv, Turns, Written
<1>3. ring = <<>> /\ ~finish /\ rcv \notin {"rcv", "end"} /\ tid \in 1..Requests
  <2>1. \A t \in 0..Requests : t # 0 => t \in 1..Requests
    BY Numbers
  <2> QED BY <1>2, <2>1 DEF Up, IInv, TypeOK
<1>4. /\ reply' \in Seq(Symbols) /\ Own(reply', tid) /\ faults' \in 0..Faults
      /\ load.protocol = "ascii" => reply' = <<>> \/ Framed(reply')
  <2>1. \A m \in 1..Requests : wire = OnLine(m) => m = tid
    BY <1>0, <1>2, <1>3, OnLineOfOne
  <2>2. CASE \E m \in 1..Requests : wire = OnLine(m) /\ reply' = OnLine(m) /\ UNCHANGED faults
    BY <1>0, <1>3, <2>1, <2>2, ReplyForms DEF IInv, TypeOK
  <2>3. CASE /\ faults < Faults /\ faults' = faults + 1
             /\ \E m \in 1..Requests : wire = OnLine(m) /\ reply' \in Damaged(m)
    <3>1. \A n \in 0..Faults : n < Faults => n + 1 \in 0..Faults
      BY ModbusConstants
    <3>2. faults' \in 0..Faults
      BY <2>3, <3>1 DEF IInv, TypeOK
    <3> QED BY <1>0, <1>3, <2>1, <2>3, <3>2, ReplyForms
  <2>4. CASE UNCHANGED <<reply, faults>>
    BY <1>0, <2>4 DEF IInv, TypeOK, Owned
  <2> QED BY <2>2, <2>3, <2>4 DEF SlaveAnswers
<1>5. TypeOK'
  <2>1. wire' \in Seq(Symbols)
    BY <1>0
  <2> QED BY <1>0, <1>4, <2>1 DEF IInv, TypeOK, client, down, up
<1>6. Turns'
  <2>1. ~Down' /\ ~OnWire'
    BY <1>0, <1>1, <1>2 DEF Down, OnWire, down, up
  <2>2. asked' # 0 /\ tid' # 0 /\ ~finish' /\ recvpc' = "wait"
    BY <1>0, <1>1, <1>2, <1>3 DEF client, down, up
  <2>3. Len(rx') <= 1 /\ seg_e2u_sem' = Len(rx')
    BY <1>0 DEF IInv, Turns, down
  <2> QED BY <2>1, <2>2, <2>3 DEF Turns
<1>7. Rtu'
  BY <1>0 DEF IInv, Rtu, down, up
<1>8. Ascii'
  <2>1. Pending' = reply'
    <3>1. ring' = <<>>
      BY <1>0, <1>3 DEF up
    <3> QED BY <1>4, <3>1, ConcatEmptySeq DEF Pending
  <2>2. rcv' \notin {"rcv", "end"} /\ ~finish'
    BY <1>0, <1>3 DEF up
  <2> QED BY <1>0, <1>4, <2>1, <2>2 DEF IInv, Ascii, down, up
<1>9. Owned'
  BY <1>0, <1>4 DEF IInv, Owned, down, up
<1>10. Written'
  BY <1>0, <1>1 DEF IInv, Written, down, up
<1> QED BY <1>0, <1>5, <1>6, <1>7, <1>8, <1>9, <1>10 DEF IInv, RepliesAnswer, client

\* A byte of the reply reaches the ring.
LEMMA SlaveByteKeeps ==
  ASSUME PatientLoads, IInv, SlaveByte
  PROVE  IInv'
<1>1. /\ reply # <<>> /\ reply' = Tail(reply) /\ ring' = Append(ring, Head(reply))
      /\ seg_u2e_sem' = Token(seg_u2e_sem)
      /\ UNCHANGED <<load, client, rx, seg_e2u_sem, recvpc, tid, aucTCPBuf, cur, left, rtulast, wire,
                     faults, rcv, frame, timer, finish, u2epc, retries, again, repeats>>
  BY DEF SlaveByte
<1>2. Up /\ ~Down /\ ~OnWire /\ asked # 0 /\ tid # 0 /\ ~finish
  BY <1>1 DEF IInv, Turns, Up
<1>3. reply \in Seq(Symbols) /\ ring \in Seq(Symbols) /\ Own(reply, tid) /\ Own(ring, tid)
  BY DEF IInv, TypeOK, Owned
<1>4. /\ reply' \in Seq(Symbols) /\ Own(reply', tid)
      /\ ring' \in Seq(Symbols) /\ Own(ring', tid) /\ ring' # <<>>
  <2>1. Len(ring) \in Nat /\ Len(ring') = Len(ring) + 1
    BY <1>1, <1>3, OwnTail, OwnAppend, LenProperties
  <2>2. ring' # <<>>
    BY <2>1
  <2> QED BY <1>1, <1>3, <2>2, OwnTail, OwnAppend
<1>5. TypeOK'
  <2>1. seg_u2e_sem' \in 0..Tokens
    BY <1>1, Numbers DEF IInv, TypeOK
  <2> QED BY <1>1, <1>4, <2>1 DEF IInv, TypeOK, client
<1>6. Turns'
  <2>1. ~Down' /\ ~OnWire' /\ asked' # 0 /\ tid' # 0 /\ ~finish' /\ recvpc' = "wait"
    BY <1>1, <1>2 DEF Down, OnWire, client
  <2>2. Len(rx') <= 1 /\ seg_e2u_sem' = Len(rx')
    BY <1>1 DEF IInv, Turns
  <2> QED BY <2>1, <2>2 DEF Turns
<1>7. Rtu'
  BY <1>1, <1>2 DEF IInv, Rtu
<1>8. Ascii'
  <2>1. Pending' = Pending
    BY <1>1, <1>3, MoveHead DEF Pending
  <2> QED BY <1>1, <2>1 DEF IInv, Ascii
<1>9. Owned'
  BY <1>1, <1>4 DEF IInv, Owned
<1>10. Written'
  <2>1. OnLine(tid)' = OnLine(tid)
    BY <1>1 DEF OnLine
  <2> QED BY <1>1, <2>1 DEF IInv, Written, Reached
<1> QED BY <1>1, <1>5, <1>6, <1>7, <1>8, <1>9, <1>10 DEF IInv, RepliesAnswer, client

\* A frame is complete when no more of the reply is to come.
LEMMA ExpireKeeps ==
  ASSUME PatientLoads, IInv, Expire
  PROVE  IInv'
<1>0. load.protocol = "rtu" /\ load.t35
  BY LoadFacts DEF IInv, TypeOK, Ascii, Expire
<1>1. /\ timer /\ ring = <<>> /\ reply = <<>> /\ timer' = FALSE /\ rcv' = "idle"
      /\ UNCHANGED <<load, client, rx, seg_e2u_sem, recvpc, tid, aucTCPBuf, cur, left, rtulast, line,
                     ring, frame, u2epc, retries, again, repeats>>
  BY <1>0 DEF Expire
<1>2. \/ rcv = "rcv" /\ finish' = TRUE /\ seg_u2e_sem' = Token(seg_u2e_sem)
      \/ rcv # "rcv" /\ UNCHANGED <<finish, seg_u2e_sem>>
  BY DEF Expire
<1>3. seg_u2e_sem' \in 0..Tokens /\ finish' \in BOOLEAN
      /\ (rcv = "rcv" => seg_u2e_sem' > 0)
  BY <1>2, Numbers DEF IInv, TypeOK
<1>4. TypeOK'
  BY <1>1, <1>3 DEF IInv, TypeOK, client, line
<1>5. Up' => Up
  BY <1>1, <1>2 DEF Up, line
<1>6. Turns'
  <2>1. Down' = Down /\ OnWire' = OnWire
    BY <1>1 DEF Down, OnWire, line
  <2>2. ring' = <<>> /\ reply' = <<>> /\ UNCHANGED <<asked, tid, recvpc, rx, seg_e2u_sem>>
    BY <1>1 DEF client, line
  <2> QED BY <1>5, <2>1, <2>2 DEF IInv, Turns
<1>7. Rtu'
  BY <1>0, <1>1, <1>2, <1>3 DEF IInv, Rtu
<1>8. Ascii'
  BY <1>0, <1>1 DEF Ascii
<1>9. Owned'
  BY <1>1, <1>2 DEF IInv, Owned, line
<1>10. Written'
  <2>1. OnLine(tid)' = OnLine(tid)
    BY <1>1 DEF OnLine
  <2> QED BY <1>1, <2>1 DEF IInv, Written, Reached, line
<1> QED BY <1>1, <1>4, <1>6, <1>7, <1>8, <1>9, <1>10 DEF IInv, RepliesAnswer, client

\* The task wakes up and reads what there is.
LEMMA U2eTakeKeeps ==
  ASSUME PatientLoads, IInv, U2eTake
  PROVE  IInv'
<1>1. /\ u2epc = "wait" /\ seg_u2e_sem > 0 /\ seg_u2e_sem' = seg_u2e_sem - 1 /\ retries' = 0
      /\ u2epc' = "read"
      /\ UNCHANGED <<load, client, rx, seg_e2u_sem, recvpc, tid, aucTCPBuf, cur, left, rtulast, line,
                     ring, rcv, frame, timer, finish, again, repeats>>
  BY DEF U2eTake
<1>2. TypeOK'
  <2>1. seg_u2e_sem' \in 0..Tokens /\ retries' \in 0..MB_RETRY_MAX
    BY <1>1, ModbusConstants DEF IInv, TypeOK
  <2> QED BY <1>1, <2>1 DEF IInv, TypeOK, client, line
<1>3. Turns'
  BY <1>1 DEF IInv, Turns, Down, OnWire, Up, client, line
<1>4. Rtu'
  BY <1>1 DEF IInv, Rtu
<1>5. Ascii'
  BY <1>1 DEF IInv, Ascii, Pending, line
<1>6. Owned'
  BY <1>1 DEF IInv, Owned, line
<1>7. Written'
  <2>1. OnLine(tid)' = OnLine(tid)
    BY <1>1 DEF OnLine
  <2> QED BY <1>1, <2>1 DEF IInv, Written, Reached, line
<1> QED BY <1>1, <1>2, <1>3, <1>4, <1>5, <1>6, <1>7 DEF IInv, RepliesAnswer, client

\* A symbol that is read is the first of what there was to read.
LEMMA ConcatHead ==
  ASSUME NEW S, NEW p \in Seq(S), p # <<>>, NEW q \in Seq(S)
  PROVE  p \o q \in Seq(S) /\ Tail(p) \o q = Tail(p \o q) /\ Head(p \o q) = Head(p)
<1>1. /\ Len(p) \in Nat \ {0} /\ Len(q) \in Nat /\ Head(p) = p[1]
      /\ Tail(p) \in Seq(S) /\ Len(Tail(p)) = Len(p) - 1
      /\ \A i \in 1..(Len(p) - 1) : Tail(p)[i] = p[i + 1]
  BY HeadTailProperties, LenProperties
<1>2. /\ p \o q \in Seq(S) /\ Len(p \o q) = Len(p) + Len(q)
      /\ \A i \in 1..(Len(p) + Len(q)) : (p \o q)[i] = IF i <= Len(p) THEN p[i] ELSE q[i - Len(p)]
  BY ConcatProperties
<1> DEFINE a == Tail(p)
           c == p \o q
<1>3. a \in Seq(S) /\ Len(a) = Len(p) - 1 /\ \A i \in 1..(Len(p) - 1) : a[i] = p[i + 1]
  BY <1>1
<1> HIDE DEF a
<1>4. /\ a \o q \in Seq(S) /\ Len(a \o q) = Len(a) + Len(q)
      /\ \A i \in 1..(Len(a) + Len(q)) : (a \o q)[i] = IF i <= Len(a) THEN a[i] ELSE q[i - Len(a)]
  BY <1>3, ConcatProperties
<1>5. /\ c \in Seq(S) /\ Len(c) = Len(p) + Len(q)
      /\ \A i \in 1..(Len(p) + Len(q)) : c[i] = IF i <= Len(p) THEN p[i] ELSE q[i - Len(p)]
  BY <1>2
<1> HIDE DEF c
<1>6. c # <<>> /\ Head(c) = c[1] /\ c[1] = p[1]
  <2>1. Len(c) # 0 /\ 1 \in 1..(Len(p) + Len(q)) /\ 1 <= Len(p)
    BY <1>1, <1>5
  <2> QED BY <1>5, <2>1
<1>7. /\ Tail(c) \in Seq(S) /\ Len(Tail(c)) = Len(p) + Len(q) - 1
      /\ \A i \in 1..(Len(p) + Len(q) - 1) : Tail(c)[i] = c[i + 1]
  BY <1>5, <1>6, HeadTailProperties
<1>8. Len(a) + Len(q) = Len(p) + Len(q) - 1
  BY <1>1, <1>3
<1>9. ASSUME NEW i \in 1..(Len(p) + Len(q) - 1) PROVE (a \o q)[i] = Tail(c)[i]
  <2>1. i \in Nat /\ i + 1 \in 1..(Len(p) + Len(q)) /\ i \in 1..(Len(a) + Len(q))
    BY <1>1, <1>8
  <2>2. CASE i <= Len(p) - 1
    <3>1. i \in 1..(Len(p) - 1) /\ i + 1 <= Len(p) /\ i <= Len(a)
      BY <1>1, <1>3, <2>1, <2>2
    <3> QED BY <1>3, <1>4, <1>5, <1>7, <2>1, <3>1
  <2>3. CASE ~(i <= Len(p) - 1)
    <3>1. ~(i + 1 <= Len(p)) /\ ~(i <= Len(a)) /\ (i + 1) - Len(p) = i - Len(a)
      BY <1>1, <1>3, <2>1, <2>3
    <3> QED BY <1>4, <1>5, <1>7, <2>1, <3>1
  <2> QED BY <2>2, <2>3
<1>10. a \o q = Tail(c)
  BY <1>4, <1>7, <1>8, <1>9, SeqEqual
<1> QED BY <1>1, <1>2, <1>6, <1>10 DEF a, c

\* The first n symbols of the buffer are of one message when all that it holds is.
LEMMA KeptOwn ==
  ASSUME frame \in Seq(Symbols), NEW n \in Nat, NEW t, Own(frame, t)
  PROVE  Kept(n) \in Seq(Symbols) /\ Len(Kept(n)) = n /\ Own(Kept(n), t)
<1>1. \A i \in 1..n : i <= Len(frame) => i \in 1..Len(frame) /\ frame[i] \in Symbols
  BY LenProperties, ElementOfSeq
<1>2. \A i \in 1..n : (IF i <= Len(frame) THEN frame[i] ELSE Noise) \in Symbols
  BY <1>1, SymbolTypes
<1>3. Kept(n) \in Seq(Symbols) /\ Len(Kept(n)) = n
  BY <1>2 DEF Kept
<1>4. \A i \in 1..n : Kept(n)[i].m \in {0, t}
  BY <1>1, SymbolTypes DEF Kept, Own
<1> QED BY <1>3, <1>4 DEF Own

\* One byte of the reply reaches the frame; the ASCII receiver sees its end.
LEMMA U2eReadKeeps ==
  ASSUME PatientLoads, IInv, U2eRead
  PROVE  IInv'
<1>0. load \in Load /\ load.protocol \in {"rtu", "ascii"} /\ Room \in Nat /\ Room >= 2
  BY LoadFacts, Numbers DEF IInv, TypeOK
<1>1. /\ u2epc = "read" /\ u2epc' \in {"read", "check"}
      /\ UNCHANGED <<load, client, rx, seg_e2u_sem, recvpc, tid, aucTCPBuf, cur, rtulast, line,
                     seg_u2e_sem, retries, again, repeats>>
  BY DEF U2eRead
<1>2. OnLine(tid)' = OnLine(tid)
  BY <1>1 DEF OnLine
<1>3. CASE ring = <<>> /\ u2epc' = "check" /\ UNCHANGED <<ring, rcv, frame, timer, finish, left>>
  <2>1. TypeOK'
    BY <1>1, <1>3 DEF IInv, TypeOK, client, line
  <2>2. Turns'
    BY <1>1, <1>3 DEF IInv, Turns, Down, OnWire, Up, client, line
  <2>3. Rtu' /\ Ascii' /\ Owned'
    BY <1>1, <1>3 DEF IInv, Rtu, Ascii, Owned, Pending, line
  <2>4. Written'
    BY <1>1, <1>2, <1>3 DEF IInv, Written, Reached, line
  <2> QED BY <1>1, <2>1, <2>2, <2>3, <2>4 DEF IInv, RepliesAnswer, client
<1>4. CASE /\ ring # <<>> /\ ring' = Tail(ring)
           /\ IF load.protocol = "rtu" THEN ReceiveRTU(Head(ring)) ELSE ReceiveASCII(Head(ring))
           /\ u2epc' = IF load.protocol = "ascii" /\ rcv = "end" /\ rcv' = "idle"
                       THEN "check" ELSE "read"
  <2>1. Up /\ ~Down /\ ~OnWire /\ asked # 0 /\ tid # 0 /\ finish = FALSE /\ recvpc = "wait"
    BY <1>4 DEF IInv, Turns, Up, Down, TypeOK
  <2>2. /\ ring \in Seq(Symbols) /\ Own(ring, tid) /\ reply \in Seq(Symbols)
        /\ frame \in Seq(Symbols) /\ left \in 0..Room /\ Len(frame) <= Room
        /\ rcv \in {"init", "idle", "rcv", "end", "error"}
    BY DEF IInv, TypeOK, Owned
  <2>3. /\ Head(ring) \in Symbols /\ Head(ring).m \in {0, tid}
        /\ ring' \in Seq(Symbols) /\ Own(ring', tid)
    BY <1>4, <2>2, OwnTail
  <2>4. /\ Pending \in Seq(Symbols) /\ Pending' = Tail(Pending) /\ Head(Pending) = Head(ring)
    <3>1. reply' = reply
      BY <1>1 DEF line
    <3> QED BY <1>4, <2>2, <3>1, ConcatHead DEF Pending
  <2>5. ASSUME frame' \in Seq(Symbols), Len(frame') <= Room, left' \in 0..Room,
               timer' \in BOOLEAN, finish' \in BOOLEAN,
               rcv' \in {"init", "idle", "rcv", "end", "error"},
               finish' => ring' = <<>> /\ reply' = <<>>,
               rcv' \in {"rcv", "end"} \/ finish' => Own(frame', tid),
               Rtu', Ascii'
        PROVE  IInv'
    <3>1. TypeOK'
      BY <1>1, <2>3, <2>5 DEF IInv, TypeOK, client, line
    <3>2. Turns'
      <4>1. ~Down' /\ ~OnWire' /\ asked' # 0 /\ tid' # 0 /\ recvpc' = "wait"
        BY <1>1, <2>1 DEF Down, OnWire, client, line
      <4>2. Len(rx') <= 1 /\ seg_e2u_sem' = Len(rx')
        BY <1>1 DEF IInv, Turns
      <4> QED BY <2>5, <4>1, <4>2 DEF Turns
    <3>3. Owned'
      BY <1>1, <2>3, <2>5 DEF IInv, Owned, line
    <3>4. Written'
      BY <1>1, <1>2, <2>1 DEF IInv, Written, Reached, line
    <3> QED BY <1>1, <2>5, <3>1, <3>2, <3>3, <3>4 DEF IInv, RepliesAnswer, client
  <2>6. CASE load.protocol = "rtu"
    <3>1. timer' = TRUE /\ left' = left /\ finish' = finish /\ rcv # "end"
      BY <1>4, <2>6 DEF ReceiveRTU, IInv, Rtu
    <3>2. /\ frame' \in Seq(Symbols) /\ Len(frame') <= Room
          /\ rcv' \in {"init", "idle", "rcv", "error"}
          /\ rcv' = "rcv" => Own(frame', tid)
      <4>1. CASE rcv = "idle"
        <5>1. frame' = <<Head(ring)>> /\ rcv' = "rcv"
          BY <1>4, <2>6, <4>1 DEF ReceiveRTU
        <5>2. Len(frame') = 1 /\ frame'[1] = Head(ring) /\ frame' \in Seq(Symbols)
          BY <2>3, <5>1
        <5> QED BY <1>0, <2>3, <5>1, <5>2 DEF Own
      <4>2. CASE rcv = "rcv" /\ Len(frame) < Room
        <5>1. frame' = Append(frame, Head(ring)) /\ rcv' = rcv
          <6>1. \A n, r \in Nat : n < r => ~(n >= r)
            OBVIOUS
          <6>2. ~(Len(frame) >= Room)
            BY <1>0, <2>2, <4>2, <6>1, LenProperties
          <6> QED BY <1>4, <2>6, <4>2, <6>2 DEF ReceiveRTU
        <5>2. Own(frame, tid)
          BY <4>2 DEF IInv, Owned
        <5>3. frame' \in Seq(Symbols) /\ Own(frame', tid) /\ Len(frame') = Len(frame) + 1
          BY <2>2, <2>3, <5>1, <5>2, OwnAppend
        <5>4. Len(frame') <= Room
          <6>1. \A n, r \in Nat : n < r => n + 1 <= r
            OBVIOUS
          <6> QED BY <1>0, <2>2, <4>2, <5>3, <6>1, LenProperties
        <5> QED BY <4>2, <5>1, <5>3, <5>4
      <4>3. CASE rcv = "rcv" /\ Len(frame) >= Room
        <5>1. frame' = frame /\ rcv' = "error"
          <6>1. ~(Len(frame) < Room)
            <7>1. \A n, r \in Nat : n >= r => ~(n < r)
              OBVIOUS
            <7> QED BY <1>0, <2>2, <4>3, <7>1, LenProperties
          <6> QED BY <1>4, <2>6, <4>3, <6>1 DEF ReceiveRTU
        <5> QED BY <2>2, <5>1
      <4>4. CASE rcv \notin {"idle", "rcv"}
        <5>1. frame' = frame /\ rcv' = rcv
          BY <1>4, <2>6, <4>4 DEF ReceiveRTU
        <5> QED BY <2>2, <3>1, <4>4, <5>1
      <4>5. Len(frame) < Room \/ Len(frame) >= Room
        <5>1. \A n, r \in Nat : n < r \/ n >= r
          OBVIOUS
        <5> QED BY <1>0, <2>2, <5>1, LenProperties
      <4> QED BY <4>1, <4>2, <4>3, <4>4, <4>5
    <3>3. Rtu'
      BY <1>1, <2>1, <3>1, <3>2 DEF IInv, Rtu
    <3>4. Ascii'
      BY <1>1, <2>6 DEF Ascii
    <3>5. timer' \in BOOLEAN /\ finish' = FALSE /\ finish' \in BOOLEAN /\ left' \in 0..Room
      BY <2>1, <2>2, <3>1
    <3>6. rcv' # "end" /\ rcv' \in {"init", "idle", "rcv", "end", "error"}
      BY <3>2
    <3> QED BY <2>5, <3>2, <3>3, <3>4, <3>5, <3>6
  <2>7. CASE load.protocol = "ascii"
    <3> DEFINE b == Head(ring)
    <3>1. /\ ReceiveASCII(b) /\ timer' = timer /\ timer = FALSE
          /\ finish' = (finish \/ (rcv = "end" /\ b = LF))
      BY <1>4, <2>7 DEF ReceiveASCII, IInv, Ascii, TypeOK
    <3>2. Rtu' /\ load'.protocol = "ascii" /\ timer' = FALSE /\ timer' \in BOOLEAN
          /\ u2epc' # "again"
      <4>1. load'.protocol = "ascii" /\ timer' = FALSE /\ u2epc' # "again"
        BY <1>1, <2>7, <3>1
      <4> QED BY <4>1 DEF Rtu
    <3>0. rcv # "end" => finish' = FALSE /\ finish' \in BOOLEAN
      BY <2>1, <3>1
    <3>3. CASE rcv = "idle"
      <4>1. Framed(Pending)
        <5>1. Pending # <<>>
          <6>1. Len(ring) \in Nat \ {0} /\ Len(reply) \in Nat /\ Len(Pending) = Len(ring) + Len(reply)
            BY <1>4, <2>2, ConcatProperties, LenProperties DEF Pending
          <6>2. Len(Pending) # 0
            BY <6>1
          <6> QED BY <6>2
        <5> QED BY <2>7, <3>3, <5>1 DEF IInv, Ascii
      <4>2. b = START /\ Opened(Pending') /\ Len(Pending') >= 3
        BY <2>4, <4>1, FramedTail
      <4>3. left' = 0 /\ frame' = <<>> /\ rcv' = "rcv" /\ finish' = FALSE
        BY <3>0, <3>1, <3>3, <4>2 DEF ReceiveASCII
      <4>4. Ascii'
        <5>1. \A n : n >= 3 => n # 2
          OBVIOUS
        <5> QED BY <3>2, <4>2, <4>3, <5>1 DEF Ascii
      <4>5. frame' \in Seq(Symbols) /\ Len(frame') <= Room /\ Own(frame', tid) /\ left' \in 0..Room
        BY <1>0, <4>3 DEF Own
      <4>6. rcv' \in {"init", "idle", "rcv", "end", "error"}
        BY <4>3
      <4> QED BY <2>5, <3>0, <3>2, <3>3, <4>3, <4>4, <4>5, <4>6
    <3>4. CASE rcv = "rcv"
      <4>1. /\ Opened(Pending) /\ (Len(Pending) = 2 => left > 0) /\ Own(frame, tid)
        BY <2>7, <3>4 DEF IInv, Ascii, Owned
      <4>2. /\ b = CR => Pending' = <<LF>> /\ left > 0
            /\ b # CR => Opened(Pending')
        BY <2>4, <4>1, OpenedTail
      <4>3. finish' = FALSE /\ finish' \in BOOLEAN
        BY <3>0, <3>4
      <4>7. left < Room => ~(left >= Room)
        BY <1>0, <2>2
      <4>4. CASE left < Room /\ b = CR
        <5>1. /\ rcv' = "end" /\ left' = left /\ frame' = frame
              /\ rcv' \in {"init", "idle", "rcv", "end", "error"}
          BY <3>1, <3>4, <4>4, <4>7 DEF ReceiveASCII
        <5>2. Ascii'
          BY <3>2, <4>2, <4>3, <4>4, <5>1 DEF Ascii
        <5> QED BY <2>2, <2>5, <3>2, <4>1, <4>3, <5>1, <5>2
      <4>5. CASE left < Room /\ b # CR
        <5>1. /\ rcv' = rcv /\ left' = left + 1 /\ frame' = Append(Kept(left), b)
              /\ rcv' \in {"init", "idle", "rcv", "end", "error"}
          BY <3>1, <3>4, <4>5, <4>7 DEF ReceiveASCII
        <5>2. left \in Nat /\ left' \in 0..Room /\ left' > 0 /\ left + 1 <= Room
          BY <1>0, <2>2, <4>5, <5>1
        <5>3. frame' \in Seq(Symbols) /\ Own(frame', tid) /\ Len(frame') = left + 1
          BY <2>2, <2>3, <4>1, <5>1, <5>2, KeptOwn, OwnAppend
        <5>4. Ascii'
          BY <3>2, <3>4, <4>2, <4>3, <4>5, <5>1, <5>2 DEF Ascii
        <5>5. Len(frame') <= Room
          BY <5>2, <5>3
        <5> QED BY <2>5, <3>2, <4>3, <5>1, <5>2, <5>3, <5>4, <5>5
      <4>6. CASE ~(left < Room)
        <5>1. /\ rcv' = "error" /\ left' = left /\ frame' = frame
              /\ rcv' \in {"init", "idle", "rcv", "end", "error"}
          <6>1. left >= Room
            BY <1>0, <2>2, <4>6
          <6> QED BY <3>1, <3>4, <4>6, <6>1 DEF ReceiveASCII
        <5>2. Ascii'
          BY <3>2, <4>3, <5>1 DEF Ascii
        <5> QED BY <2>2, <2>5, <3>2, <4>3, <5>1, <5>2
      <4> QED BY <4>4, <4>5, <4>6
    <3>5. CASE rcv = "end"
      <4>1. left > 0 /\ Pending = <<LF>> /\ Own(frame, tid)
        BY <2>7, <3>5 DEF IInv, Ascii, Owned
      <4>2. b = LF
        BY <2>4, <4>1
      <4>3. rcv' = "idle" /\ left' = left /\ frame' = frame /\ finish' = TRUE /\ u2epc' = "check"
        BY <1>4, <2>7, <3>1, <3>5, <4>2 DEF ReceiveASCII
      <4>4. Pending' = <<>> /\ ring' = <<>> /\ reply' = <<>>
        <5>1. Pending' = <<>>
          BY <2>4, <4>1
        <5>2. reply' \in Seq(Symbols) /\ Len(Pending') = Len(ring') + Len(reply')
          BY <1>1, <2>2, <2>3, ConcatProperties DEF Pending, line
        <5>3. Len(ring') \in Nat /\ Len(reply') \in Nat /\ Len(Pending') = 0
          BY <2>3, <5>1, <5>2, LenProperties
        <5>4. Len(ring') = 0 /\ Len(reply') = 0
          <6>1. \A i, j \in Nat : 0 = i + j => i = 0 /\ j = 0
            OBVIOUS
          <6> QED BY <5>2, <5>3, <6>1
        <5> QED BY <2>3, <5>1, <5>2, <5>4
      <4>5. Ascii'
        BY <3>2, <4>1, <4>3, <4>4 DEF Ascii
      <4> QED BY <2>2, <2>5, <3>2, <4>1, <4>3, <4>4, <4>5
    <3>6. CASE rcv = "error"
      <4>1. /\ rcv' = rcv /\ left' = left /\ frame' = frame
            /\ finish' = FALSE /\ finish' \in BOOLEAN
        BY <3>0, <3>1, <3>6 DEF ReceiveASCII
      <4>2. Ascii'
        BY <3>2, <3>6, <4>1 DEF Ascii
      <4>3. rcv' \notin {"rcv", "end"} /\ rcv' \in {"init", "idle", "rcv", "end", "error"}
        BY <3>6, <4>1
      <4> QED BY <2>2, <2>5, <3>2, <4>1, <4>2, <4>3
    <3>7. rcv # "init"
      BY <2>7 DEF IInv, Ascii
    <3> QED BY <2>2, <3>3, <3>4, <3>5, <3>6, <3>7
  <2> QED BY <1>0, <2>6, <2>7
<1> QED BY <1>3, <1>4 DEF U2eRead

\* A frame with a right checksum is the reply to the last request; after another one the
\* last request goes out again.
LEMMA U2eCheckKeeps ==
  ASSUME PatientLoads, IInv, U2eCheck
  PROVE  IInv'
<1>0. load \in Load /\ load.protocol \in {"rtu", "ascii"}
  BY LoadFacts DEF IInv, TypeOK
<1>1. /\ u2epc = "check" /\ finish' = FALSE
      /\ UNCHANGED <<load, rx, seg_e2u_sem, recvpc, tid, cur, left, rtulast, ring, rcv, frame,
                     timer, seg_u2e_sem>>
  BY DEF U2eCheck
<1>2. OnLine(tid)' = OnLine(tid)
  BY <1>1 DEF OnLine
<1>3. CASE ~finish
  <2>1. u2epc' = "wait" /\ UNCHANGED <<client, line, aucTCPBuf, retries, again, repeats>>
    BY <1>3 DEF U2eCheck
  <2>2. TypeOK'
    BY <1>1, <2>1 DEF IInv, TypeOK, client, line
  <2>3. Turns'
    BY <1>1, <1>3, <2>1 DEF IInv, Turns, Down, OnWire, Up, client, line
  <2>4. Rtu' /\ Ascii' /\ Owned'
    BY <1>1, <1>3, <2>1 DEF IInv, Rtu, Ascii, Owned, Pending, line
  <2>5. Written'
    BY <1>1, <1>2, <2>1 DEF IInv, Written, Reached, line
  <2> QED BY <2>1, <2>2, <2>3, <2>4, <2>5 DEF IInv, RepliesAnswer, client
<1>4. CASE finish
  <2>1. /\ ~Down /\ ~OnWire /\ asked # 0 /\ tid # 0 /\ recvpc = "wait" /\ wire = <<>>
        /\ reply = <<>> /\ ring = <<>> /\ Own(frame, tid) /\ frame \in Seq(Symbols)
        /\ aucTCPBuf = Body(tid) /\ cur = Parts + 1
    BY <1>4 DEF IInv, Turns, Up, Down, OnWire, Owned, Written, TypeOK
  <2>2. tid \in 1..Requests /\ rcv \notin {"rcv", "end"}
    <3>1. \A t \in 0..Requests : t # 0 => t \in 1..Requests
      BY Numbers
    <3>2. tid \in 1..Requests
      BY <2>1, <3>1 DEF IInv, TypeOK
    <3>3. rcv \notin {"rcv", "end"}
      BY <1>0, <1>4 DEF IInv, Rtu, Ascii
    <3> QED BY <3>2, <3>3
  <2>3. ASSUME aucTCPBuf' = aucTCPBuf, UNCHANGED line, u2epc' \in {"wait", "again"},
               \/ UNCHANGED client
               \/ /\ answer' = [tid |-> tid, m |-> tid] /\ asked' = 0 /\ UNCHANGED turn
                  /\ u2epc' = "wait",
               u2epc' = "again" => load.protocol = "rtu" /\ again' = rtulast,
               retries' \in 0..MB_RETRY_MAX, again' \in 0..Parts,
               repeats' \in 0..(MB_RETRY_MAX + 1)
        PROVE  IInv'
    <3>1. TypeOK'
      <4>1. answer' \in [tid : 0..Requests, m : 0..Requests] /\ asked' \in 0..Requests
            /\ turn' \in 1..Requests
        <5>1. /\ answer \in [tid : 0..Requests, m : 0..Requests] /\ asked \in 0..Requests
              /\ turn \in 1..Requests /\ tid \in 0..Requests
          BY DEF IInv, TypeOK
        <5>2. [tid |-> tid, m |-> tid] \in [tid : 0..Requests, m : 0..Requests] /\ 0 \in 0..Requests
          BY <5>1, Numbers
        <5> QED BY <2>3, <5>1, <5>2 DEF client
      <4> QED BY <1>1, <2>3, <4>1 DEF IInv, TypeOK, line
    <3>2. Turns'
      <4>1. ~Up' /\ ~Down'
        BY <1>1, <2>1, <2>2, <2>3 DEF Up, Down, line
      <4>2. asked' = 0 => u2epc' = "wait"
        BY <2>1, <2>3 DEF client
      <4>3. OnWire' => u2epc' = "again"
        BY <2>1, <2>3 DEF OnWire, line
      <4>4. Len(rx') <= 1 /\ seg_e2u_sem' = Len(rx') /\ tid' # 0 /\ recvpc' = "wait"
        BY <1>1, <2>1 DEF IInv, Turns
      <4> QED BY <1>1, <4>1, <4>2, <4>3, <4>4 DEF Turns
    <3>3. Rtu'
      BY <1>1, <2>3 DEF IInv, Rtu
    <3>4. Ascii'
      BY <1>0, <1>1, <2>3 DEF IInv, Ascii, Pending, line
    <3>5. Owned'
      BY <1>1, <2>2, <2>3 DEF IInv, Owned, line
    <3>6. Written'
      <4>1. wire' = <<>> /\ tid' = tid /\ aucTCPBuf' = Body(tid') /\ cur' = Parts + 1 /\ recvpc' = "wait"
        BY <1>1, <2>1, <2>3 DEF line
      <4>2. u2epc' = "again" => again' = Parts
        BY <2>1, <2>3 DEF IInv, Rtu
      <4>3. Len(wire') = 0 /\ Parts - Parts = 0 /\ \A i \in 1..0 : FALSE
        BY <4>1, Numbers
      <4>4. u2epc' = "again" => Reached(Parts - again)'
        BY <4>2, <4>3 DEF Reached
      <4> QED BY <4>1, <4>4 DEF Written
    <3>7. RepliesAnswer'
      BY <2>3 DEF IInv, RepliesAnswer, client
    <3> QED BY <3>1, <3>2, <3>3, <3>4, <3>5, <3>6, <3>7 DEF IInv
  <2>4. \A m \in 1..Requests : frame = Body(m) => m = tid
    BY <2>1, BodyOfOne
  <2>5. /\ retries \in 0..MB_RETRY_MAX /\ again \in 0..Parts /\ repeats \in 0..(MB_RETRY_MAX + 1)
        /\ 0 \in 0..MB_RETRY_MAX
    BY ModbusConstants DEF IInv, TypeOK
  <2>6. CASE load.protocol = "rtu"
    <3>1. ConvertRTU
      BY <1>4, <2>6 DEF U2eCheck
    <3>2. \A m \in Checked(frame) : m = tid
      BY <2>4, <2>6 DEF Checked
    <3>3. CASE Checked(frame) # {}
      <4>1. ClientTakes(tid) /\ retries' = 0 /\ u2epc' = "wait" /\ UNCHANGED <<again, repeats>>
        BY <3>1, <3>2, <3>3 DEF ConvertRTU
      <4> QED BY <2>3, <2>5, <3>1, <4>1 DEF ConvertRTU, ClientTakes
    <3>4. CASE Checked(frame) = {} /\ retries < MB_RETRY_MAX
      <4>1. /\ retries' = retries + 1 /\ again' = rtulast /\ u2epc' = "again" /\ UNCHANGED client
            /\ repeats' = IF repeats <= MB_RETRY_MAX THEN repeats + 1 ELSE repeats
        BY <3>1, <3>4 DEF ConvertRTU
      <4>2. retries' \in 0..MB_RETRY_MAX /\ repeats' \in 0..(MB_RETRY_MAX + 1)
        BY <2>5, <3>4, <4>1, ModbusConstants
      <4>3. again' \in 0..Parts
        <5>1. 0 \in 0..Parts /\ Parts \in 0..Parts
          BY Numbers
        <5> QED BY <4>1, <5>1 DEF IInv, TypeOK
      <4> QED BY <2>3, <2>6, <3>1, <4>1, <4>2, <4>3 DEF ConvertRTU
    <3>5. CASE Checked(frame) = {} /\ ~(retries < MB_RETRY_MAX)
      <4>1. retries' = 0 /\ u2epc' = "wait" /\ UNCHANGED <<client, again, repeats>>
        BY <3>1, <3>5 DEF ConvertRTU
      <4> QED BY <2>3, <2>5, <3>1, <4>1 DEF ConvertRTU
    <3> QED BY <3>3, <3>4, <3>5
  <2>7. CASE load.protocol = "ascii"
    <3> DEFINE s == Kept(left)
    <3>1. ConvertASCII
      BY <1>4, <2>7 DEF U2eCheck
    <3>2. left \in Nat /\ left > 0
      BY <1>4, <2>7, Numbers DEF IInv, Ascii, TypeOK
    <3>3. s \in Seq(Symbols) /\ Len(s) = left /\ Own(s, tid)
      BY <2>1, <3>2, KeptOwn
    <3>4. \A m \in Checked(s) : m = tid
      <4>1. \A m \in 1..Requests : s = Body(m) => m = tid
        BY <3>3, BodyOfOne
      <4>2. s # <<>>
        BY <3>2, <3>3
      <4> HIDE DEF s
      <4> QED BY <4>1, <4>2 DEF Checked
    <3>5. aucTCPBuf' = aucTCPBuf
      <4>1. /\ DOMAIN aucTCPBuf = 1..Parts /\ Parts \in Nat
            /\ aucTCPBuf = [i \in 1..Parts |-> aucTCPBuf[i]]
        BY <2>1, Numbers DEF Body
      <4>2. \A i \in 1..Parts : i \notin cur..(cur + left - 1)
        BY <2>1, <3>2, Numbers
      <4>3. aucTCPBuf' = [i \in DOMAIN aucTCPBuf |->
                            IF i \in cur..(cur + left - 1) THEN s[i - cur + 1] ELSE aucTCPBuf[i]]
        BY <3>1 DEF ConvertASCII
      <4> HIDE DEF s
      <4> QED BY <4>1, <4>2, <4>3
    <3>6. /\ IF Checked(s) # {} THEN \E m \in Checked(s) : ClientTakes(m) ELSE UNCHANGED client
          /\ u2epc' = "wait" /\ UNCHANGED <<line, retries, again, repeats>>
      BY <3>1 DEF ConvertASCII
    <3> HIDE DEF s
    <3>7. ClientTakes(tid) \/ UNCHANGED client
      BY <3>4, <3>6
    <3> QED BY <2>3, <2>5, <3>5, <3>6, <3>7 DEF ClientTakes
  <2> QED BY <1>0, <2>6, <2>7
<1> QED BY <1>3, <1>4

\* The last request goes out again, symbol by symbol.
LEMMA U2eAgainKeeps ==
  ASSUME PatientLoads, IInv, U2eAgain
  PROVE  IInv'
<1>0. load \in Load /\ load.protocol = "rtu"
  BY LoadFacts DEF IInv, TypeOK, Ascii, U2eAgain
<1>1. /\ u2epc = "again" /\ u2epc' \in {"again", "wait"}
      /\ UNCHANGED <<load, client, down, ring, rcv, frame, timer, finish, retries, repeats,
                     seg_u2e_sem>>
      /\ UNCHANGED <<reply, faults>>
  BY DEF U2eAgain, Write, line
<1>2. OnWire /\ ~Down /\ ~Up /\ asked # 0 /\ tid # 0 /\ recvpc = "wait" /\ Reached(Parts - again)
  BY <1>1 DEF OnWire, Down, IInv, Turns, Written
<1>3. tid \in 1..Requests /\ aucTCPBuf = Body(tid) /\ wire \in Seq(Symbols) /\ rtulast = Parts
  <2>1. \A t \in 0..Requests : t # 0 => t \in 1..Requests
    BY Numbers
  <2> QED BY <1>0, <1>2, <2>1 DEF IInv, TypeOK, Written, Rtu
<1>4. OnLine(tid)' = OnLine(tid) /\ Len(OnLine(tid)) = Parts
  BY <1>0, <1>1, <1>3, OnLineType, BodyType DEF OnLine, down
<1>5. ASSUME wire' \in Seq(Symbols), again' \in 0..Parts, Written'
      PROVE  IInv'
  <2>1. TypeOK'
    BY <1>1, <1>5 DEF IInv, TypeOK, client, down
  <2>2. Turns'
    <3>1. ~Up' /\ ~Down'
      BY <1>1, <1>2 DEF Up, Down, down
    <3>2. asked' # 0 /\ tid' # 0 /\ recvpc' = "wait"
      BY <1>1, <1>2 DEF client, down
    <3>3. Len(rx') <= 1 /\ seg_e2u_sem' = Len(rx')
      BY <1>1 DEF IInv, Turns, down
    <3>4. ~finish'
      BY <3>1 DEF Up
    <3> QED BY <3>1, <3>2, <3>3, <3>4 DEF Turns
  <2>3. Rtu'
    <3>1. ~finish'
      BY <1>1, <1>2 DEF Up
    <3> QED BY <1>1, <3>1 DEF IInv, Rtu, down
  <2>4. Ascii'
    BY <1>0, <1>1 DEF Ascii
  <2>5. Owned'
    BY <1>1 DEF IInv, Owned, down
  <2> QED BY <1>1, <1>5, <2>1, <2>2, <2>3, <2>4, <2>5 DEF IInv, RepliesAnswer, client
<1>6. tid' = tid /\ aucTCPBuf' = aucTCPBuf /\ cur' = cur /\ recvpc' = "wait"
  BY <1>1, <1>2 DEF down
<1>7. CASE again > 0 /\ Write(aucTCPBuf[rtulast - again + 1]) /\ again' = again - 1 /\ UNCHANGED u2epc
  <2> DEFINE n == Parts - again
             s == Body(tid)[n + 1]
  <2>1. again \in 0..Parts /\ Parts \in Nat
    BY Numbers DEF IInv, TypeOK
  <2>2. n \in Nat /\ n + 1 \in 1..Parts /\ again' \in 0..Parts /\ Parts - again' = n + 1
    BY <1>7, <2>1
  <2>3. s \in Symbols /\ s = OnLine(tid)[n + 1] /\ wire' = Append(wire, s)
    <3>1. s \in Symbols
      BY <1>3, <2>2, BodyType, ElementOfSeq
    <3>2. OnLine(tid) = Body(tid)
      BY <1>0, <1>3, OnLineType
    <3> QED BY <1>3, <1>7, <3>1, <3>2 DEF Write
  <2>4. Len(wire) = n /\ \A i \in 1..n : wire[i] = OnLine(tid)[i]
    BY <1>2 DEF Reached
  <2> HIDE DEF n, s
  <2>5. /\ wire' \in Seq(Symbols) /\ Len(wire') = n + 1
        /\ \A i \in 1..(n + 1) : wire'[i] = OnLine(tid)[i]
    BY <1>0, <1>3, <2>2, <2>3, <2>4, OneMore
  <2>6. Reached(Parts - again)'
    BY <1>4, <2>2, <2>5 DEF Reached
  <2>7. Written'
    BY <1>1, <1>2, <1>6, <1>7, <2>6 DEF IInv, Written
  <2> QED BY <1>5, <2>2, <2>5, <2>7
<1>8. CASE again = 0 /\ u2epc' = "wait" /\ UNCHANGED <<line, again>>
  <2>1. Reached(Parts)
    <3>1. Parts - 0 = Parts
      BY Numbers
    <3> QED BY <1>2, <1>8, <3>1
  <2>2. wire' = OnLine(tid)'
    <3>1. wire = OnLine(tid)
      BY <1>0, <1>3, <1>4, <2>1, AllThere DEF Reached
    <3> QED BY <1>4, <1>8, <3>1 DEF line
  <2>3. Written'
    BY <1>2, <1>6, <1>8, <2>2 DEF IInv, Written
  <2>4. wire' \in Seq(Symbols) /\ again' \in 0..Parts
    BY <1>3, <1>8 DEF line, IInv, TypeOK
  <2> QED BY <1>5, <2>3, <2>4
<1> QED BY <1>7, <1>8 DEF U2eAgain

-----------------------------------------------------------------------------
(* The theorems *)

\* Every step keeps the invariant.
LEMMA StepKeeps ==
  ASSUME PatientLoads, IInv, [Next]_vars
  PROVE  IInv'
<1>1. CASE Next
  BY <1>1, ClientKeeps, RecvTakeKeeps, RecvWriteKeeps, SlaveAnswersKeeps, SlaveByteKeeps,
     ExpireKeeps, U2eTakeKeeps, U2eReadKeeps, U2eCheckKeeps, U2eAgainKeeps
     DEF Next, seg_recv_task, seg_u2e_task, Slave
<1>2. CASE UNCHANGED vars
  <2>1. TypeOK' /\ RepliesAnswer'
    BY <1>2 DEF IInv, TypeOK, RepliesAnswer, vars, client, down, line, up
  <2>2. Turns'
    BY <1>2 DEF IInv, Turns, Down, OnWire, Up, vars, client, down, line, up
  <2>3. Rtu' /\ Ascii' /\ Owned'
    BY <1>2 DEF IInv, Rtu, Ascii, Owned, Pending, vars, down, line, up
  <2>4. Written'
    <3>1. OnLine(tid)' = OnLine(tid)
      BY <1>2 DEF OnLine, vars, down
    <3> QED BY <1>2, <3>1 DEF IInv, Written, Reached, vars, down, line, up
  <2> QED BY <2>1, <2>2, <2>3, <2>4 DEF IInv
<1> QED BY <1>1, <1>2

\* What the slave has got is the beginning of the frame of the last request.
LEMMA OneFrame ==
  ASSUME PatientLoads, IInv
  PROVE  FramesWhole
<1>0. load \in Load /\ load.protocol \in {"rtu", "ascii"} /\ wire \in Seq(Symbols) /\ Parts \in Nat
  BY LoadFacts, Numbers DEF IInv, TypeOK
<1>1. CASE tid = 0
  <2>1. wire = <<>>
    BY <1>1 DEF IInv, Turns, OnWire
  <2>2. 1 \in 1..Requests /\ Len(<<>>) = 0 /\ <<>> \in Seq(Symbols)
    BY Numbers
  <2>3. OnLine(1) \in Seq(Symbols) /\ Len(OnLine(1)) \in Nat
    BY <1>0, <2>2, OnLineType, LenProperties
  <2>4. 0 <= Len(OnLine(1)) /\ \A i \in 1..0 : FALSE
    BY <2>3
  <2>5. IsPrefix(<<>>, OnLine(1))
    BY <2>2, <2>3, <2>4, Agrees
  <2> QED BY <2>1, <2>2, <2>5 DEF FramesWhole
<1>2. CASE tid # 0
  <2>1. tid \in 1..Requests
    <3>1. \A t \in 0..Requests : t # 0 => t \in 1..Requests
      BY Numbers
    <3> QED BY <1>2, <3>1 DEF IInv, TypeOK
  <2>2. /\ OnLine(tid) \in Seq(Symbols) /\ Len(OnLine(tid)) \in Nat
        /\ load.protocol = "rtu" => Len(OnLine(tid)) = Parts
        /\ load.protocol = "ascii" => Len(OnLine(tid)) = Parts + 3
    BY <1>0, <2>1, OnLineType, BodyType, LenProperties
  <2>3. ASSUME NEW n \in Nat, n <= Len(OnLine(tid)), Reached(n)
        PROVE  IsPrefix(wire, OnLine(tid))
    BY <1>0, <2>2, <2>3, Agrees DEF Reached
  <2>4. wire = OnLine(tid) => IsPrefix(wire, OnLine(tid))
    <3>1. \A n \in Nat : n <= n
      OBVIOUS
    <3> QED BY <2>2, <3>1, Agrees
  <2>5. CASE recvpc = "wait" /\ u2epc # "again"
    <3>1. CASE wire = <<>>
      <4>1. Reached(0) /\ 0 <= Len(OnLine(tid))
        <5>1. Len(<<>>) = 0 /\ \A i \in 1..0 : FALSE
          OBVIOUS
        <5>2. 0 <= Len(OnLine(tid))
          BY <2>2
        <5> QED BY <3>1, <5>1, <5>2 DEF Reached
      <4> QED BY <2>1, <2>3, <3>1, <4>1 DEF FramesWhole
    <3>2. CASE wire = OnLine(tid)
      BY <2>1, <2>4, <3>2 DEF FramesWhole
    <3> QED BY <2>5, <3>1, <3>2 DEF IInv, Written
  <2>6. CASE u2epc = "again"
    <3>1. Reached(Parts - again) /\ again \in 0..Parts /\ load.protocol = "rtu"
      BY <1>0, <2>6 DEF IInv, Written, TypeOK, Ascii
    <3>2. Parts - again \in Nat /\ Parts - again <= Len(OnLine(tid))
      BY <1>0, <2>2, <3>1
    <3> QED BY <2>1, <2>3, <2>6, <3>1, <3>2 DEF FramesWhole
  <2>7. CASE recvpc # "wait"
    <3>1. \E n \in Nat : n <= Len(OnLine(tid)) /\ Reached(n)
      <4>0. cur \in 1..(Parts + 1)
        BY DEF IInv, TypeOK
      <4>1. CASE recvpc = "start"
        <5>1. Len(<<>>) = 0 /\ \A i \in 1..0 : FALSE
          OBVIOUS
        <5>2. 0 <= Len(OnLine(tid))
          BY <2>2
        <5> QED BY <4>1, <5>1, <5>2 DEF IInv, Written, Reached
      <4>2. CASE recvpc = "write" /\ load.protocol = "rtu"
        <5>1. Reached(cur - 1)
          BY <4>2 DEF IInv, Written
        <5>2. cur - 1 \in Nat /\ cur - 1 <= Len(OnLine(tid))
          BY <1>0, <2>2, <4>0, <4>2
        <5> QED BY <5>1, <5>2
      <4>3. CASE recvpc = "write" /\ load.protocol = "ascii"
        <5>1. Reached(cur)
          BY <4>3 DEF IInv, Written
        <5>2. cur \in Nat /\ cur <= Len(OnLine(tid))
          BY <1>0, <2>2, <4>0, <4>3
        <5> QED BY <5>1, <5>2
      <4>4. CASE recvpc = "end"
        <5>1. Reached(Parts + 2) /\ load.protocol = "ascii"
          BY <1>0, <4>4 DEF IInv, Written, Rtu
        <5>2. Parts + 2 \in Nat /\ Parts + 2 <= Len(OnLine(tid))
          BY <1>0, <2>2, <5>1
        <5> QED BY <5>1, <5>2
      <4> QED BY <1>0, <2>7, <4>1, <4>2, <4>3, <4>4 DEF IInv, TypeOK
    <3> QED BY <2>1, <2>3, <2>7, <3>1 DEF FramesWhole
  <2> QED BY <2>5, <2>6, <2>7
<1> QED BY <1>1, <1>2

\* The invariant holds in every state.
LEMMA Invariant == ASSUME PatientLoads PROVE Spec => []IInv
<1>1. Init => IInv
  BY InitKept
<1>2. IInv /\ [Next]_vars => IInv'
  BY StepKeeps
<1> QED BY <1>1, <1>2, PTL DEF Spec

\* The variables keep their types, the positions stay within the buffers (TypeOK).
THEOREM TypeCorrect == ASSUME PatientLoads PROVE Spec => []TypeOK
<1>1. IInv => TypeOK
  BY DEF IInv
<1> QED BY <1>1, Invariant, PTL

\* A reply the client takes for its own answers the request whose identifier it carries,
\* however replies are damaged and requests repeated (mbrtu.c, MBrtu2tcpFrame; mbascii.c,
\* MBascii2tcpFrame).
THEOREM RepliesRight == ASSUME PatientLoads PROVE Spec => []RepliesAnswer
<1>1. IInv => RepliesAnswer
  BY DEF IInv
<1> QED BY <1>1, Invariant, PTL

\* The two tasks that write to the line never mix their bytes: the slave gets one frame
\* after the other, each whole (mb.c, mbTCPtoRTU, mbRTURetransmit).
THEOREM FramesKept == ASSUME PatientLoads PROVE Spec => []FramesWhole
<1>1. IInv => FramesWhole
  BY OneFrame
<1> QED BY <1>1, Invariant, PTL
=============================================================================
