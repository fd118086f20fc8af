--------------------------- MODULE HttpServerProofs ---------------------------
(***************************************************************************)
(* For every number of sockets, every set of contents of any length and    *)
(* every size of a part: the variables of the plain HTTP server keep their *)
(* types, HTTPSock_Status always stands for a part of a content, and peers *)
(* that send a request in one piece and wait get the answer to it.         *)
(***************************************************************************)
EXTENDS HttpServer, Integers, TLAPS, SequenceTheorems

Statuses   == {"IDLE", "INPROC", "DONE"}
SockStates == {"CLOSED", "INIT", "LISTEN", "ESTABLISHED", "CLOSE_WAIT", "FIN_WAIT"}
Sock       == [sock_status : Statuses, file_start : Content \union {NoRequest},
               file_len : Nat, file_offset : Nat]
Byte       == [r : Requests, i : Nat]
Piece      == [r : Requests, part : {"whole", "front", "rest"}]

\* Every variable of the server keeps its type.
TypeOK ==
  /\ load \in Loads /\ turn \in Sockets
  /\ out \in Seq(Seq(Byte)) /\ inside \in BOOLEAN /\ parsed \in Requests
  /\ http \in [Sockets -> Sock] /\ sr \in [Sockets -> SockStates]
  /\ rx \in [Sockets -> Seq(Piece)] /\ tx \in [Sockets -> BOOLEAN]
  /\ asked \in [Sockets -> Requests \union {NoRequest}] /\ got \in [Sockets -> Seq(Byte)]

Serving(s) == inside /\ turn = s

\* A content is begun exactly while a socket is INPROC between two calls.
Begun ==
  \A s \in Sockets :
    /\ http[s].file_len > 0 => /\ http[s].file_start \in Content
                               /\ http[s].file_len = Length[http[s].file_start]
                               /\ http[s].file_offset < http[s].file_len
    /\ ~Serving(s) => /\ http[s].sock_status = "IDLE" => http[s] = Idle
                      /\ http[s].sock_status = "INPROC" <=> http[s].file_len > 0

\* What waits in a receive buffer belongs to the request of the peer.
Heard == \A s \in Sockets : rx[s] # <<>> => asked[s] # NoRequest

IInv == TypeOK /\ Begun /\ Heard

-----------------------------------------------------------------------------
\* The loads whose answers are claimed to be right: nobody closes or resets the
\* connection early, and a request arrives in one piece.
PatientLoads == \A l \in Loads : l.whole => l.peers = {}

\* The length of the body of an answer; the header and the first k bytes of it; how
\* far the sends of the present call, when they are done, will have come.
Body(r)    == IF r \in Content THEN Length[r] ELSE 0
Upto(r, k) == Header(Status(r)) \o Bytes(r, 0, k)
Reached(s) == IF http[s].file_len > 0 THEN http[s].file_offset ELSE Body(asked[s])

\* A connection is waiting for a request, has one in its buffer, or is answered:
\* what has been sent and what this call has still to send make up the answer as
\* far as HTTPSock_Status says.
Waiting(s) ==
  /\ rx[s] = IF asked[s] = NoRequest THEN <<>> ELSE <<[r |-> asked[s], part |-> "whole"]>>
  /\ got[s] = <<>> /\ http[s] = Idle /\ ~Serving(s)
Answered(s) ==
  /\ asked[s] # NoRequest /\ rx[s] = <<>>
  /\ http[s].file_len > 0 => http[s].file_start = asked[s]
  /\ ~Serving(s) => http[s].sock_status # "IDLE" /\ got[s] = Upto(asked[s], Reached(s))
  /\ Serving(s) =>
       \/ out = <<>> /\ got[s] = Upto(asked[s], Reached(s))
       \/ \E k \in 0..Reached(s) : /\ out = <<Bytes(asked[s], k, Reached(s))>>
                                   /\ got[s] = Upto(asked[s], k)
       \/ out = <<Header(Status(asked[s]))>> /\ got[s] = <<>> /\ Reached(s) = 0
       \/ out = <<Header(Status(asked[s])), Bytes(asked[s], 0, Reached(s))>> /\ got[s] = <<>>

Connection(s) ==
  \/ sr[s] \in {"CLOSED", "INIT", "LISTEN"} /\ asked[s] = NoRequest /\ Waiting(s)
  \/ sr[s] = "ESTABLISHED" /\ (Waiting(s) \/ Answered(s))
  \/ /\ sr[s] = "FIN_WAIT" /\ asked[s] # NoRequest /\ rx[s] = <<>> /\ http[s] = Idle
     /\ ~Serving(s) /\ got[s] = Upto(asked[s], Body(asked[s]))

Answers == load.whole => \A s \in Sockets : Connection(s)

-----------------------------------------------------------------------------
(* Bytes of answers.                                                       *)

\* A part of a content, or the header, is a sequence of bytes.
LEMMA BytesType ==
  ASSUME NEW r \in Requests, NEW a \in Nat, NEW b \in Nat, a <= b
  PROVE  /\ Bytes(r, a, b) \in Seq(Byte) /\ Len(Bytes(r, a, b)) = b - a
         /\ \A i \in 1..(b - a) : Bytes(r, a, b)[i] = [r |-> r, i |-> a + i]
<1>1. \A i \in 1..(b - a) : [r |-> r, i |-> a + i] \in Byte
  BY DEF Byte
<1>2. b - a \in Nat /\ Bytes(r, a, b) = [i \in 1..(b - a) |-> [r |-> r, i |-> a + i]]
  BY DEF Bytes
<1> DEFINE n == b - a
<1>3. n \in Nat /\ Bytes(r, a, b) \in [1..n -> Byte]
  BY <1>1, <1>2
<1> HIDE DEF n
<1>4. Bytes(r, a, b) \in Seq(Byte) /\ Len(Bytes(r, a, b)) = n
  BY <1>3
<1>5. \A i \in 1..(b - a) : Bytes(r, a, b)[i] = [r |-> r, i |-> a + i]
  BY <1>2
<1> QED BY <1>4, <1>5 DEF n

\* The header of an answer is that of a request, and is one byte here.
LEMMA HeaderType ==
  ASSUME NEW r \in Requests
  PROVE  /\ Status(r) \in Requests /\ Header(Status(r)) \in Seq(Byte)
         /\ Len(Header(Status(r))) = 1
<1>1. Status(r) \in Requests
  BY DEF Status, Requests
<1>2. [r |-> Status(r), i |-> 0] \in Byte
  BY <1>1 DEF Byte
<1> QED BY <1>1, <1>2 DEF Header

\* The length of a content is positive; the body of an answer has a length.
LEMMA LengthType ==
  ASSUME NEW c \in Content
  PROVE  Length[c] \in Nat /\ Length[c] > 0 /\ c \in Requests /\ c # NoRequest
BY HttpConstants DEF Requests, NoRequest

\* What send_http_response_body sends, and what HTTPSock_Status is behind it.
LEMMA SendBody ==
  ASSUME NEW h \in Sock, NEW c, h.file_len > 0 \/ (c \in Content /\ h = Idle),
         h.file_len > 0 => /\ h.file_start \in Content
                           /\ h.file_len = Length[h.file_start] /\ h.file_offset < h.file_len,
         NEW start, start = IF h.file_len > 0 THEN h.file_start ELSE c,
         NEW o, o = send_http_response_body(h, c)
  PROVE  \E m \in Nat :
           /\ h.file_offset <= m /\ o.bytes = Bytes(start, h.file_offset, m)
           /\ o.http \in Sock /\ o.http.sock_status = h.sock_status
           /\ IF m = Length[start] THEN o.http.file_len = 0
              ELSE /\ m < Length[start] /\ o.http.file_len = Length[start]
                   /\ o.http.file_start = start /\ o.http.file_offset = m
<1> USE HttpConstants
<1> DEFINE begun == h.file_len > 0
           left  == IF begun THEN h.file_len - h.file_offset ELSE Length[c]
           n     == IF left > Part THEN Part ELSE left
<1>1. /\ start \in Content /\ Length[start] \in Nat /\ Length[start] > 0
      /\ h.file_offset \in Nat /\ h.file_len \in Nat /\ h.sock_status \in Statuses
      /\ (~begun => h = Idle /\ h.file_offset = 0 /\ h.file_len = 0)
  BY LengthType DEF Sock, Idle
<1>2. left \in Nat /\ left > 0 /\ Length[start] = h.file_offset + left /\ Part \in Nat /\ Part > 0
  BY <1>1
<1>3. /\ o.bytes = Bytes(start, h.file_offset, h.file_offset + n)
      /\ o.http = IF begun /\ left <= Part THEN [Idle EXCEPT !.sock_status = h.sock_status]
                  ELSE IF begun \/ left <= Part THEN [h EXCEPT !.file_offset = @ + n]
                  ELSE [h EXCEPT !.file_offset = @ + n, !.file_start = start, !.file_len = left]
  BY DEF send_http_response_body, LastPart
<1>4. n \in Nat /\ h.file_offset + n \in Nat /\ (left <= Part <=> h.file_offset + n = Length[start])
      /\ h.file_offset + n <= Length[start]
  BY <1>1, <1>2
<1> HIDE DEF left, n
<1>5. o.http \in Sock /\ o.http.sock_status = h.sock_status
  <2>1. [Idle EXCEPT !.sock_status = h.sock_status] \in Sock
    BY <1>1 DEF Sock, Idle
  <2>2. [h EXCEPT !.file_offset = @ + n] \in Sock
    BY <1>1, <1>4 DEF Sock
  <2>3. [h EXCEPT !.file_offset = @ + n, !.file_start = start, !.file_len = left] \in Sock
    BY <1>1, <1>2, <1>4 DEF Sock
  <2>4. /\ [Idle EXCEPT !.sock_status = h.sock_status].sock_status = h.sock_status
        /\ [h EXCEPT !.file_offset = @ + n].sock_status = h.sock_status
        /\ [h EXCEPT !.file_offset = @ + n, !.file_start = start,
                     !.file_len = left].sock_status = h.sock_status
    BY DEF Sock, Idle
  <2> QED BY <1>3, <2>1, <2>2, <2>3, <2>4
<1>6. IF h.file_offset + n = Length[start] THEN o.http.file_len = 0
      ELSE /\ h.file_offset + n < Length[start] /\ o.http.file_len = Length[start]
           /\ o.http.file_start = start /\ o.http.file_offset = h.file_offset + n
  <2>1. CASE left <= Part
    <3>1. CASE begun
      <4>1. o.http = [Idle EXCEPT !.sock_status = h.sock_status]
        BY <1>3, <2>1, <3>1
      <4>2. o.http.file_len = 0
        BY <4>1 DEF Idle
      <4> QED BY <1>4, <2>1, <4>2
    <3>2. CASE ~begun
      <4>1. o.http = [h EXCEPT !.file_offset = @ + n]
        BY <1>3, <2>1, <3>2
      <4>2. o.http.file_len = h.file_len
        BY <4>1 DEF Sock
      <4> QED BY <1>1, <1>4, <2>1, <3>2, <4>2
    <3> QED BY <3>1, <3>2
  <2>2. CASE ~(left <= Part)
    BY <1>1, <1>2, <1>3, <1>4, <2>2 DEF Sock
  <2> QED BY <2>1, <2>2
<1> DEFINE m == h.file_offset + n
<1>7. /\ m \in Nat /\ h.file_offset <= m /\ o.bytes = Bytes(start, h.file_offset, m)
      /\ IF m = Length[start] THEN o.http.file_len = 0
         ELSE /\ m < Length[start] /\ o.http.file_len = Length[start]
              /\ o.http.file_start = start /\ o.http.file_offset = m
  BY <1>1, <1>3, <1>4, <1>6
<1> HIDE DEF m
<1> QED BY <1>5, <1>7

-----------------------------------------------------------------------------
(* Types and positions.                                                    *)

\* A socket number is kept one by the turn of the main loop.
LEMMA ReturnType == ASSUME turn \in Sockets, Return PROVE turn' \in Sockets
<1>1. Socks \in Nat /\ Socks > 0 /\ turn + 1 \in Nat
  BY HttpConstants DEF Sockets
<1>2. (turn + 1) % Socks \in 0..(Socks - 1)
  BY <1>1
<1> QED BY <1>2 DEF Return, Sockets

\* httpServer_init: the sockets are closed and HTTPSock_Status is cleared.
LEMMA InitHolds == Init => IInv
<1> SUFFICES ASSUME Init PROVE IInv
  OBVIOUS
<1>1. TypeOK
  <2>1. 0 \in Sockets /\ "nonsense" \in Requests /\ Idle \in Sock
    BY HttpConstants DEF Sockets, Requests, Idle, Sock, Statuses
  <2>2. turn \in Sockets /\ parsed \in Requests /\ http \in [Sockets -> Sock]
    BY <2>1 DEF Init
  <2>3. sr \in [Sockets -> SockStates] /\ tx \in [Sockets -> BOOLEAN]
    BY DEF Init, SockStates
  <2>4. /\ rx \in [Sockets -> Seq(Piece)] /\ got \in [Sockets -> Seq(Byte)]
        /\ asked \in [Sockets -> Requests \union {NoRequest}]
    BY DEF Init
  <2> QED BY <2>2, <2>3, <2>4 DEF Init, TypeOK
<1>2. Begun /\ Heard
  BY DEF Init, Begun, Heard, Serving, Idle
<1> QED BY <1>1, <1>2 DEF IInv

\* A closed socket has nothing buffered, sent or asked.
LEMMA ClosedType ==
  ASSUME TypeOK, NEW s \in Sockets, Closed(s)
  PROVE  /\ sr' \in [Sockets -> SockStates] /\ rx' \in [Sockets -> Seq(Piece)]
         /\ tx' \in [Sockets -> BOOLEAN] /\ got' \in [Sockets -> Seq(Byte)]
         /\ asked' \in [Sockets -> Requests \union {NoRequest}]
BY DEF TypeOK, Closed, SockStates

\* A call that takes a request, or goes on with a content.
LEMMA CallStep ==
  ASSUME IInv, Receive \/ SendNext
  PROVE  TypeOK' /\ Begun'
<1> DEFINE h == http[turn]
<1>1. /\ TypeOK /\ turn \in Sockets /\ ~inside /\ inside' = TRUE /\ turn' = turn /\ h \in Sock
      /\ UNCHANGED <<load, sr, tx, asked, got>>
      /\ h.file_len > 0 => /\ h.file_start \in Content
                           /\ h.file_len = Length[h.file_start] /\ h.file_offset < h.file_len
      /\ h.file_offset \in Nat
  BY DEF Receive, SendNext, IInv, TypeOK, Begun, socket, Sock
<1>2. CASE Receive
  <2> DEFINE r == parse_http_request(rx[turn])
             o == send_http_response_body(h, r)
  <2>1. h = Idle
    BY <1>1, <1>2 DEF Receive, IInv, Begun, Serving
  <2>2. r \in Requests
    <3>1. rx[turn] \in Seq(Piece) /\ rx[turn] # <<>> /\ parsed \in Requests
      BY <1>1, <1>2 DEF Receive, TypeOK
    <3>2. Head(rx[turn]) \in Piece
      BY <3>1
    <3> QED BY <3>1, <3>2 DEF parse_http_request, Piece
  <2>3. /\ out' = <<Header(Status(r))>> \o (IF r \in Content THEN <<o.bytes>> ELSE <<>>)
        /\ http' = IF r \in Content THEN [http EXCEPT ![turn] = o.http] ELSE http
        /\ parsed' = (IF r \in Cgi THEN "nonsense" ELSE r)
        /\ rx' = [rx EXCEPT ![turn] = <<>>]
    BY <1>2 DEF Receive, http_process_handler
  <2> HIDE DEF r
  <2>4. parsed' \in Requests /\ rx' \in [Sockets -> Seq(Piece)]
    BY <1>1, <2>2, <2>3 DEF TypeOK, Requests
  <2>5. Header(Status(r)) \in Seq(Byte)
    BY <2>2, HeaderType
  <2>6. CASE r \in Content
    <3>1. PICK m \in Nat :
            /\ h.file_offset <= m /\ o.bytes = Bytes(r, h.file_offset, m)
            /\ o.http \in Sock
            /\ IF m = Length[r] THEN o.http.file_len = 0
               ELSE /\ m < Length[r] /\ o.http.file_len = Length[r]
                    /\ o.http.file_start = r /\ o.http.file_offset = m
      <4>1. ~(h.file_len > 0)
        BY <2>1 DEF Idle
      <4> QED BY <1>1, <2>1, <2>6, <4>1, SendBody
    <3> HIDE DEF o
    <3>2. o.bytes \in Seq(Byte)
      BY <1>1, <2>2, <3>1, BytesType
    <3>3. out' \in Seq(Seq(Byte))
      BY <2>3, <2>5, <2>6, <3>2
    <3>4. http' = [http EXCEPT ![turn] = o.http] /\ http' \in [Sockets -> Sock]
      BY <1>1, <2>3, <2>6, <3>1 DEF TypeOK
    <3>5. TypeOK'
      BY <1>1, <2>4, <3>3, <3>4 DEF TypeOK
    <3>6. Begun'
      BY <1>1, <2>6, <3>1, <3>4 DEF IInv, Begun, Serving, TypeOK
    <3> QED BY <3>5, <3>6 DEF IInv
  <2>7. CASE r \notin Content
    <3>1. out' = <<Header(Status(r))>> /\ http' = http
      BY <2>3, <2>5, <2>7
    <3>2. TypeOK'
      BY <1>1, <2>4, <2>5, <3>1 DEF TypeOK
    <3>3. Begun'
      BY <1>1, <3>1 DEF IInv, Begun, Serving
    <3> QED BY <3>2, <3>3 DEF IInv
  <2> QED BY <2>6, <2>7
<1>3. CASE SendNext
  <2> DEFINE o == send_http_response_body(h, NoRequest)
  <2>1. h.file_len > 0
    BY <1>1, <1>3 DEF SendNext, IInv, Begun, Serving
  <2>2. out' = <<o.bytes>> /\ http' = [http EXCEPT ![turn] = o.http] /\ UNCHANGED <<parsed, rx>>
    BY <1>3 DEF SendNext, socket
  <2>3. PICK m \in Nat :
          /\ h.file_offset <= m /\ o.bytes = Bytes(h.file_start, h.file_offset, m)
          /\ o.http \in Sock
          /\ IF m = Length[h.file_start] THEN o.http.file_len = 0
             ELSE /\ m < Length[h.file_start] /\ o.http.file_len = Length[h.file_start]
                  /\ o.http.file_start = h.file_start /\ o.http.file_offset = m
    BY <1>1, <2>1, SendBody
  <2> HIDE DEF o
  <2>4. o.bytes \in Seq(Byte)
    BY <1>1, <2>1, <2>3, BytesType, LengthType
  <2>5. TypeOK'
    BY <1>1, <2>2, <2>3, <2>4 DEF TypeOK
  <2>6. Begun'
    BY <1>1, <2>1, <2>2, <2>3 DEF IInv, Begun, Serving, TypeOK
  <2> QED BY <2>5, <2>6 DEF IInv
<1> QED BY <1>2, <1>3

\* The rest of httpServer_run.
LEMMA RunStep ==
  ASSUME IInv, Send \/ Sent \/ ResDone \/ CloseWait \/ Reopen \/ Nothing
  PROVE  TypeOK' /\ Begun'
<1>0. TypeOK /\ turn \in Sockets
  BY DEF IInv, TypeOK
<1>1. CASE Send
  <2>1. Head(out) \in Seq(Byte) /\ Tail(out) \in Seq(Seq(Byte))
    BY <1>0, <1>1 DEF Send, TypeOK
  <2>2. got[turn] \o Head(out) \in Seq(Byte)
    BY <1>0, <2>1 DEF TypeOK
  <2>3. got' \in [Sockets -> Seq(Byte)] /\ tx' \in [Sockets -> BOOLEAN]
    BY <1>0, <1>1, <2>2 DEF Send, TypeOK, Up
  <2>4. TypeOK'
    BY <1>0, <1>1, <2>1, <2>3 DEF Send, TypeOK
  <2> QED BY <1>1, <2>4 DEF Send, IInv, Begun, Serving
<1>2. CASE Sent
  <2> DEFINE h == http[turn]
  <2>1. /\ http' = [http EXCEPT ![turn] = [h EXCEPT !.sock_status = IF h.file_len > 0 THEN "INPROC" ELSE "DONE"]]
        /\ turn' \in Sockets /\ inside /\ inside' = FALSE /\ UNCHANGED <<load, out, parsed, socket>>
    BY <1>0, <1>2, ReturnType DEF Sent
  <2>2. http' \in [Sockets -> Sock]
    BY <1>0, <2>1, ZenonT(60) DEF TypeOK, Sock, Statuses
  <2>3. TypeOK'
    BY <1>0, <2>1, <2>2 DEF TypeOK, socket
  <2>4. Begun'
    <3> SUFFICES ASSUME NEW s \in Sockets
                 PROVE  /\ http'[s].file_len > 0 =>
                             /\ http'[s].file_start \in Content
                             /\ http'[s].file_len = Length[http'[s].file_start]
                             /\ http'[s].file_offset < http'[s].file_len
                        /\ http'[s].sock_status = "IDLE" => http'[s] = Idle
                        /\ http'[s].sock_status = "INPROC" <=> http'[s].file_len > 0
      BY <2>1 DEF Begun, Serving
    <3>1. CASE s = turn
      <4>1. /\ http'[s].file_len = h.file_len /\ http'[s].file_start = h.file_start
            /\ http'[s].file_offset = h.file_offset
            /\ http'[s].sock_status = IF h.file_len > 0 THEN "INPROC" ELSE "DONE"
        BY <1>0, <2>1, <3>1 DEF TypeOK, Sock
      <4> QED BY <1>0, <3>1, <4>1 DEF IInv, Begun
    <3>2. CASE s # turn
      BY <1>0, <2>1, <3>2 DEF IInv, Begun, Serving, TypeOK
    <3> QED BY <3>1, <3>2
  <2> QED BY <2>3, <2>4 DEF IInv
<1>3. CASE ResDone
  <2>1. Idle \in Sock
    BY DEF Idle, Sock, Statuses
  <2>2. TypeOK'
    BY <1>0, <1>3, <2>1, ReturnType DEF ResDone, TypeOK, SockStates
  <2>3. Begun'
    BY <1>0, <1>3, <2>1 DEF ResDone, IInv, TypeOK, Begun, Serving, Idle
  <2> QED BY <2>2, <2>3 DEF IInv
<1>4. CASE CloseWait
  <2>1. TypeOK'
    BY <1>0, <1>4, ClosedType, ReturnType DEF CloseWait, TypeOK
  <2> QED BY <1>4, <2>1 DEF CloseWait, IInv, Begun, Serving
<1>5. CASE Reopen
  <2>1. TypeOK'
    BY <1>0, <1>5, ReturnType DEF Reopen, TypeOK, SockStates
  <2> QED BY <1>5, <2>1 DEF Reopen, IInv, Begun, Serving
<1>6. CASE Nothing
  <2>1. TypeOK'
    BY <1>0, <1>6, ReturnType DEF Nothing, TypeOK, socket
  <2> QED BY <1>6, <2>1 DEF Nothing, IInv, Begun, Serving
<1> QED BY <1>1, <1>2, <1>3, <1>4, <1>5, <1>6

\* What the peers and the network do touches HTTPSock_Status nowhere.
LEMMA PeerStep ==
  ASSUME IInv, NEW s \in Sockets, Peer(s)
  PROVE  TypeOK' /\ Begun'
<1>0. TypeOK /\ UNCHANGED <<load, turn, out, inside, parsed, http>>
  BY DEF IInv, Peer, Connect, Ask, AskRest, Acknowledge, Finish, CloseEarly, Reset
<1>1. CASE Connect(s) \/ Acknowledge(s) \/ CloseEarly(s)
  <2>1. TypeOK'
    BY <1>0, <1>1 DEF Connect, Acknowledge, CloseEarly, TypeOK, SockStates
  <2> QED BY <1>0, <2>1 DEF IInv, Begun, Serving
<1>2. CASE Finish(s) \/ Reset(s)
  <2>1. TypeOK'
    BY <1>0, <1>2, ClosedType DEF Finish, Reset, TypeOK
  <2> QED BY <1>0, <2>1 DEF IInv, Begun, Serving
<1>3. CASE Ask(s)
  <2>1. PICK r \in Requests, part \in {"whole", "front"} :
          /\ asked' = [asked EXCEPT ![s] = r]
          /\ rx' = [rx EXCEPT ![s] = <<[r |-> r, part |-> part]>>]
    BY <1>3 DEF Ask
  <2>2. <<[r |-> r, part |-> part]>> \in Seq(Piece)
    BY DEF Piece
  <2>3. TypeOK'
    BY <1>0, <1>3, <2>1, <2>2 DEF Ask, TypeOK
  <2> QED BY <1>0, <2>3 DEF IInv, Begun, Serving
<1>4. CASE AskRest(s)
  <2> DEFINE p == [r |-> asked[s], part |-> "rest"]
  <2>1. p \in Piece /\ rx[s] \in Seq(Piece)
    BY <1>0, <1>4 DEF AskRest, IInv, TypeOK, Heard, Piece
  <2>2. Append(rx[s], p) \in Seq(Piece) /\ rx' = [rx EXCEPT ![s] = Append(rx[s], p)]
    BY <1>0, <1>4, <2>1 DEF AskRest, TypeOK
  <2> HIDE DEF p
  <2>3. TypeOK'
    BY <1>0, <1>4, <2>2 DEF AskRest, TypeOK
  <2> QED BY <1>0, <2>3 DEF IInv, Begun, Serving
<1> QED BY <1>1, <1>2, <1>3, <1>4 DEF Peer

\* A request is taken out of the buffer before the connection is closed.
LEMMA HeardStep ==
  ASSUME IInv, Next
  PROVE  Heard'
<1>0. TypeOK
  BY DEF IInv
<1>1. CASE httpServer_run
  <2>1. CASE Receive \/ CloseWait
    BY <1>0, <2>1 DEF Receive, CloseWait, Closed, IInv, Heard, TypeOK
  <2>2. CASE SendNext \/ Send \/ Sent \/ ResDone \/ Reopen \/ Nothing
    BY <2>2 DEF SendNext, Send, Sent, ResDone, Reopen, Nothing, socket, IInv, Heard
  <2> QED BY <1>1, <2>1, <2>2 DEF httpServer_run
<1>2. ASSUME NEW s \in Sockets, Peer(s) PROVE Heard'
  <2>1. CASE Connect(s) \/ Acknowledge(s) \/ CloseEarly(s)
    BY <2>1 DEF Connect, Acknowledge, CloseEarly, IInv, Heard
  <2>2. CASE Finish(s) \/ Reset(s)
    BY <1>0, <2>2 DEF Finish, Reset, Closed, IInv, Heard, TypeOK
  <2>3. CASE Ask(s)
    <3>1. NoRequest \notin Requests
      BY HttpConstants DEF Requests, NoRequest, Cgi
    <3> QED BY <1>0, <2>3, <3>1 DEF Ask, IInv, Heard, TypeOK
  <2>4. CASE AskRest(s)
    BY <1>0, <2>4 DEF AskRest, IInv, Heard, TypeOK
  <2> QED BY <1>2, <2>1, <2>2, <2>3, <2>4 DEF Peer
<1> QED BY <1>1, <1>2 DEF Next

\* Every step of a call, a peer or the network keeps the invariant.
LEMMA Inductive == ASSUME IInv, [Next]_vars PROVE IInv'
<1>1. CASE Next
  <2>1. Heard'
    BY <1>1, HeardStep
  <2>2. TypeOK' /\ Begun'
    BY <1>1, CallStep, RunStep, PeerStep DEF Next, httpServer_run
  <2> QED BY <2>1, <2>2 DEF IInv
<1>2. CASE UNCHANGED vars
  BY <1>2 DEF vars, socket, IInv, TypeOK, Begun, Heard, Serving
<1> QED BY <1>1, <1>2

\* So it holds in every state of httpServer_run's loop.
LEMMA InvariantHolds == Spec => []IInv
<1>1. Init => IInv
  BY InitHolds
<1>2. IInv /\ [Next]_vars => IInv'
  BY Inductive
<1> QED BY <1>1, <1>2, PTL DEF Spec

\* Every variable of the server keeps its type, HTTPSock_Status and the buffers
\* (httpServer.c:126-245) among them.
THEOREM TypeCorrect == Spec => []TypeOK
<1>1. IInv => TypeOK
  BY DEF IInv
<1> QED BY <1>1, InvariantHolds, PTL

\* Positioned: for every number of sockets, lengths and size of a part, what is left
\* of a content is a part of it, and a request finds HTTPSock_Status cleared.
THEOREM AlwaysPositioned == Spec => []Positioned
<1>1. IInv => Positioned
  BY DEF IInv, Begun, Positioned, Serving
<1> QED BY <1>1, InvariantHolds, PTL

-----------------------------------------------------------------------------
(* Answers.                                                                *)

\* The first k bytes of an answer, byte by byte.
LEMMA UptoType ==
  ASSUME NEW r \in Requests, NEW k \in Nat
  PROVE  /\ Upto(r, k) \in Seq(Byte) /\ Len(Upto(r, k)) = k + 1
         /\ Upto(r, k)[1] = [r |-> Status(r), i |-> 0]
         /\ \A i \in 1..k : Upto(r, k)[i + 1] = [r |-> r, i |-> i]
<1> DEFINE H == Header(Status(r))
           B == Bytes(r, 0, k)
<1>1. H \in Seq(Byte) /\ Len(H) = 1 /\ H[1] = [r |-> Status(r), i |-> 0]
  BY HeaderType DEF Header
<1>2. B \in Seq(Byte) /\ Len(B) = k /\ \A i \in 1..k : B[i] = [r |-> r, i |-> i]
  <2>1. 0 \in Nat /\ 0 <= k /\ k - 0 = k /\ \A i \in 1..k : 0 + i = i
    OBVIOUS
  <2>2. /\ B \in Seq(Byte) /\ Len(B) = k - 0
        /\ \A i \in 1..(k - 0) : B[i] = [r |-> r, i |-> 0 + i]
    BY <2>1, BytesType
  <2> HIDE DEF B
  <2> QED BY <2>1, <2>2
<1>3. Upto(r, k) = H \o B
  BY DEF Upto
<1> HIDE DEF H, B
<1>4. /\ H \o B \in Seq(Byte) /\ Len(H \o B) = k + 1
      /\ \A i \in 1..(1 + k) : (H \o B)[i] = IF i <= 1 THEN H[i] ELSE B[i - 1]
  <2>1. /\ H \o B \in Seq(Byte)
        /\ Len(H \o B) = Len(H) + Len(B)
        /\ \A i \in 1 .. Len(H) + Len(B) : (H \o B)[i] = IF i <= Len(H) THEN H[i] ELSE B[i - Len(H)]
    BY <1>1, <1>2, ConcatProperties
  <2> QED BY <1>1, <1>2, <2>1
<1>5. (H \o B)[1] = H[1]
  BY <1>4
<1>6. ASSUME NEW i \in 1..k PROVE (H \o B)[i + 1] = B[i]
  BY <1>4
<1> QED BY <1>1, <1>2, <1>3, <1>4, <1>5, <1>6

\* A part goes on where what was sent ends.
LEMMA UptoGrows ==
  ASSUME NEW r \in Requests, NEW k \in Nat, NEW m \in Nat, k <= m
  PROVE  Upto(r, k) \o Bytes(r, k, m) = Upto(r, m)
<1> DEFINE U == Upto(r, k)
           B == Bytes(r, k, m)
           V == Upto(r, m)
<1>1. /\ U \in Seq(Byte) /\ Len(U) = k + 1 /\ U[1] = [r |-> Status(r), i |-> 0]
      /\ \A i \in 1..k : U[i + 1] = [r |-> r, i |-> i]
  BY UptoType
<1>2. /\ V \in Seq(Byte) /\ Len(V) = m + 1 /\ V[1] = [r |-> Status(r), i |-> 0]
      /\ \A i \in 1..m : V[i + 1] = [r |-> r, i |-> i]
  BY UptoType
<1>3. B \in Seq(Byte) /\ Len(B) = m - k /\ \A i \in 1..(m - k) : B[i] = [r |-> r, i |-> k + i]
  BY BytesType
<1> HIDE DEF U, V, B
<1>4. /\ U \o B \in Seq(Byte) /\ Len(U \o B) = m + 1
      /\ \A i \in 1..(m + 1) : (U \o B)[i] = IF i <= k + 1 THEN U[i] ELSE B[i - (k + 1)]
  BY <1>1, <1>3, ConcatProperties
<1>5. ASSUME NEW i \in 1..(m + 1) PROVE (U \o B)[i] = V[i]
  <2>1. CASE i = 1
    BY <1>1, <1>2, <1>4, <2>1
  <2>2. CASE i > 1 /\ i <= k + 1
    <3>1. i - 1 \in 1..k /\ i - 1 \in 1..m /\ (i - 1) + 1 = i
      BY <2>2
    <3>2. U[i] = [r |-> r, i |-> i - 1] /\ V[i] = [r |-> r, i |-> i - 1]
      BY <1>1, <1>2, <3>1
    <3> QED BY <1>4, <2>2, <3>2
  <2>3. CASE i > k + 1
    <3>1. i - 1 \in 1..m /\ (i - 1) + 1 = i /\ i - (k + 1) \in 1..(m - k) /\ k + (i - (k + 1)) = i - 1
      BY <2>3
    <3>2. B[i - (k + 1)] = [r |-> r, i |-> i - 1] /\ V[i] = [r |-> r, i |-> i - 1]
      BY <1>2, <1>3, <3>1
    <3> QED BY <1>4, <2>3, <3>2
  <2>4. i = 1 \/ (i > 1 /\ i <= k + 1) \/ i > k + 1
    OBVIOUS
  <2> QED BY <2>1, <2>2, <2>3, <2>4
<1>6. U \o B = V
  BY <1>2, <1>4, <1>5, SeqEqual
<1> QED BY <1>6 DEF U, V, B

\* The empty sequence, and whatever has been sent of an answer, are prefixes of it.
LEMMA UptoPrefix ==
  ASSUME NEW r \in Requests, NEW m \in Nat
  PROVE  /\ IsPrefix(<<>>, Upto(r, m))
         /\ \A k \in 0..m : IsPrefix(Upto(r, k), Upto(r, m))
<1> DEFINE V == Upto(r, m)
<1>1. V \in Seq(Byte) /\ Len(V) = m + 1
  BY UptoType
<1>2. ASSUME NEW k \in 0..m PROVE IsPrefix(Upto(r, k), Upto(r, m))
  <2> DEFINE U == Upto(r, k)
             B == Bytes(r, k, m)
  <2>0. k \in Nat /\ k <= m
    OBVIOUS
  <2>1. U \in Seq(Byte) /\ Len(U) = k + 1
    BY <2>0, UptoType
  <2>2. B \in Seq(Byte)
    BY <2>0, BytesType
  <2>3. V = U \o B
    BY <2>0, UptoGrows
  <2> HIDE DEF U, V, B
  <2>4. SubSeq(U, 1, Len(U)) = U
    BY <2>1, SubSeqFull
  <2>5. SubSeq(U \o B, 1, Len(U)) = U
    BY <2>1, <2>2, SubSeqOfConcat1, <2>4
  <2>6. Len(U) <= Len(V)
    BY <1>1, <2>1
  <2>7. IsPrefix(U, V)
    BY <2>3, <2>4, <2>5, <2>6 DEF IsPrefix
  <2> QED BY <2>7 DEF U, V
<1> HIDE DEF V
<1>3. IsPrefix(<<>>, V)
  BY <1>1 DEF IsPrefix
<1> QED BY <1>2, <1>3 DEF V

\* The whole answer.
LEMMA AnswerIs ==
  ASSUME NEW r \in Requests
  PROVE  /\ r # NoRequest /\ Body(r) \in Nat
         /\ Answer(r) = Upto(r, Body(r)) /\ Upto(r, 0) = Header(Status(r))
<1>1. r # NoRequest /\ Body(r) \in Nat
  BY HttpConstants DEF Requests, NoRequest, Cgi, Body
<1>2. Bytes(r, 0, 0) = <<>>
  <2>1. Bytes(r, 0, 0) \in Seq(Byte) /\ Len(Bytes(r, 0, 0)) = 0
    BY BytesType
  <2> QED BY <2>1
<1>3. Header(Status(r)) \o <<>> = Header(Status(r))
  BY HeaderType
<1>4. Answer(r) = Upto(r, Body(r))
  BY <1>1, <1>2 DEF Answer, Upto, Body
<1> QED BY <1>1, <1>2, <1>3, <1>4 DEF Upto

\* A socket is left as it was by what happens to another.
LEMMA OthersKept ==
  ASSUME NEW s, Connection(s), ~Serving(s), ~Serving(s)',
         sr'[s] = sr[s], rx'[s] = rx[s], asked'[s] = asked[s], got'[s] = got[s], http'[s] = http[s]
  PROVE  Connection(s)'
BY DEF Connection, Waiting, Answered, Reached

\* What two sends have to send.
LEMMA Pair ==
  ASSUME NEW S, NEW a \in S, NEW b \in S
  PROVE  <<a>> \o <<b>> = <<a, b>>
<1> DEFINE s == <<a>>
           t == <<b>>
           u == <<a, b>>
<1>1. /\ s \in Seq(S) /\ t \in Seq(S) /\ u \in Seq(S)
      /\ Len(s) = 1 /\ Len(t) = 1 /\ Len(u) = 2 /\ s[1] = a /\ t[1] = b /\ u[1] = a /\ u[2] = b
  OBVIOUS
<1> HIDE DEF s, t, u
<1>2. /\ s \o t \in Seq(S) /\ Len(s \o t) = 2
      /\ \A i \in 1..(1 + 1) : (s \o t)[i] = IF i <= 1 THEN s[i] ELSE t[i - 1]
  BY <1>1, ConcatProperties
<1>3. (s \o t)[1] = u[1] /\ (s \o t)[2] = u[2]
  BY <1>1, <1>2
<1>4. ASSUME NEW i \in 1..2 PROVE (s \o t)[i] = u[i]
  <2>1. i = 1 \/ i = 2
    OBVIOUS
  <2> QED BY <1>3, <2>1
<1>5. s \o t = u
  BY <1>1, <1>2, <1>4, SeqEqual
<1> QED BY <1>5 DEF s, t, u

\* A call that takes a request sends the header and the first part of its answer.
LEMMA ReceiveKeeps ==
  ASSUME IInv, Connection(turn), Receive
  PROVE  Connection(turn)'
<1> DEFINE r == asked[turn]
           o == send_http_response_body(http[turn], r)
<1>1. /\ TypeOK /\ turn \in Sockets /\ inside' = TRUE /\ turn' = turn /\ sr[turn] = "ESTABLISHED"
      /\ UNCHANGED <<load, sr, tx, asked, got>> /\ rx' = [rx EXCEPT ![turn] = <<>>]
      /\ Serving(turn)'
  BY DEF Receive, IInv, TypeOK, Serving
<1>2. /\ rx[turn] = <<[r |-> r, part |-> "whole"]>> /\ got[turn] = <<>> /\ http[turn] = Idle
      /\ r # NoRequest
  BY DEF Receive, Connection, Waiting, Answered
<1>3. r \in Requests /\ parse_http_request(rx[turn]) = r
  BY <1>1, <1>2 DEF TypeOK, parse_http_request
<1>4. /\ out' = <<Header(Status(r))>> \o (IF r \in Content THEN <<o.bytes>> ELSE <<>>)
      /\ http' = IF r \in Content THEN [http EXCEPT ![turn] = o.http] ELSE http
  BY <1>3 DEF Receive, http_process_handler
<1>5. Answered(turn)'
  <2>1. CASE r \in Content
    <3>0. /\ http[turn] \in Sock /\ http[turn].file_offset = 0 /\ ~(http[turn].file_len > 0)
      BY <1>1, <1>2 DEF TypeOK, Idle
    <3>1. PICK m \in Nat :
            /\ o.bytes = Bytes(r, 0, m)
            /\ o.http \in Sock
            /\ IF m = Length[r] THEN o.http.file_len = 0
               ELSE /\ m < Length[r] /\ o.http.file_len = Length[r]
                    /\ o.http.file_start = r /\ o.http.file_offset = m
      BY <1>2, <2>1, <3>0, SendBody
    <3> HIDE DEF o
    <3>2. http'[turn] = o.http /\ out' = <<Header(Status(r)), Bytes(r, 0, m)>>
      <4>1. http' = [http EXCEPT ![turn] = o.http] /\ out' = <<Header(Status(r))>> \o <<o.bytes>>
        BY <1>4, <2>1
      <4>2. http'[turn] = o.http
        BY <1>1, <4>1 DEF TypeOK
      <4>3. Header(Status(r)) \in Seq(Byte) /\ o.bytes \in Seq(Byte)
        <5>1. Header(Status(r)) \in Seq(Byte)
          BY <1>3, HeaderType
        <5>2. 0 \in Nat /\ 0 <= m
          BY <3>1
        <5>3. Bytes(r, 0, m) \in Seq(Byte)
          BY <1>3, <3>1, <5>2, BytesType
        <5> QED BY <3>1, <5>1, <5>3
      <4>4. <<Header(Status(r))>> \o <<o.bytes>> = <<Header(Status(r)), o.bytes>>
        BY <4>3, Pair
      <4> QED BY <3>1, <4>1, <4>2, <4>4
    <3>3. Reached(turn)' = m
      BY <1>1, <2>1, <3>1, <3>2, LengthType DEF Reached, Body
    <3>4. http'[turn].file_len > 0 => http'[turn].file_start = r
      BY <3>1, <3>2
    <3> QED BY <1>1, <1>2, <3>2, <3>3, <3>4 DEF Answered, TypeOK
  <2>2. CASE r \notin Content
    <3>1. out' = <<Header(Status(r))>> /\ http' = http
      BY <1>3, <1>4, <2>2, HeaderType
    <3>2. Reached(turn)' = 0 /\ ~(http[turn].file_len > 0)
      BY <1>1, <1>2, <2>2, <3>1 DEF Reached, Body, Idle
    <3> QED BY <1>1, <1>2, <3>1, <3>2 DEF Answered, TypeOK
  <2> QED BY <2>1, <2>2
<1> QED BY <1>1, <1>5 DEF Connection

\* A call that goes on with a content sends its next part.
LEMMA SendNextKeeps ==
  ASSUME IInv, Connection(turn), SendNext
  PROVE  Connection(turn)'
<1> DEFINE r == asked[turn]
           h == http[turn]
           o == send_http_response_body(h, NoRequest)
<1>1. /\ TypeOK /\ turn \in Sockets /\ inside' = TRUE /\ turn' = turn /\ sr[turn] = "ESTABLISHED"
      /\ UNCHANGED <<load, sr, rx, asked, got>> /\ ~Serving(turn) /\ Serving(turn)'
      /\ h \in Sock /\ h.sock_status = "INPROC"
  BY DEF SendNext, socket, IInv, TypeOK, Serving
<1>2. /\ h.file_len > 0 /\ h.file_start \in Content /\ h.file_len = Length[h.file_start]
      /\ h.file_offset < h.file_len /\ h.file_offset \in Nat
  BY <1>1 DEF IInv, Begun, Sock
<1>3. Answered(turn)
  BY <1>1 DEF Connection, Waiting, Idle
<1>4. r # NoRequest /\ rx[turn] = <<>> /\ h.file_start = r /\ got[turn] = Upto(r, h.file_offset)
  BY <1>1, <1>2, <1>3 DEF Answered, Reached
<1>5. PICK m \in Nat :
        /\ h.file_offset <= m /\ o.bytes = Bytes(r, h.file_offset, m)
        /\ o.http \in Sock
        /\ IF m = Length[r] THEN o.http.file_len = 0
           ELSE /\ m < Length[r] /\ o.http.file_len = Length[r]
                /\ o.http.file_start = r /\ o.http.file_offset = m
  BY <1>1, <1>2, <1>4, SendBody
<1>6. out' = <<o.bytes>> /\ http' = [http EXCEPT ![turn] = o.http]
  BY DEF SendNext
<1> HIDE DEF o
<1>7. out' = <<Bytes(r, h.file_offset, m)>> /\ http'[turn] = o.http
  BY <1>1, <1>5, <1>6 DEF TypeOK
<1>8. Reached(turn)' = m /\ h.file_offset \in 0..m
  BY <1>1, <1>2, <1>4, <1>5, <1>7 DEF Reached, Body
<1>9. Answered(turn)'
  BY <1>1, <1>4, <1>5, <1>7, <1>8 DEF Answered
<1> QED BY <1>1, <1>9 DEF Connection

\* A send hands one more piece of the answer to the peer.
LEMMA SendKeeps ==
  ASSUME IInv, Connection(turn), Send, load.whole
  PROVE  Connection(turn)'
<1> DEFINE r == asked[turn]
           m == Reached(turn)
<1>1. /\ TypeOK /\ turn \in Sockets /\ inside /\ inside' = inside /\ turn' = turn
      /\ out # <<>> /\ out' = Tail(out) /\ UNCHANGED <<load, sr, rx, asked, http>>
      /\ Serving(turn) /\ Serving(turn)'
  BY DEF Send, IInv, TypeOK, Serving
<1>2. sr[turn] = "ESTABLISHED" /\ Answered(turn)
  BY <1>1 DEF Connection, Waiting
<1>3. got'[turn] = got[turn] \o Head(out)
  BY <1>1, <1>2 DEF Send, Up, TypeOK
<1>4. /\ r \in Requests /\ r # NoRequest /\ rx[turn] = <<>> /\ Reached(turn)' = m
      /\ http[turn].file_len > 0 => http[turn].file_start = r
  BY <1>1, <1>2 DEF Answered, TypeOK, Reached
<1>5. m \in Nat
  BY <1>1, <1>4, AnswerIs DEF Reached, TypeOK, Sock
<1> DEFINE H == Header(Status(r))
<1>6. H \in Seq(Byte) /\ H = Upto(r, 0) /\ <<>> \o H = H
  BY <1>4, HeaderType, AnswerIs
<1> HIDE DEF m, H
<1>7. \/ \E k \in 0..m : out = <<Bytes(r, k, m)>> /\ got[turn] = Upto(r, k)
      \/ out = <<H>> /\ got[turn] = <<>> /\ m = 0
      \/ out = <<H, Bytes(r, 0, m)>> /\ got[turn] = <<>>
  BY <1>1, <1>2 DEF Answered, m, H
<1>8. \/ out' = <<>> /\ got'[turn] = Upto(r, m)
      \/ \E k \in 0..m : out' = <<Bytes(r, k, m)>> /\ got'[turn] = Upto(r, k)
  <2>1. ASSUME NEW k \in 0..m, out = <<Bytes(r, k, m)>>, got[turn] = Upto(r, k)
        PROVE  out' = <<>> /\ got'[turn] = Upto(r, m)
    <3>0. k \in Nat /\ k <= m
      BY <1>5
    <3>1. Upto(r, k) \o Bytes(r, k, m) = Upto(r, m)
      BY <1>4, <1>5, <3>0, UptoGrows
    <3> QED BY <1>1, <1>3, <2>1, <3>1
  <2>2. CASE out = <<H>> /\ got[turn] = <<>> /\ m = 0
    BY <1>1, <1>3, <1>6, <2>2
  <2>3. CASE out = <<H, Bytes(r, 0, m)>> /\ got[turn] = <<>>
    <3>1. out' = <<Bytes(r, 0, m)>> /\ got'[turn] = Upto(r, 0) /\ 0 \in 0..m
      BY <1>1, <1>3, <1>5, <1>6, <2>3
    <3> QED BY <3>1
  <2> QED BY <1>7, <2>1, <2>2, <2>3
<1>9. Answered(turn)'
  BY <1>1, <1>4, <1>8 DEF Answered
<1> QED BY <1>1, <1>2, <1>9 DEF Connection

\* The other calls for a socket: the wait behind the sends, the end of the answer, the
\* reopening of a closed socket, and the call that finds nothing to do.
LEMMA RestKeeps ==
  ASSUME IInv, NEW s, s = turn, Connection(s), Sent \/ ResDone \/ CloseWait \/ Reopen \/ Nothing
  PROVE  Connection(s)'
<1>0. TypeOK /\ s \in Sockets
  BY DEF IInv, TypeOK
<1> DEFINE h == http[s]
<1>1. CASE Sent
  <2>1. /\ Serving(s) /\ ~Serving(s)' /\ out = <<>> /\ UNCHANGED <<sr, rx, asked, got>>
        /\ http' = [http EXCEPT ![s].sock_status = IF h.file_len > 0 THEN "INPROC" ELSE "DONE"]
    BY <1>1 DEF Sent, Serving, socket
  <2>2. sr[s] = "ESTABLISHED" /\ Answered(s) /\ got[s] = Upto(asked[s], Reached(s))
    BY <2>1 DEF Connection, Waiting, Answered
  <2>3. /\ http'[s].file_len = h.file_len /\ http'[s].file_start = h.file_start
        /\ http'[s].file_offset = h.file_offset /\ http'[s].sock_status # "IDLE"
    BY <1>0, <2>1 DEF TypeOK, Sock
  <2>4. Reached(s)' = Reached(s)
    BY <2>1, <2>3 DEF Reached
  <2>5. Answered(s)'
    BY <2>1, <2>2, <2>3, <2>4 DEF Answered
  <2> QED BY <2>1, <2>2, <2>5 DEF Connection
<1>2. CASE ResDone
  <2>1. /\ ~Serving(s) /\ ~Serving(s)' /\ sr[s] = "ESTABLISHED" /\ sr'[s] = "FIN_WAIT"
        /\ UNCHANGED <<rx, asked, got>> /\ http'[s] = Idle /\ h.sock_status = "DONE"
    BY <1>0, <1>2 DEF ResDone, Serving, TypeOK
  <2>2. Answered(s)
    BY <2>1 DEF Connection, Waiting, Idle
  <2>3. ~(h.file_len > 0)
    BY <1>0, <2>1 DEF IInv, Begun
  <2> QED BY <2>1, <2>2, <2>3 DEF Connection, Answered, Reached
<1>3. CASE CloseWait
  BY <1>3 DEF CloseWait, Connection
<1>4. CASE Reopen
  <2>1. /\ ~Serving(s) /\ ~Serving(s)' /\ sr'[s] \in {"INIT", "LISTEN"} /\ sr[s] \in {"CLOSED", "INIT"}
        /\ UNCHANGED <<rx, asked, got, http>>
    BY <1>0, <1>4 DEF Reopen, Serving, TypeOK
  <2> QED BY <2>1 DEF Connection, Waiting
<1>5. CASE Nothing
  <2>1. ~Serving(s) /\ ~Serving(s)' /\ UNCHANGED <<sr, rx, asked, got, http>>
    BY <1>5 DEF Nothing, Serving, socket
  <2> QED BY <2>1, OthersKept
<1> QED BY <1>1, <1>2, <1>3, <1>4, <1>5

\* A peer that asks in one piece, waits and closes behind the device.
LEMMA PatientKeeps ==
  ASSUME IInv, NEW s \in Sockets, Connection(s), Peer(s), load.peers = {}
  PROVE  Connection(s)'
<1>0. TypeOK /\ UNCHANGED <<load, turn, out, inside, parsed, http>> /\ Serving(s)' = Serving(s)
  BY DEF IInv, Peer, Connect, Ask, AskRest, Acknowledge, Finish, CloseEarly, Reset, Serving
<1>1. CASE Connect(s)
  <2>1. sr[s] = "LISTEN" /\ sr'[s] = "ESTABLISHED" /\ UNCHANGED <<rx, asked, got, http>>
    BY <1>0, <1>1 DEF Connect, TypeOK
  <2> QED BY <1>0, <2>1 DEF Connection, Waiting
<1>2. CASE Ask(s)
  <2>1. Waiting(s)
    BY <1>2 DEF Ask, Connection, Answered
  <2>2. PICK r \in Requests :
          asked' = [asked EXCEPT ![s] = r] /\ rx' = [rx EXCEPT ![s] = <<[r |-> r, part |-> "whole"]>>]
    BY <1>2 DEF Ask
  <2>3. asked'[s] = r /\ rx'[s] = <<[r |-> r, part |-> "whole"]>> /\ r # NoRequest
    BY <1>0, <2>2, AnswerIs DEF TypeOK
  <2>4. Waiting(s)'
    BY <1>0, <1>2, <2>1, <2>3 DEF Ask, Waiting
  <2> QED BY <1>2, <2>4 DEF Ask, Connection
<1>3. CASE AskRest(s)
  <2>1. rx[s] = <<[r |-> asked[s], part |-> "whole"]>>
    BY <1>3 DEF AskRest, Connection, Waiting, Answered
  <2>2. Last(rx[s]).part = "whole"
    BY <2>1 DEF Last
  <2> QED BY <1>3, <2>2 DEF AskRest
<1>4. CASE Acknowledge(s)
  BY <1>0, <1>4 DEF Acknowledge, Connection, Waiting, Answered, Reached, Serving
<1>5. CASE Finish(s)
  <2>1. /\ sr[s] = "FIN_WAIT" /\ sr'[s] = "CLOSED" /\ rx'[s] = <<>> /\ asked'[s] = NoRequest
        /\ got'[s] = <<>> /\ http' = http
    BY <1>0, <1>5 DEF Finish, Closed, TypeOK
  <2> QED BY <1>0, <2>1 DEF Connection, Waiting
<1>6. ~CloseEarly(s) /\ ~Reset(s)
  BY DEF CloseEarly, Reset
<1> QED BY <1>1, <1>2, <1>3, <1>4, <1>5, <1>6 DEF Peer

\* While only patient peers come, every step keeps every connection right.
LEMMA AnswersStep ==
  ASSUME PatientLoads, IInv, Answers, [Next]_vars
  PROVE  Answers'
<1> SUFFICES ASSUME load.whole', NEW s \in Sockets
             PROVE  Connection(s)'
  BY DEF Answers
<1>1. TypeOK /\ turn \in Sockets /\ load' = load
  BY DEF IInv, TypeOK, Next, httpServer_run, Receive, SendNext, Send, Sent, ResDone, CloseWait,
         Reopen, Nothing, Peer, Connect, Ask, AskRest, Acknowledge, Finish, CloseEarly, Reset,
         vars
<1>2. load.whole /\ load.peers = {} /\ Connection(s) /\ Connection(turn)
  BY <1>1 DEF PatientLoads, Answers, TypeOK
<1>3. CASE httpServer_run
  <2>1. CASE s = turn
    <3>1. CASE Receive \/ SendNext \/ Send
      <4>1. turn' = turn
        BY <3>1 DEF Receive, SendNext, Send
      <4> QED BY <1>2, <2>1, <3>1, <4>1, ReceiveKeeps, SendNextKeeps, SendKeeps
    <3>2. CASE Sent \/ ResDone \/ CloseWait \/ Reopen \/ Nothing
      BY <1>2, <2>1, <3>2, RestKeeps
    <3> QED BY <1>3, <3>1, <3>2 DEF httpServer_run
  <2>2. CASE s # turn
    <3>1. ~Serving(s) /\ ~Serving(s)'
      <4>1. CASE Receive \/ SendNext \/ Send
        BY <2>2, <4>1 DEF Serving, Receive, SendNext, Send
      <4>2. CASE Sent \/ ResDone \/ CloseWait \/ Reopen \/ Nothing
        <5>1. inside' = FALSE
          BY <4>2, <1>1 DEF Sent, ResDone, CloseWait, Reopen, Nothing, TypeOK
        <5> QED BY <2>2, <5>1 DEF Serving
      <4> QED BY <1>3, <4>1, <4>2 DEF httpServer_run
    <3>2. http'[s] = http[s]
      BY <1>1, <1>3, <2>2 DEF httpServer_run, Receive, http_process_handler, SendNext, Send, Sent,
                              ResDone, CloseWait, Reopen, Nothing, TypeOK
    <3>3. /\ sr'[s] = sr[s] /\ rx'[s] = rx[s]
          /\ asked'[s] = asked[s] /\ got'[s] = got[s]
      BY <1>1, <1>3, <2>2 DEF httpServer_run, Receive, SendNext, Send, Sent, ResDone, CloseWait,
                              Closed, Reopen, Nothing, socket, TypeOK
    <3> QED BY <1>2, <3>1, <3>2, <3>3, OthersKept
  <2> QED BY <2>1, <2>2
<1>4. ASSUME NEW p \in Sockets, Peer(p) PROVE Connection(s)'
  <2>1. CASE p = s
    BY <1>2, <1>4, <2>1, PatientKeeps
  <2>2. CASE p # s
    <3>1. /\ UNCHANGED <<turn, out, inside, http>>
          /\ sr'[s] = sr[s] /\ rx'[s] = rx[s] /\ asked'[s] = asked[s] /\ got'[s] = got[s]
      BY <1>1, <1>4, <2>2 DEF Peer, Connect, Ask, AskRest, Acknowledge, Finish, Closed, CloseEarly,
                              Reset, TypeOK
    <3> QED BY <1>2, <3>1 DEF Connection, Waiting, Answered, Reached, Serving
  <2> QED BY <2>1, <2>2
<1>5. CASE UNCHANGED vars
  BY <1>2, <1>5 DEF vars, socket, Connection, Waiting, Answered, Reached, Serving
<1> QED BY <1>3, <1>4, <1>5 DEF Next

\* What a connection that is right has been sent.
LEMMA AnswersMean ==
  ASSUME IInv, Answers
  PROVE  AnswersRequest
<1> SUFFICES ASSUME load.whole, NEW s \in Sockets
             PROVE  /\ IsPrefix(got[s], Answer(asked[s]))
                    /\ sr[s] = "FIN_WAIT" => got[s] = Answer(asked[s])
  BY DEF AnswersRequest
<1> DEFINE r == asked[s]
<1>1. Connection(s) /\ TypeOK
  BY DEF Answers, IInv
<1>2. CASE r = NoRequest
  <2>1. got[s] = <<>> /\ Answer(r) = <<>> /\ sr[s] # "FIN_WAIT"
    BY <1>1, <1>2 DEF Connection, Waiting, Answered, Answer
  <2>2. IsPrefix(<<>>, <<>>)
    BY DEF IsPrefix
  <2> QED BY <2>1, <2>2
<1>3. CASE r # NoRequest
  <2>1. r \in Requests
    BY <1>1, <1>3 DEF TypeOK
  <2>2. Body(r) \in Nat /\ Answer(r) = Upto(r, Body(r)) /\ Upto(r, 0) = Header(Status(r))
    BY <2>1, AnswerIs
  <2>3. /\ IsPrefix(<<>>, Answer(r))
        /\ \A k \in 0..Body(r) : IsPrefix(Upto(r, k), Answer(r))
    BY <2>1, <2>2, UptoPrefix
  <2>4. CASE sr[s] = "FIN_WAIT"
    <3>1. got[s] = Upto(r, Body(r)) /\ Body(r) \in 0..Body(r)
      BY <1>1, <2>2, <2>4 DEF Connection
    <3> QED BY <2>2, <2>3, <3>1
  <2>5. CASE sr[s] # "FIN_WAIT"
    <3>1. Waiting(s) \/ Answered(s)
      BY <1>1, <2>5 DEF Connection
    <3>2. CASE Waiting(s)
      BY <2>3, <2>5, <3>2 DEF Waiting
    <3>3. CASE Answered(s)
      <4>1. Reached(s) \in 0..Body(r)
        BY <1>1, <2>2, <3>3 DEF IInv, Begun, TypeOK, Sock, Answered, Reached, Body
      <4> DEFINE m == Reached(s)
      <4> HIDE DEF m
      <4>2. \A k \in 0..m : k \in 0..Body(r)
        BY <2>2, <4>1 DEF m
      <4>3. got[s] = <<>> \/ got[s] = Upto(r, m) \/ \E k \in 0..m : got[s] = Upto(r, k)
        BY <3>3 DEF Answered, m
      <4>4. got[s] = <<>> \/ \E k \in 0..Body(r) : got[s] = Upto(r, k)
        BY <4>1, <4>2, <4>3 DEF m
      <4> QED BY <2>3, <2>5, <4>4
    <3> QED BY <3>1, <3>2, <3>3
  <2> QED BY <2>4, <2>5
<1> QED BY <1>2, <1>3

\* AnswersRequest: for every number of sockets, every length of a content and every
\* size of a part, a peer that sends its request in one piece and waits gets the answer
\* to it and no other, from its first byte on (httpServer.c:147-225, 331-377, 432-442).
THEOREM AnswersRight == ASSUME PatientLoads PROVE Spec => []AnswersRequest
<1>1. Init => Answers
  BY DEF Init, Answers, Connection, Waiting, Serving
<1>2. IInv /\ Answers /\ [Next]_vars => Answers'
  BY AnswersStep
<1>3. IInv /\ Answers => AnswersRequest
  BY AnswersMean
<1> QED BY <1>1, <1>2, <1>3, InvariantHolds, PTL DEF Spec
===============================================================================
