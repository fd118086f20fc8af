------------------------------ MODULE HttpServer ------------------------------
(***************************************************************************)
(* The plain HTTP server of port/app/http_server: httpServer_run is called *)
(* for one socket after the other, and each call takes one step of that    *)
(* socket's connection.  A short content is answered in one call, a long   *)
(* one in parts, a part a call; what is left of it is kept in              *)
(* HTTPSock_Status, which belongs to the socket and not to the connection. *)
(* The request is parsed into one buffer that all sockets share and that   *)
(* the CGI answers are composed in.                                        *)
(*                                                                         *)
(* A request is named by the content it asks for, or by the answer it      *)
(* gets.  A connection carries one request and its answer.  A byte of an   *)
(* answer is the request it answers and its position, 0 for the header.    *)
(***************************************************************************)
EXTENDS Naturals, Sequences, SequencesExt

CONSTANTS
  Socks,   \* sockets that httpServer_Sockinit has been given
  Content, \* the contents registered with reg_httpServer_webContent
  Length,  \* their lengths
  Part,    \* DATA_BUF_SIZE - 1
  Loads    \* what the peers may do besides, of one instance

\* closes, resets: a peer closes or resets the connection before it is answered.
\* parts: a request arrives in two pieces.  whole: answers are claimed to be right.
Load == [peers : SUBSET {"closes", "resets", "parts"}, whole : BOOLEAN]

ASSUME HttpConstants ==
  /\ Socks \in Nat \ {0} /\ Part \in Nat \ {0} /\ Loads \subseteq Load
  /\ Length \in [Content -> Nat \ {0}] /\ "none" \notin Content

VARIABLES
  load,    \* the load of this behaviour
  turn,    \* the socket httpServer_run is called for
  out,     \* what this call has still to send
  inside,  \* the call is at its sends, or at the wait behind them
  parsed,  \* parsed_http_request, in pHTTP_TX
  http,    \* HTTPSock_Status
  sr,      \* the state of each socket
  rx, tx,  \* what waits in its receive buffer; something sent is not acknowledged
  asked,   \* the request of its peer
  got      \* what has been sent to that peer, where load.whole claims it is right

socket == <<sr, rx, tx, asked, got>>
vars   == <<load, turn, out, inside, parsed, http, socket>>

Sockets   == 0..(Socks - 1)
NoRequest == "none"
Cgi       == {"cgi", "long"}
Requests  == Content \union Cgi \union {"missing", "nonsense"}
Up(s)     == sr[s] \in {"ESTABLISHED", "CLOSE_WAIT"}
Idle      == [sock_status |-> "IDLE", file_start |-> NoRequest,
              file_len |-> 0, file_offset |-> 0]

-----------------------------------------------------------------------------
(* Requests and answers *)

Bytes(r, from, to) == [i \in 1..(to - from) |-> [r |-> r, i |-> from + i]]
Header(r)          == <<[r |-> r, i |-> 0]>>

\* An answer of a CGI handler that does not fit the buffer becomes a 404.
Status(r) == IF r = "long" THEN "missing" ELSE r

\* What a peer that asks for r has to get.
Answer(r) == IF r = NoRequest THEN <<>>
             ELSE Header(Status(r)) \o (IF r \in Content THEN Bytes(r, 0, Length[r]) ELSE <<>>)

\* Without the end of a header parsed_http_request stays as it was.
parse_http_request(pieces) ==
  IF \A i \in DOMAIN pieces : pieces[i].part = "front" THEN parsed ELSE Head(pieces).r

\* Mutant: the last part is taken for one that fills the buffer no more.
LastPart_Short(left) == left < Part

LastPart(left) == left <= Part

\* What is sent of content c, and HTTPSock_Status behind it.  A content longer
\* than a part is begun; one that is begun goes on where it stopped.
send_http_response_body(h, c) ==
  LET begun == h.file_len > 0
      start == IF begun THEN h.file_start ELSE c
      left  == IF begun THEN h.file_len - h.file_offset ELSE Length[c]
      n     == IF left > Part THEN Part ELSE left
  IN [bytes |-> Bytes(start, h.file_offset, h.file_offset + n),
      http  |-> IF begun /\ LastPart(left) THEN [Idle EXCEPT !.sock_status = h.sock_status]
                ELSE IF begun \/ left <= Part THEN [h EXCEPT !.file_offset = @ + n]
                ELSE [h EXCEPT !.file_offset = @ + n, !.file_start = start, !.file_len = left]]

-----------------------------------------------------------------------------
(* httpServer_run *)

Init ==
  /\ load \in Loads /\ turn = 0 /\ out = <<>> /\ inside = FALSE /\ parsed = "nonsense"
  /\ http = [s \in Sockets |-> Idle] /\ sr = [s \in Sockets |-> "CLOSED"]
  /\ rx = [s \in Sockets |-> <<>>] /\ tx = [s \in Sockets |-> FALSE]
  /\ asked = [s \in Sockets |-> NoRequest] /\ got = [s \in Sockets |-> <<>>]

Return == turn' = (turn + 1) % Socks

\* recv, parse_http_request and http_process_handler up to the first send.  A
\* CGI answer is composed where the request was: what is left there has no method.
http_process_handler(r) ==
  LET first == send_http_response_body(http[turn], r)
  IN /\ out' = <<Header(Status(r))>> \o (IF r \in Content THEN <<first.bytes>> ELSE <<>>)
     /\ http' = IF r \in Content THEN [http EXCEPT ![turn] = first.http] ELSE http
     /\ parsed' = IF r \in Cgi THEN "nonsense" ELSE r

Receive ==
  /\ ~inside /\ sr[turn] = "ESTABLISHED" /\ http[turn].sock_status = "IDLE"
  /\ rx[turn] # <<>>
  /\ http_process_handler(parse_http_request(rx[turn]))
  /\ rx' = [rx EXCEPT ![turn] = <<>>] /\ inside' = TRUE
  /\ UNCHANGED <<load, turn, sr, tx, asked, got>>

SendNext ==
  /\ ~inside /\ sr[turn] = "ESTABLISHED" /\ http[turn].sock_status = "INPROC"
  /\ LET next == send_http_response_body(http[turn], NoRequest)
     IN out' = <<next.bytes>> /\ http' = [http EXCEPT ![turn] = next.http]
  /\ inside' = TRUE
  /\ UNCHANGED <<load, turn, parsed, socket>>

\* send() waits for what was sent before; its result is not looked at.
Send ==
  /\ inside /\ out # <<>> /\ ~tx[turn]
  /\ out' = Tail(out)
  /\ tx' = [tx EXCEPT ![turn] = Up(turn)]
  /\ got' = IF Up(turn) /\ load.whole THEN [got EXCEPT ![turn] = @ \o Head(out)] ELSE got
  /\ UNCHANGED <<load, turn, inside, parsed, http, sr, rx, asked>>

\* Behind the first part the call waits until all is acknowledged: nothing counts
\* the seconds it would give that.
Sent ==
  /\ inside /\ out = <<>>
  /\ http[turn].sock_status = "IDLE" => ~tx[turn]
  /\ http' = [http EXCEPT ![turn].sock_status = IF http[turn].file_len > 0 THEN "INPROC" ELSE "DONE"]
  /\ inside' = FALSE /\ Return
  /\ UNCHANGED <<load, out, parsed, socket>>

Closed(s) ==
  /\ sr' = [sr EXCEPT ![s] = "CLOSED"]
  /\ rx' = [rx EXCEPT ![s] = <<>>] /\ tx' = [tx EXCEPT ![s] = FALSE]
  /\ asked' = [asked EXCEPT ![s] = NoRequest] /\ got' = [got EXCEPT ![s] = <<>>]

\* Mutant: INPROC goes on into DONE, without its break.
ResDone_FallsThrough ==
  /\ ~inside /\ sr[turn] = "ESTABLISHED" /\ http[turn].sock_status \in {"INPROC", "DONE"}
  /\ http' = [http EXCEPT ![turn] = Idle]
  /\ sr' = [sr EXCEPT ![turn] = "FIN_WAIT"] /\ Return
  /\ UNCHANGED <<load, out, inside, parsed, rx, tx, asked, got>>

\* Mutant: the connection is kept for another request.
ResDone_KeepsAlive ==
  /\ ~inside /\ sr[turn] = "ESTABLISHED" /\ http[turn].sock_status = "DONE"
  /\ http' = [http EXCEPT ![turn] = Idle] /\ Return
  /\ UNCHANGED <<load, out, inside, parsed, socket>>

ResDone ==
  /\ ~inside /\ sr[turn] = "ESTABLISHED" /\ http[turn].sock_status = "DONE"
  /\ http' = [http EXCEPT ![turn] = Idle]
  /\ sr' = [sr EXCEPT ![turn] = "FIN_WAIT"] /\ Return
  /\ UNCHANGED <<load, out, inside, parsed, rx, tx, asked, got>>

\* disconnect() waits for SOCK_CLOSED.  HTTPSock_Status stays as it is.
CloseWait ==
  /\ ~inside /\ sr[turn] = "CLOSE_WAIT"
  /\ Closed(turn) /\ Return /\ UNCHANGED <<load, out, inside, parsed, http>>

Reopen ==
  /\ ~inside /\ sr[turn] \in {"CLOSED", "INIT"}
  /\ sr' = [sr EXCEPT ![turn] = IF @ = "CLOSED" THEN "INIT" ELSE "LISTEN"] /\ Return
  /\ UNCHANGED <<load, out, inside, parsed, http, rx, tx, asked, got>>

Nothing ==
  /\ ~inside
  /\ \/ sr[turn] \in {"LISTEN", "FIN_WAIT"}
     \/ sr[turn] = "ESTABLISHED" /\ http[turn].sock_status = "IDLE" /\ rx[turn] = <<>>
  /\ Return /\ UNCHANGED <<load, out, inside, parsed, http, socket>>

httpServer_run == \/ Receive \/ SendNext \/ Send \/ Sent \/ ResDone
                  \/ CloseWait \/ Reopen \/ Nothing

-----------------------------------------------------------------------------
(* The peers and the network *)

Connect(s) ==
  /\ sr[s] = "LISTEN" /\ sr' = [sr EXCEPT ![s] = "ESTABLISHED"]
  /\ UNCHANGED <<load, turn, out, inside, parsed, http, rx, tx, asked, got>>

Ask(s) ==
  /\ sr[s] = "ESTABLISHED" /\ asked[s] = NoRequest
  /\ \E r \in Requests, part \in {"whole", "front"} :
       /\ part = "front" => "parts" \in load.peers
       /\ asked' = [asked EXCEPT ![s] = r]
       /\ rx' = [rx EXCEPT ![s] = <<[r |-> r, part |-> part]>>]
  /\ UNCHANGED <<load, turn, out, inside, parsed, http, sr, tx, got>>

AskRest(s) ==
  /\ sr[s] = "ESTABLISHED" /\ rx[s] # <<>> /\ Last(rx[s]).part = "front"
  /\ rx' = [rx EXCEPT ![s] = Append(@, [r |-> asked[s], part |-> "rest"])]
  /\ UNCHANGED <<load, turn, out, inside, parsed, http, sr, tx, asked, got>>

Acknowledge(s) ==
  /\ tx[s] /\ tx' = [tx EXCEPT ![s] = FALSE]
  /\ UNCHANGED <<load, turn, out, inside, parsed, http, sr, rx, asked, got>>

Finish(s) ==
  /\ sr[s] = "FIN_WAIT" /\ ~tx[s]
  /\ Closed(s) /\ UNCHANGED <<load, turn, out, inside, parsed, http>>

CloseEarly(s) ==
  /\ "closes" \in load.peers /\ sr[s] = "ESTABLISHED"
  /\ sr' = [sr EXCEPT ![s] = "CLOSE_WAIT"]
  /\ UNCHANGED <<load, turn, out, inside, parsed, http, rx, tx, asked, got>>

Reset(s) ==
  /\ "resets" \in load.peers /\ Up(s)
  /\ Closed(s) /\ UNCHANGED <<load, turn, out, inside, parsed, http>>

Peer(s) == \/ Connect(s) \/ Ask(s) \/ AskRest(s) \/ Acknowledge(s)
           \/ Finish(s) \/ CloseEarly(s) \/ Reset(s)

Next == httpServer_run \/ \E s \in Sockets : Peer(s)

\* The main loop calls httpServer_run again and again; a peer takes what it is
\* sent and closes behind the device.  Nobody has to connect, or to ask.
Fairness ==
  /\ WF_vars(httpServer_run)
  /\ \A s \in Sockets : WF_vars(Acknowledge(s)) /\ WF_vars(Finish(s))

Spec == Init /\ [][Next]_vars /\ Fairness

-----------------------------------------------------------------------------
(* Properties *)

\* A peer gets the answer to its own request and to no other, in order and from
\* its first byte, and the device closes the connection when the answer is whole
\* (httpServer.c:147-225), however the calls for the sockets are mixed and
\* although they parse into one buffer.
AnswersRequest ==
  load.whole => \A s \in Sockets :
    /\ IsPrefix(got[s], Answer(asked[s]))
    /\ sr[s] = "FIN_WAIT" => got[s] = Answer(asked[s])

\* What is left of a content always is a part of that content, and a socket that
\* takes a request begins at its first byte (httpServer.c:331-336, 366-377,
\* 432-442, 213-216), also when the connection has been lost in the middle of an answer.
Positioned ==
  \A s \in Sockets :
    LET h == http[s]
    IN /\ h.file_len > 0 => h.file_len = Length[h.file_start] /\ h.file_offset < h.file_len
       /\ h.sock_status = "IDLE" /\ ~(inside /\ turn = s) => h = Idle

\* A connection on which a request has arrived is closed in the end, with or
\* without the right answer (httpServer.c:176-225, 232-237).
ConnectionEnds ==
  \A s \in Sockets : (asked[s] # NoRequest) ~> ~Up(s)
=============================================================================
