---------------------------- MODULE ControlStream ----------------------------
(***************************************************************************)
(* One connection to control: the dial with its Noise handshake            *)
(* (tsnode/src/control.rs, controlbase.rs), the records, the HTTP/2 client *)
(* with its one stream (h2.rs) and the messages of a map response.  The    *)
(* node has a connection of its own for every request.                     *)
(*                                                                         *)
(* The server is external, and so is TCP.  Bytes are counted in units of   *)
(* flow control; a frame is one record, which may arrive in parts.  The    *)
(* acknowledgements of SETTINGS and PING, of which the server makes no     *)
(* use, are not sent.                                                      *)
(***************************************************************************)
EXTENDS Integers, Sequences, FiniteSetsExt

CONSTANTS
  Body,           \* units of the request body
  MaxFrame,       \* units in a DATA frame
  DefaultWindow,  \* DEFAULT_WINDOW
  OurWindow,      \* OUR_WINDOW
  Messages,       \* messages of the response
  MsgLen,         \* units of a message
  MaxWindow,      \* the largest window the server may announce
  Windows,        \* initial windows it does announce
  MaxQueue,       \* bound: frames to the client under way
  MaxSettings,    \* bound: SETTINGS frames of the server
  MaxExtras       \* bound: pings, informational answers and failures

ASSUME StreamAssumption ==
  /\ {Body, MaxFrame, MsgLen} \subseteq Nat \ {0} /\ OurWindow \in Nat /\ OurWindow >= 2
  /\ DefaultWindow <= OurWindow /\ DefaultWindow <= MaxWindow
  /\ {DefaultWindow, MaxWindow, Messages, MaxQueue, MaxSettings, MaxExtras} \subseteq Nat
  /\ Windows \subseteq 0..MaxWindow

Threshold == OurWindow \div 2

VARIABLES
  \* The client: place, what it asks for, units of the request sent, H2Conn
  \* and its Stream, MapStream.
  pc, request, offset, h2, strm, buf, given,
  \* The server's half of it.
  srv,
  \* Frames under way; only a part of the first to the client has arrived; it
  \* was read and lost; the server closed the connection.
  c2s, s2c, part, torn, closed,
  \* Why the client failed.
  cause

client == <<pc, request, offset, h2, strm, buf, given, torn, cause>>
vars == <<client, srv, c2s, s2c, part, closed>>

\* Units of the response.
Response == Messages * MsgLen

\* A frame: its kind, the stream or the connection, units, END_STREAM.
Frame(k, of, n, last) == [kind |-> k, of |-> of, n |-> n, last |-> last]

Frames ==
  [kind : {"settings", "window", "headers", "info", "error", "data", "rst", "goaway", "ping"},
   of : {"conn", "strm"}, n : Nat, last : BOOLEAN]

\* ControlClient::register, map_once (a lite update) and map_stream.
Requests == {"register", "lite", "stream"}

Causes == {"none", "dial", "timeout", "torn", "eof", "rst", "goaway", "status"}

\* What the server may send besides the answer.
Extras == {"error", "info", "rst", "goaway", "ping"}

\* H2Conn, Stream, and what the server keeps of them.
H2Conns ==
  [send : 0..DefaultWindow, consumed : 0..Threshold - 1, initial : 0..MaxWindow,
   goaway : BOOLEAN]

Streams ==
  [send : -Body..MaxWindow, consumed : 0..OurWindow, body : 0..Response,
   status : {"none", "info", "ok", "error"}, end : BOOLEAN, reset : BOOLEAN]

Servers ==
  [conn : 0..DefaultWindow, strm : -Body..MaxWindow, initial : 0..MaxWindow,
   got : 0..Body, oweConn : 0..DefaultWindow, oweStrm : 0..Body,
   outConn : 0..OurWindow, outStrm : 0..OurWindow,
   open : BOOLEAN, replied : BOOLEAN, sent : 0..Response, ended : BOOLEAN,
   settings : 0..MaxSettings, extras : 0..MaxExtras, said : SUBSET Extras]

TypeOK ==
  /\ pc \in {"dial", "send", "status", "read", "done", "failed"}
  /\ request \in Requests /\ offset \in 0..Body
  /\ h2 \in H2Conns /\ strm \in Streams /\ srv \in Servers
  /\ buf \in 0..Response /\ given \in 0..Messages
  /\ c2s \in Seq(Frames) /\ s2c \in Seq(Frames)
  /\ part \in BOOLEAN /\ torn \in BOOLEAN /\ closed \in BOOLEAN /\ cause \in Causes

Init ==
  /\ pc = "dial" /\ request \in Requests /\ offset = 0
  /\ h2 = [send |-> DefaultWindow, consumed |-> 0, initial |-> DefaultWindow, goaway |-> FALSE]
  /\ strm = [send |-> 0, consumed |-> 0, body |-> 0, status |-> "none",
             end |-> FALSE, reset |-> FALSE]
  /\ buf = 0 /\ given = 0
  /\ srv = [conn |-> DefaultWindow, strm |-> DefaultWindow, initial |-> DefaultWindow, got |-> 0,
            oweConn |-> 0, oweStrm |-> 0, outConn |-> DefaultWindow, outStrm |-> DefaultWindow,
            open |-> FALSE, replied |-> FALSE, sent |-> 0, ended |-> FALSE,
            settings |-> 0, extras |-> 0, said |-> {}]
  /\ c2s = <<>> /\ s2c = <<>> /\ part = FALSE /\ torn = FALSE /\ closed = FALSE
  /\ cause = "none"

-----------------------------------------------------------------------------
(***************************************************************************)
(* The client.                                                             *)
(***************************************************************************)
Fail(c) == pc' = "failed" /\ cause' = c

\* The preface's frames and the headers of the request.
Greeting == <<Frame("settings", "conn", OurWindow, FALSE),
              Frame("window", "conn", OurWindow - DefaultWindow, FALSE),
              Frame("headers", "strm", 0, FALSE)>>

\* controlbase::dial and the early payload: without one the first bytes of
\* the server's SETTINGS are read, and kept.  with_prefix then sends the
\* preface, and request the headers.
Dial(early) ==
  /\ pc = "dial" /\ (early \/ s2c # <<>>)
  /\ pc' = "send"
  /\ strm' = [strm EXCEPT !.send = h2.initial]
  /\ c2s' = Greeting
  /\ UNCHANGED <<request, offset, h2, buf, given, torn, cause, srv, s2c, part, closed>>

DialFails ==
  /\ pc = "dial" /\ Fail("dial")
  /\ UNCHANGED <<request, offset, h2, strm, buf, given, torn, srv, c2s, s2c, part, closed>>

\* send_body: as much as both windows and a frame allow.
Allowed == Max({0, Min({strm.send, h2.send})})

SendData ==
  LET n == Min({Body - offset, Allowed, MaxFrame}) IN
  /\ pc = "send" /\ n > 0 /\ ~strm.reset
  /\ c2s' = Append(c2s, Frame("data", "strm", n, offset + n = Body))
  /\ offset' = offset + n
  /\ h2' = [h2 EXCEPT !.send = @ - n] /\ strm' = [strm EXCEPT !.send = @ - n]
  /\ pc' = IF offset + n = Body THEN "status" ELSE "send"
  /\ UNCHANGED <<request, buf, given, torn, cause, srv, s2c, part, closed>>

SendReset ==
  /\ pc = "send" /\ strm.reset /\ Fail("rst")
  /\ UNCHANGED <<request, offset, h2, strm, buf, given, torn, srv, c2s, s2c, part, closed>>

\* response_status.  No answer of the server ends without headers.
Status ==
  /\ pc = "status"
  /\ CASE strm.reset -> Fail("rst")
       [] ~strm.reset /\ strm.status = "ok" -> pc' = "read" /\ UNCHANGED cause
       [] ~strm.reset /\ strm.status \in {"info", "error"} -> Fail("status")
       [] ~strm.reset /\ strm.status = "none" -> h2.goaway /\ Fail("goaway")
  /\ UNCHANGED <<request, offset, h2, strm, buf, given, torn, srv, c2s, s2c, part, closed>>

\* take_message: a whole message is handed over.  map_once takes one, and
\* drops the connection.
TakeMessage ==
  /\ pc = "read" /\ buf >= MsgLen
  /\ buf' = buf - MsgLen /\ given' = given + 1
  /\ pc' = IF request = "lite" THEN "done" ELSE "read"
  /\ UNCHANGED <<request, offset, h2, strm, torn, cause, srv, c2s, s2c, part, closed>>

\* read_body: what there is, ...
ReadBody ==
  /\ pc = "read" /\ buf < MsgLen /\ strm.body > 0
  /\ buf' = buf + strm.body /\ strm' = [strm EXCEPT !.body = 0]
  /\ UNCHANGED <<pc, request, offset, h2, given, torn, cause, srv, c2s, s2c, part, closed>>

\* Mutant: the end is seen before the data that came with it.
ReadEndFirst ==
  /\ pc = "read" /\ buf < MsgLen
  /\ CASE strm.reset -> Fail("rst")
       [] ~strm.reset /\ strm.end -> pc' = "done" /\ UNCHANGED cause
       [] ~strm.reset /\ ~strm.end -> h2.goaway /\ Fail("goaway")
  /\ UNCHANGED <<request, offset, h2, strm, buf, given, torn, srv, c2s, s2c, part, closed>>

\* ... and then the end.
ReadEnd ==
  /\ pc = "read" /\ buf < MsgLen /\ strm.body = 0
  /\ CASE strm.reset -> Fail("rst")
       [] ~strm.reset /\ strm.end -> pc' = "done" /\ UNCHANGED cause
       [] ~strm.reset /\ ~strm.end -> h2.goaway /\ Fail("goaway")
  /\ UNCHANGED <<request, offset, h2, strm, buf, given, torn, srv, c2s, s2c, part, closed>>

\* Mutant: send_body waits for a window without reading.
WaitingNoSend ==
  \/ pc = "status" /\ strm.status = "none" /\ ~strm.reset /\ ~h2.goaway
  \/ /\ pc = "read" /\ buf < MsgLen /\ strm.body = 0
     /\ ~strm.reset /\ ~strm.end /\ ~h2.goaway

\* process_one waits for a frame: in send_body for a window, else for news.
Waiting ==
  \/ pc = "send" /\ Allowed = 0 /\ ~strm.reset
  \/ pc = "status" /\ strm.status = "none" /\ ~strm.reset /\ ~h2.goaway
  \/ /\ pc = "read" /\ buf < MsgLen /\ strm.body = 0
     /\ ~strm.reset /\ ~strm.end /\ ~h2.goaway

\* read_record has the whole record, the rest of which arrives in time.
Take(f) ==
  /\ Waiting /\ ~torn /\ s2c # <<>> /\ f = Head(s2c)
  /\ s2c' = Tail(s2c) /\ part' = FALSE
  /\ UNCHANGED <<pc, request, offset, buf, given, torn, cause, srv, closed>>

\* Mutant: a new initial window is for later streams only.
SettingsLater(f) ==
  /\ h2' = [h2 EXCEPT !.initial = f.n]
  /\ UNCHANGED strm

\* SETTINGS_INITIAL_WINDOW_SIZE.
Settings(f) ==
  /\ h2' = [h2 EXCEPT !.initial = f.n]
  /\ strm' = [strm EXCEPT !.send = @ + f.n - h2.initial]

HandleSettings(f) ==
  /\ f.kind = "settings" /\ Take(f)
  /\ Settings(f) /\ UNCHANGED c2s

HandleWindow(f) ==
  /\ f.kind = "window" /\ Take(f)
  /\ IF f.of = "conn"
     THEN h2' = [h2 EXCEPT !.send = @ + f.n] /\ UNCHANGED strm
     ELSE strm' = [strm EXCEPT !.send = @ + f.n] /\ UNCHANGED h2
  /\ UNCHANGED c2s

\* finish_headers.
HandleHeaders(f) ==
  /\ f.kind \in {"headers", "error", "info"} /\ Take(f)
  /\ strm' = [strm EXCEPT !.end = (@ \/ f.last),
                          !.status = CASE f.kind = "headers" -> "ok"
                                       [] f.kind = "error" -> "error"
                                       [] f.kind = "info" /\ strm.status = "none" -> "info"
                                       [] f.kind = "info" /\ strm.status # "none" -> strm.status]
  /\ UNCHANGED <<h2, c2s>>

\* Mutant: the threshold is given back, not what was consumed.
UpdatesFixed(conn, s, end) ==
  (IF conn >= Threshold THEN <<Frame("window", "conn", Threshold, FALSE)>> ELSE <<>>)
    \o (IF s >= Threshold /\ ~end THEN <<Frame("window", "strm", Threshold, FALSE)>> ELSE <<>>)

\* maybe_window_update, with conn and s units to be reported.
Updates(conn, s, end) ==
  (IF conn >= Threshold THEN <<Frame("window", "conn", conn, FALSE)>> ELSE <<>>)
    \o (IF s >= Threshold /\ ~end THEN <<Frame("window", "strm", s, FALSE)>> ELSE <<>>)

HandleData(f) ==
  LET conn == h2.consumed + f.n
      s == strm.consumed + f.n
      end == strm.end \/ f.last
      up == Updates(conn, s, end)
      told(of) == \E i \in DOMAIN up : up[i].of = of IN
  /\ f.kind = "data" /\ Take(f)
  /\ h2' = [h2 EXCEPT !.consumed = IF told("conn") THEN 0 ELSE conn]
  /\ strm' = [strm EXCEPT !.body = @ + f.n, !.end = end,
                          !.consumed = IF told("strm") THEN 0 ELSE s]
  /\ c2s' = c2s \o up

HandleOther(f) ==
  /\ f.kind \in {"rst", "goaway", "ping"} /\ Take(f)
  /\ strm' = [strm EXCEPT !.reset = @ \/ f.kind = "rst"]
  /\ h2' = [h2 EXCEPT !.goaway = @ \/ f.kind = "goaway"]
  /\ UNCHANGED c2s

\* The time is over.  A map stream is read again (Node::run_map_stream), but
\* the part of a record that read_raw_exact had read is gone ...
Timeout ==
  /\ Waiting /\ ~torn /\ ~(closed /\ s2c = <<>>)
  /\ IF pc = "read" /\ request = "stream"
     THEN torn' = part /\ UNCHANGED <<pc, cause>>
     ELSE Fail("timeout") /\ UNCHANGED torn
  /\ UNCHANGED <<request, offset, h2, strm, buf, given, srv, c2s, s2c, part, closed>>

\* ... and the rest of it is not a record.
Garbage ==
  /\ Waiting /\ torn /\ Fail("torn")
  /\ UNCHANGED <<request, offset, h2, strm, buf, given, torn, srv, c2s, s2c, part, closed>>

Eof ==
  /\ Waiting /\ closed /\ s2c = <<>> /\ ~torn /\ Fail("eof")
  /\ UNCHANGED <<request, offset, h2, strm, buf, given, torn, srv, c2s, s2c, part, closed>>

-----------------------------------------------------------------------------
(***************************************************************************)
(* The server and TCP (external).                                          *)
(***************************************************************************)
\* The client dropped the connection.
Dropped == pc \in {"done", "failed"}

ArrivesInPart ==
  /\ ~Dropped /\ s2c # <<>> /\ ~part /\ part' = TRUE
  /\ UNCHANGED <<client, srv, c2s, s2c, closed>>

ServerReads ==
  LET f == Head(c2s) IN
  /\ c2s # <<>> /\ ~closed /\ ~Dropped
  /\ c2s' = Tail(c2s)
  /\ srv' = CASE f.kind = "settings" -> [srv EXCEPT !.outStrm = f.n]
              [] f.kind = "window" /\ f.of = "conn" -> [srv EXCEPT !.outConn = @ + f.n]
              [] f.kind = "window" /\ f.of = "strm" -> [srv EXCEPT !.outStrm = @ + f.n]
              [] f.kind = "headers" -> [srv EXCEPT !.open = TRUE]
              [] f.kind = "data" -> [srv EXCEPT !.conn = @ - f.n, !.strm = @ - f.n,
                                                !.oweConn = @ + f.n, !.oweStrm = @ + f.n,
                                                !.got = @ + f.n]
              [] OTHER -> srv
  /\ UNCHANGED <<client, s2c, part, closed>>

ServerSends(f) ==
  /\ ~closed /\ ~Dropped /\ Len(s2c) < MaxQueue /\ s2c' = Append(s2c, f)
  /\ UNCHANGED <<client, c2s, part, closed>>

\* Its first frame; later ones change the window of the open stream.
ServerSettings(w) ==
  /\ srv.settings < MaxSettings
  /\ ServerSends(Frame("settings", "conn", w, FALSE))
  /\ srv' = [srv EXCEPT !.settings = @ + 1, !.initial = w, !.strm = @ + w - srv.initial]

ServerWindow(of) ==
  LET n == IF of = "conn" THEN srv.oweConn ELSE srv.oweStrm IN
  /\ srv.settings > 0 /\ n > 0
  /\ ServerSends(Frame("window", of, n, FALSE))
  /\ srv' = IF of = "conn" THEN [srv EXCEPT !.conn = @ + n, !.oweConn = 0]
                           ELSE [srv EXCEPT !.strm = @ + n, !.oweStrm = 0]

\* The answer; that of a lite update has no body.
ServerReplies(empty) ==
  /\ srv.settings > 0 /\ srv.open /\ ~srv.replied /\ ~srv.ended /\ srv.got = Body
  /\ (empty => request = "lite")
  /\ ServerSends(Frame("headers", "strm", 0, empty))
  /\ srv' = [srv EXCEPT !.replied = TRUE, !.ended = empty]

ServerData(n) ==
  LET rest == Response - srv.sent IN
  /\ srv.replied /\ ~srv.ended
  /\ n <= Min({srv.outConn, srv.outStrm, rest, MaxFrame}) /\ (n > 0 \/ rest = 0)
  /\ ServerSends(Frame("data", "strm", n, n = rest))
  /\ srv' = [srv EXCEPT !.sent = @ + n, !.outConn = @ - n, !.outStrm = @ - n, !.ended = n = rest]

\* A refusal (also before the request is complete), an informational answer,
\* a reset, a shutdown, a ping.
ServerExtra(k) ==
  /\ srv.settings > 0 /\ srv.extras < MaxExtras /\ (k = "ping" \/ (srv.open /\ ~srv.ended))
  /\ k \in {"error", "info"} => ~srv.replied
  /\ ServerSends(Frame(k, IF k = "ping" THEN "conn" ELSE "strm", 0, k = "error"))
  /\ srv' = [srv EXCEPT !.extras = @ + 1, !.said = @ \cup {k}, !.replied = @ \/ k = "error",
                        !.ended = @ \/ k \in {"error", "rst"}]

ServerCloses ==
  /\ ~closed /\ ~Dropped /\ srv.extras < MaxExtras /\ closed' = TRUE
  /\ srv' = [srv EXCEPT !.extras = @ + 1]
  /\ UNCHANGED <<client, c2s, s2c, part>>

-----------------------------------------------------------------------------
Handle ==
  \E f \in {s2c[i] : i \in DOMAIN s2c} :
    HandleSettings(f) \/ HandleWindow(f) \/ HandleHeaders(f) \/ HandleData(f) \/ HandleOther(f)

Client ==
  \/ \E early \in BOOLEAN : Dial(early)
  \/ SendData \/ SendReset \/ Status \/ TakeMessage \/ ReadBody \/ ReadEnd
  \/ Handle \/ Garbage \/ Eof

Server ==
  \/ ServerReads
  \/ \E w \in Windows : ServerSettings(w)
  \/ \E of \in {"conn", "strm"} : ServerWindow(of)
  \/ \E empty \in BOOLEAN : ServerReplies(empty)
  \/ \E n \in 0..MaxFrame : ServerData(n)

Faults ==
  \/ DialFails \/ Timeout \/ ServerCloses
  \/ \E k \in Extras : ServerExtra(k)

Next == Client \/ Server \/ ArrivesInPart \/ Faults

Spec == Init /\ [][Next]_vars

(***************************************************************************)
(* Fairness: the client's thread runs, and the server goes on as long as   *)
(* it has something to read, to give back or to answer, all of which is    *)
(* finite.  Timeouts and failures are never forced.                        *)
(***************************************************************************)
FairSpec == Spec /\ WF_vars(Client) /\ WF_vars(Server)

-----------------------------------------------------------------------------
(***************************************************************************)
(* Properties.                                                             *)
(***************************************************************************)

\* Units in the frames of a channel that are of kind k for of.
Weight(f, k, of) == IF f.kind = k /\ f.of = of THEN f.n ELSE 0

InFlight(channel, k, of) ==
  LET sum[i \in 0..Len(channel)] ==
        IF i = 0 THEN 0 ELSE sum[i - 1] + Weight(channel[i], k, of)
  IN  sum[Len(channel)]

(***************************************************************************)
(* The client's send windows are the server's: with what is under way in   *)
(* both directions they add up, also when the server changes the initial   *)
(* window of the open stream and the client sends before it knows; and so  *)
(* the window of the connection is never overrun (h2.rs send_body).        *)
(***************************************************************************)
SendWindowsAgree ==
  pc # "dial" /\ cause # "dial" =>
    /\ h2.send + InFlight(c2s, "data", "strm") + InFlight(s2c, "window", "conn") = srv.conn
    /\ strm.send + InFlight(c2s, "data", "strm") + InFlight(s2c, "window", "strm")
         + (srv.initial - h2.initial) = srv.strm
    /\ h2.send >= 0

(***************************************************************************)
(* The windows for what the client sends are right, and within the         *)
(* counters of the code (h2.rs, send_body and handle_frame).               *)
(***************************************************************************)
SendInv == TypeOK /\ SendWindowsAgree

(***************************************************************************)
(* The windows we grant are never lost: the server's windows, the data and *)
(* updates under way and what is not yet reported add up to OUR_WINDOW for *)
(* the connection, and for the stream until it ends.                       *)
(***************************************************************************)
GrantsAddUp ==
  srv.open =>
    /\ srv.outConn + InFlight(s2c, "data", "strm") + InFlight(c2s, "window", "conn")
         + h2.consumed = OurWindow
    /\ srv.outStrm + InFlight(s2c, "data", "strm") + InFlight(c2s, "window", "strm")
         + strm.consumed = OurWindow

(***************************************************************************)
(* The end of the stream comes after its data: when read_body says None,   *)
(* every message the server sent was handed over (map_once is content with *)
(* the first).                                                             *)
(***************************************************************************)
EndIsTheEnd ==
  pc = "done" =>
    \/ given * MsgLen = srv.sent /\ srv.ended
    \/ request = "lite" /\ given = 1

\* The failures of the client that are not its own: the dial failed, nothing
\* came in time (a map stream may then have lost a part of a record), or the
\* server closed the connection, refused, reset or went away - or it sent an
\* informational answer, which finish_headers takes for the answer.
Excused ==
  \/ cause \in {"dial", "timeout", "torn"}
  \/ cause = "eof" /\ closed
  \/ cause \in {"rst", "goaway"} /\ cause \in srv.said
  \/ cause = "status" /\ srv.said \cap {"error", "info"} # {}

(***************************************************************************)
(* Nobody waits for ever, and the client gives nothing up by itself: with  *)
(* a server that answers, it sends its body and reads the response to its  *)
(* end, whichever side has to wait for a window, also for one that was     *)
(* taken back below 0; or it fails for something that did happen to it.    *)
(* Pings, window changes and empty frames are no such thing.  That an      *)
(* informational answer is one contradicts the comment at h2.rs:548,       *)
(* "Ignore 1xx informational responses".                                   *)
(***************************************************************************)
ResponseIsRead == <>(pc = "done" \/ Excused)

-----------------------------------------------------------------------------
(***************************************************************************)
(* The inductive invariant behind the three invariants above.              *)
(***************************************************************************)

\* The client has sent nothing, and never will if its dial failed.
Undialed == pc = "dial" \/ cause = "dial"

\* The client fails for a cause.  Before the dial there is nothing to the
\* server; then it reads the greeting, frame by frame, before anything else.
Begins ==
  /\ pc = "failed" <=> cause # "none"
  /\ Undialed => c2s = <<>> /\ ~srv.open /\ strm.send = 0
  /\ srv.replied => srv.open
  /\ ~srv.replied => srv.sent = 0

\* Data is for the stream, and the server announces no larger window.
FramesFit ==
  /\ \A i \in 1..Len(s2c) : /\ s2c[i].kind = "data" => s2c[i].of = "strm"
                            /\ s2c[i].kind = "settings" => s2c[i].n <= MaxWindow
  /\ \A i \in 1..Len(c2s) : c2s[i].kind = "data" => c2s[i].of = "strm"

\* k frames of the greeting are still under way.
Greeted(k) ==
  /\ Len(c2s) >= k
  /\ \A i \in 1..k : c2s[i] = Greeting[3 - k + i]
  /\ \A i \in k + 1..Len(c2s) : c2s[i].kind \in {"data", "window"}

GreetingFirst ==
  ~Undialed => \E k \in 0..3 : Greeted(k) /\ (srv.open <=> k = 0)

\* The server has not read the SETTINGS that set its window for the stream.
Unset == Undialed \/ (c2s # <<>> /\ c2s[1].kind = "settings")

\* What the client may send: units under way, what the server owes, and the
\* window of the stream as it will be once the client has dialed.
SendsAddUp ==
  LET data == InFlight(c2s, "data", "strm") IN
  /\ h2.send + data + InFlight(s2c, "window", "conn") = srv.conn
  /\ srv.conn + srv.oweConn = DefaultWindow
  /\ (IF Undialed THEN h2.initial ELSE strm.send) + data + InFlight(s2c, "window", "strm")
       + (srv.initial - h2.initial) = srv.strm
  /\ srv.strm + srv.oweStrm = srv.initial
  /\ data + srv.got = offset
  /\ srv.oweStrm + InFlight(s2c, "window", "strm") + data <= offset

\* What the server may send, from the defaults to what the greeting grants.
GrantsHold ==
  LET data == InFlight(s2c, "data", "strm") IN
  /\ srv.outConn + data + InFlight(c2s, "window", "conn") + h2.consumed
       = IF Undialed THEN DefaultWindow ELSE OurWindow
  /\ srv.outStrm + data + InFlight(c2s, "window", "strm") + strm.consumed
       = IF Unset THEN DefaultWindow ELSE OurWindow
  /\ Unset => srv.outStrm = DefaultWindow

\* Every unit of the response is under way, in a buffer or handed over.
BodyAddsUp ==
  InFlight(s2c, "data", "strm") + strm.body + buf + given * MsgLen = srv.sent

\* The end of the stream is known to the client, or on its way to it, behind
\* all data.
EndsLast ==
  /\ \A i \in 1..Len(s2c) : s2c[i].last =>
       /\ srv.ended /\ srv.sent \in {0, Response}
       /\ \A j \in i + 1..Len(s2c) : s2c[j].kind # "data"
  /\ strm.end =>
       /\ srv.ended /\ srv.sent \in {0, Response}
       /\ \A j \in 1..Len(s2c) : s2c[j].kind # "data"

LiteTakesOne == request = "lite" /\ pc # "done" => given = 0

StreamInv ==
  /\ TypeOK /\ Begins /\ FramesFit /\ GreetingFirst /\ SendsAddUp /\ GrantsHold
  /\ BodyAddsUp /\ EndsLast /\ LiteTakesOne /\ EndIsTheEnd
=============================================================================
