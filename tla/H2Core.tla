------------------------------- MODULE H2Core -------------------------------
(***************************************************************************)
(* The in-tree HTTP/2 client engine (h2_core.c): one main stream, at most   *)
(* one side stream opened in the same burst ahead of it, flow control in    *)
(* both directions, and the response checks that decide how a stream        *)
(* closes.  h is h2_core_t; srv is what the server has seen of us, in the   *)
(* order our frames leave.                                                  *)
(*                                                                          *)
(* The server's bytes come in any split: one step takes a frame header and  *)
(* one step takes a piece of a payload, so a record boundary, where the     *)
(* embedder flushes, pumps the body or cancels the side stream, can fall    *)
(* between any two of them.  A header block is a sequence of fields, a      *)
(* SETTINGS payload a sequence of entries, a body a number of bytes.        *)
(***************************************************************************)
EXTENDS Integers, Sequences, SequencesExt

CONSTANTS
  Window,      \* H2_DEFAULT_WINDOW, scaled down
  MaxWindow,   \* H2_MAX_WINDOW
  CtlCap,      \* H2_CTL_CAP, in control frames
  MaxCont,     \* H2_MAX_CONTINUATIONS
  TxCap,       \* body bytes the lent buffer takes
  Bodies,      \* body lengths of the main request
  SideBodies,  \* and of the side request
  InitWins,    \* SETTINGS_INITIAL_WINDOW_SIZE values of the server
  DataFrames,  \* DATA frames of the server: [left, pad, es]
  BlockFrames, \* its HEADERS and CONTINUATION frames: [items, eh, es]
  MaxFrames,   \* bound: frames the server sends
  MaxRequests  \* bound: requests of the embedder

VARIABLES h, srv, frames, requests

vars == <<h, srv, frames, requests>>

Names == {"main", "side"}
Min2(a, b) == IF a < b THEN a ELSE b
Max2(a, b) == IF a > b THEN a ELSE b

\* h2_stream_t; got is recv_len, body what is left to send, rst a history:
\* the server's own RST_STREAM closed it.
NoStream == [id |-> 0, open |-> FALSE, localEnd |-> FALSE, closed |-> FALSE,
             err |-> "NO_ERROR", stop |-> FALSE, have |-> FALSE, pseudoDone |-> FALSE,
             final |-> FALSE, status |-> 0, send |-> 0, recv |-> 0, consumed |-> 0,
             cl |-> -1, got |-> 0, body |-> 0, dlv |-> 0, rst |-> FALSE]

\* The frame being parsed, and the header block in progress.
NoFrame == [t |-> "none"]
NoBlock == [cont |-> 0, count |-> 0, es |-> FALSE, ignore |-> FALSE,
            trailer |-> FALSE, error |-> FALSE, cut |-> FALSE]

\* h2c_init and h2c_start.
h2c_init == [st |-> [n \in Names |-> NoStream], dead |-> FALSE, cause |-> "NO_ERROR",
             goaway |-> FALSE, goawayLast |-> 99, nextId |-> 1, lastId |-> 0,
             unacked |-> 1, sized |-> FALSE,
             connSend |-> Window, connRecv |-> Window, connConsumed |-> 0,
             initWin |-> Window, maxStreams |-> 99,
             f |-> NoFrame, blk |-> NoBlock, ctl |-> << >>, wire |-> << >>, io |-> TRUE]

(* --------------------------- control frames ---------------------------- *)

ctl_flush(x) ==
  IF x.ctl = << >> THEN x
  ELSE [x EXCEPT !.ctl = << >>, !.dead = @ \/ ~x.io,
                 !.wire = IF x.io THEN @ \o x.ctl ELSE @]

ctl_frame(x, fr) ==
  LET y == IF Len(x.ctl) >= CtlCap THEN ctl_flush(x) ELSE x
  IN  IF y.dead THEN y ELSE [y EXCEPT !.ctl = Append(@, fr)]

conn_error(x, code) ==
  IF x.dead THEN x
  ELSE [ctl_flush(ctl_frame(x, [t |-> "GOAWAY"])) EXCEPT !.dead = TRUE, !.cause = code]

close_stream(x, n, code) ==
  [x EXCEPT !.st[n].open = FALSE, !.st[n].closed = TRUE, !.st[n].err = code]

stream_of(x, sid) ==
  IF \E n \in Names : x.st[n].open /\ x.st[n].id = sid
  THEN CHOOSE n \in Names : x.st[n].open /\ x.st[n].id = sid
  ELSE "none"

stream_error(x, code) ==
  LET n == stream_of(x, x.f.sid)
      y == IF n = "none" THEN x
           ELSE close_stream(ctl_frame(x, [t |-> "RST", sid |-> x.f.sid]), n, code)
  IN  [y EXCEPT !.f.ignore = TRUE, !.blk.error = TRUE]

idle_stream(x, sid) == sid # 0 /\ (sid % 2 = 0 \/ sid > x.lastId)

(* ------------------- received DATA: windows, delivery ------------------- *)

Threshold == Window \div 2

conn_consumed(x, k) ==
  LET c == x.connConsumed + k
  IN  IF c >= Threshold
      THEN [ctl_frame(x, [t |-> "WU", sid |-> 0, inc |-> c])
              EXCEPT !.connRecv = @ + c, !.connConsumed = 0]
      ELSE [x EXCEPT !.connConsumed = c]

data_consumed(x, k) ==
  LET y == conn_consumed(x, k)
      n == IF y.f.ignore THEN "none" ELSE stream_of(y, y.f.sid)
      d == y.st[n].consumed + k
  IN  IF y.dead \/ n = "none" THEN y
      ELSE IF d >= Threshold /\ ~y.f.es
           THEN [ctl_frame(y, [t |-> "WU", sid |-> y.f.sid, inc |-> d])
                   EXCEPT !.st[n].recv = @ + d, !.st[n].consumed = 0]
           ELSE [y EXCEPT !.st[n].consumed = d]

\* The hook may ask to stop: stop is its answer to these bytes.
data_bytes(x, k, stop) ==
  LET n == IF x.f.ignore THEN "none" ELSE stream_of(x, x.f.sid)
      y == [x EXCEPT !.st[n].got = @ + k]
      s == y.st[n]
  IN  CASE n = "none" -> x
        [] n # "none" /\ (~s.final \/ (s.cl >= 0 /\ s.got > s.cl)) ->
             stream_error(y, "PROTOCOL_ERROR")
        [] n # "none" /\ s.final /\ (s.cl < 0 \/ s.got <= s.cl) ->
             IF n = "main" /\ ~s.stop /\ k > 0
             THEN [y EXCEPT !.st[n].stop = stop, !.st[n].dlv = @ + k] ELSE y

\* MUTANT: an END_STREAM short of the content-length is a clean end.
remote_end_NoLength(x, n) ==
  IF ~x.st[n].final THEN stream_error(x, "PROTOCOL_ERROR")
  ELSE IF x.st[n].localEnd THEN close_stream(x, n, "NO_ERROR")
  ELSE close_stream(ctl_frame(x, [t |-> "RST", sid |-> x.st[n].id]), n, "NO_ERROR")

remote_end(x, n) ==
  LET s == x.st[n] IN
  IF ~s.final \/ (s.cl >= 0 /\ s.cl # s.got) THEN stream_error(x, "PROTOCOL_ERROR")
  ELSE IF s.localEnd THEN close_stream(x, n, "NO_ERROR")
  ELSE close_stream(ctl_frame(x, [t |-> "RST", sid |-> s.id]), n, "NO_ERROR")

(* ------------------------ response header fields ------------------------ *)

\* A field is [k |-> kind, v |-> value]: "status", "cl", "reg" (any regular
\* field), "bad" (uppercase, connection-specific, unknown pseudo field).
field_cb(x, fld) ==
  LET n   == stream_of(x, x.f.sid)
      s   == x.st[n]
      bad == \/ fld.k = "bad"
             \/ fld.k = "status" /\ (x.blk.trailer \/ s.pseudoDone \/ s.have)
             \/ fld.k = "cl" /\ IF s.status = 204 THEN s.cl # -1 \/ fld.v # 0
                                ELSE s.status \div 100 = 1 \/ s.cl # -1
  IN  IF x.blk.ignore \/ x.blk.error \/ n = "none" THEN x
      ELSE IF bad THEN stream_error(x, "PROTOCOL_ERROR")
      ELSE IF fld.k = "status"
           THEN [x EXCEPT !.st[n].have = TRUE, !.st[n].status = fld.v]
           ELSE [x EXCEPT !.st[n].pseudoDone = TRUE,
                          !.st[n].cl = IF fld.k = "cl" THEN fld.v ELSE @]

block_end(x0) ==
  LET x == [x0 EXCEPT !.blk.cont = 0]
      n == stream_of(x, x.f.sid)
      s == x.st[n]
      info == s.status \div 100 = 1
      interim == [x EXCEPT !.st[n].have = FALSE, !.st[n].pseudoDone = FALSE, !.st[n].cl = -1]
      final == [x EXCEPT !.st[n].final = TRUE,
                         !.st[n].cl = IF s.status \in {204, 304} THEN 0 ELSE @]
  IN  IF x.blk.cut THEN conn_error(x0, "COMPRESSION_ERROR")
      ELSE IF x.blk.ignore \/ x.blk.error \/ n = "none" THEN x
      ELSE IF x.blk.trailer
           THEN IF x.blk.es THEN remote_end(x, n) ELSE stream_error(x, "PROTOCOL_ERROR")
      ELSE IF ~s.have THEN stream_error(x, "PROTOCOL_ERROR")
      ELSE IF info THEN IF x.blk.es THEN stream_error(interim, "PROTOCOL_ERROR") ELSE interim
      ELSE IF x.blk.es THEN remote_end(final, n) ELSE final

\* A "cut" item is the beginning of a field that the next frame goes on with
\* (hpack_dec_end refuses a block that ends in it).
block_bytes(x0, fld) ==
  LET x == [x0 EXCEPT !.blk.cut = fld.k = "cut"] IN
  CASE fld.k = "corrupt" -> conn_error(x, "COMPRESSION_ERROR")
    [] fld.k = "cut" -> x
    [] OTHER -> field_cb(x, fld)

(* --------------------- SETTINGS, fixed-size frames ---------------------- *)

\* An entry is [k |-> "initwin" | "streams" | "bad" | "other", v |-> value].
setting(x, e) ==
  LET delta == e.v - x.initWin
      over  == \E n \in Names : x.st[n].open /\ x.st[n].send + delta > MaxWindow
  IN  CASE e.k = "bad" -> conn_error(x, "PROTOCOL_ERROR")
        [] e.k = "initwin" ->
             IF over THEN conn_error(x, "FLOW_CONTROL_ERROR")
             ELSE [x EXCEPT !.initWin = e.v,
                            !.st = [n \in Names |-> IF x.st[n].open
                                      THEN [x.st[n] EXCEPT !.send = @ + delta]
                                      ELSE x.st[n]]]
        [] e.k = "streams" -> [x EXCEPT !.maxStreams = e.v]
        [] e.k = "other" -> x

goaway(x, last) ==
  LET Refuse(y, n) == IF y.st[n].open /\ y.st[n].id > last
                      THEN close_stream(y, n, "REFUSED_STREAM") ELSE y
  IN  IF (last # 0 /\ last % 2 = 0) \/ last > x.goawayLast
      THEN conn_error(x, "PROTOCOL_ERROR")
      ELSE Refuse(Refuse([x EXCEPT !.goaway = TRUE, !.goawayLast = last], "main"), "side")

window_update(x, sid, inc) ==
  LET n == stream_of(x, sid) IN
  IF sid = 0
  THEN IF inc = 0 THEN conn_error(x, "PROTOCOL_ERROR")
       ELSE IF x.connSend + inc > MaxWindow THEN conn_error(x, "FLOW_CONTROL_ERROR")
       ELSE [x EXCEPT !.connSend = @ + inc]
  ELSE IF n = "none" THEN x
       ELSE IF inc = 0 THEN stream_error(x, "PROTOCOL_ERROR")
       ELSE IF x.st[n].send + inc > MaxWindow THEN stream_error(x, "FLOW_CONTROL_ERROR")
       ELSE [x EXCEPT !.st[n].send = @ + inc]

fixed_done(x) ==
  LET fr == x.f
      n  == stream_of(x, fr.sid)
  IN  CASE fr.t = "PING"   -> ctl_frame(x, [t |-> "PINGACK"])
        [] fr.t = "GOAWAY" -> goaway(x, fr.last)
        [] fr.t = "RST"    -> IF n = "none" THEN x
                              ELSE [close_stream(x, n, fr.code) EXCEPT !.st[n].rst = TRUE]
        [] fr.t = "WU"     -> window_update(x, fr.sid, fr.inc)

(* --------------------------- frame boundaries --------------------------- *)

begin_data(x) ==
  LET fr == x.f
      n  == stream_of(x, fr.sid)
      y  == [x EXCEPT !.connRecv = @ - fr.left, !.f.ignore = (n = "none")]
      z  == [y EXCEPT !.st[n].recv = @ - fr.left]
  IN  IF idle_stream(x, fr.sid) THEN conn_error(x, "PROTOCOL_ERROR")
      ELSE IF y.connRecv < 0 THEN conn_error(y, "FLOW_CONTROL_ERROR")
      ELSE IF n = "none" THEN y
      ELSE IF z.st[n].recv < 0 THEN stream_error(z, "FLOW_CONTROL_ERROR") ELSE z

begin_headers(x) ==
  LET n == stream_of(x, x.f.sid) IN
  IF idle_stream(x, x.f.sid) THEN conn_error(x, "PROTOCOL_ERROR")
  ELSE [x EXCEPT !.blk = [cont |-> IF x.f.eh THEN 0 ELSE x.f.sid, count |-> 0,
                          es |-> x.f.es, ignore |-> n = "none", error |-> FALSE, cut |-> FALSE,
                          trailer |-> n # "none" /\ x.st[n].final]]

begin_continuation(x) ==
  IF x.blk.cont = 0 THEN conn_error(x, "PROTOCOL_ERROR")
  ELSE IF x.blk.count = MaxCont THEN conn_error(x, "ENHANCE_YOUR_CALM")
  ELSE [x EXCEPT !.blk.count = @ + 1, !.blk.cont = IF x.f.eh THEN 0 ELSE @]

frame_begin(x0, fr) ==
  LET x == [x0 EXCEPT !.f = fr @@ [ignore |-> FALSE]] IN
  IF x.blk.cont # 0 /\ (fr.t # "CONTINUATION" \/ fr.sid # x.blk.cont)
  THEN conn_error(x, "PROTOCOL_ERROR")
  ELSE CASE fr.t = "DATA" -> begin_data(x)
         [] fr.t = "HEADERS" -> begin_headers(x)
         [] fr.t = "CONTINUATION" -> begin_continuation(x)
         [] fr.t = "MALFORMED" -> conn_error(x, "FRAME_SIZE_ERROR")
         [] fr.t \in {"RST", "WU"} ->
              IF idle_stream(x, fr.sid) THEN conn_error(x, "PROTOCOL_ERROR") ELSE x
         [] fr.t \in {"SETTINGS", "SETTINGSACK", "PING", "GOAWAY"} -> x

frame_end(x) ==
  LET fr == x.f
      n  == IF fr.t = "DATA" /\ ~fr.ignore THEN stream_of(x, fr.sid) ELSE "none"
      y  == CASE fr.t = "DATA" -> IF n # "none" /\ fr.es THEN remote_end(x, n) ELSE x
              [] fr.t \in {"HEADERS", "CONTINUATION"} -> IF fr.eh THEN block_end(x) ELSE x
              [] fr.t = "SETTINGSACK" ->
                   IF x.unacked = 0 THEN conn_error(x, "PROTOCOL_ERROR")
                   ELSE [x EXCEPT !.unacked = @ - 1]
              [] fr.t = "SETTINGS" -> ctl_frame(x, [t |-> "ACK"])
              [] OTHER -> fixed_done(x)
  IN  [y EXCEPT !.f = NoFrame]

\* What is left of the payload: bytes, fields, entries.
f_left(fr) == CASE fr.t = "DATA" -> fr.left
                [] fr.t \in {"HEADERS", "CONTINUATION", "SETTINGS"} -> Len(fr.items)
                [] OTHER -> 0

EndIfDone(x) == IF ~x.dead /\ f_left(x.f) = 0 THEN frame_end(x) ELSE x

\* One piece of the payload: k bytes of a DATA frame, its padding last.
frame_payload(x, k, stop) ==
  LET take == Min2(k, x.f.left - x.f.pad)
      y    == data_bytes(x, take, stop)
      item == Head(x.f.items)
      z    == IF x.f.t = "SETTINGS" THEN setting(x, item) ELSE block_bytes(x, item)
  IN  IF x.f.t = "DATA"
      THEN IF take > 0
           THEN LET w == IF y.dead THEN y ELSE data_consumed(y, take)
                IN  [w EXCEPT !.f.left = @ - take]
           ELSE [data_consumed(x, x.f.left) EXCEPT !.f.left = 0, !.f.pad = 0]
      ELSE [z EXCEPT !.f.items = Tail(@)]

(* -------------------------------- sending ------------------------------- *)

SendWin(x, n) == Min2(x.connSend, x.st[n].send)

\* put_data: DATA of stream n into a buffer with room for cap body bytes.
put_data(x, n, cap) ==
  LET s    == x.st[n]
      k    == Min2(Min2(s.body, cap), Max2(SendWin(x, n), 0))
      last == k = s.body
  IN  IF ~s.open \/ s.localEnd \/ (s.body > 0 /\ k = 0) THEN x
      ELSE [x EXCEPT !.wire = Append(@, [t |-> "DATA", sid |-> s.id, n |-> k]),
                     !.connSend = @ - k, !.st[n].send = @ - k,
                     !.st[n].body = @ - k, !.st[n].localEnd = last]

\* tx_begin: the staged control frames go first in the lent buffer.
tx_begin(x) == [x EXCEPT !.wire = @ \o x.ctl, !.ctl = << >>]

\* tx_end: what was built since wire0 leaves, or the session is dead.
tx_end(x, wire0) ==
  IF x.wire = wire0 \/ x.io THEN x ELSE [x EXCEPT !.wire = wire0, !.dead = TRUE]

\* h2c_pump, at most as many buffers as the body has bytes.
h2c_pump(x0) ==
  LET Go(x, i) == IF /\ ~x.dead /\ x.st["main"].open /\ ~x.st["main"].localEnd
                     /\ x.st["main"].body = 0 \/ SendWin(x, "main") > 0
                  THEN tx_end(put_data(tx_begin(x), "main", TxCap), x.wire) ELSE x
  IN  FoldLeft(Go, x0, [i \in 1 .. x0.st["main"].body + 1 |-> i])

\* open_stream into a buffer with cap units left, its HEADERS taking Hdr of them.
Hdr == 1

Fits(cap) == cap >= Hdr

open_stream(x, n, body, cap) ==
  put_data([x EXCEPT !.wire = Append(@, [t |-> "HEADERS", sid |-> x.nextId, first |-> ~x.sized]),
                     !.lastId = x.nextId, !.nextId = @ + 2, !.sized = TRUE,
                     !.st[n] = [NoStream EXCEPT !.id = x.nextId, !.open = TRUE,
                                  !.send = x.initWin, !.recv = Window, !.body = body]],
           n, cap - Hdr)

\* MUTANTS: the pair that does not fit keeps the window it spent, its IDs.
roll_back_KeepsWindow(x, y) ==
  [y EXCEPT !.st["side"] = NoStream, !.st["main"].open = FALSE, !.nextId = x.nextId,
            !.lastId = x.lastId, !.sized = x.sized, !.wire = x.wire]

\* A pair that does not fit: x before the burst, y as far as it got.
roll_back(x, y) ==
  [y EXCEPT !.st["side"] = NoStream, !.st["main"].open = FALSE, !.nextId = x.nextId,
            !.lastId = x.lastId, !.sized = x.sized, !.connSend = x.connSend,
            !.wire = x.wire]

\* h2c_request_pair: side < 0 for a request alone.
h2c_request_pair(x, side, body) ==
  LET b    == tx_begin(x)
      p    == IF side < 0 THEN b ELSE open_stream(b, "side", side, TxCap)
      left == IF side < 0 THEN TxCap ELSE TxCap - Hdr - side
      q    == open_stream(p, "main", body, left)
  IN  IF side >= 0 /\ x.maxStreams < 2 THEN x
      ELSE IF (side >= 0 /\ ~p.st["side"].localEnd) \/ ~Fits(left)
      THEN tx_end(roll_back(b, p), x.wire)
      ELSE h2c_pump(tx_end(q, x.wire))

h2c_cancel_side(x) ==
  ctl_flush(close_stream(ctl_frame(x, [t |-> "RST", sid |-> x.st["side"].id]),
                         "side", "CANCEL"))

(* ------------------------- the server's account ------------------------- *)

\* What one of our frames changes in it: used and conn count our DATA against
\* the windows it granted, rconn and rwin are our receive windows as it knows
\* them, init the initial window it enforces (its announcement pend once we
\* acknowledge it).
Account(a, fr) ==
  CASE fr.t = "DATA" -> [a EXCEPT !.conn = @ - fr.n, !.used[fr.sid] = @ + fr.n]
    [] fr.t = "WU"   -> IF fr.sid = 0 THEN [a EXCEPT !.rconn = @ + fr.inc]
                        ELSE [a EXCEPT !.rwin[fr.sid] = @ + fr.inc]
    [] fr.t = "ACK"  -> [a EXCEPT !.init = IF a.pend = << >> THEN a.init ELSE Head(a.pend),
                                  !.pend = IF a.pend = << >> THEN a.pend ELSE Tail(a.pend)]
    [] fr.t = "HEADERS" -> [a EXCEPT !.last = fr.sid, !.ordered = @ /\ fr.sid > a.last,
                                     !.sizes = @ + (IF fr.first THEN 1 ELSE 0)]
    [] fr.t = "RST"  -> [a EXCEPT !.reset = @ \cup {fr.sid}]
    [] fr.t \in {"GOAWAY", "PINGACK"} -> a

Ids == {i \in 1 .. 4 * MaxRequests : i % 2 = 1}

Unseen == [conn |-> Window, used |-> [i \in Ids |-> 0], init |-> Window, pend |-> << >>,
           rconn |-> Window, rwin |-> [i \in Ids |-> Window], last |-> 0,
           ordered |-> TRUE, sizes |-> 0, reset |-> {}, over |-> FALSE]

\* A stream that closed, or a block that ended, keeps only what is still read.
Settled(y) ==
  [y EXCEPT !.wire = << >>, !.io = TRUE,
            !.blk = IF y.f = NoFrame /\ y.blk.cont = 0 THEN NoBlock ELSE @,
            !.st = [n \in Names |-> IF y.st[n].closed
                      THEN [y.st[n] EXCEPT !.send = 0, !.recv = 0, !.consumed = 0, !.body = 0]
                      ELSE y.st[n]]]

\* A call whose sends the transport takes (io) or not.
Call(io) == [h EXCEPT !.io = io]

\* A step of the engine that ends in state y, the server's account a before
\* it.  A dead engine answers every later call with an error and reads
\* nothing of its state.
Engine(y, a) ==
  IF y.dead THEN /\ h' = [h2c_init EXCEPT !.dead = TRUE, !.cause = y.cause]
                 /\ srv' = [Unseen EXCEPT !.over = a.over]
  ELSE /\ h' = Settled(y)
       /\ srv' = FoldLeft(Account, a, y.wire)

Init == /\ h = h2c_init
        /\ srv = Unseen
        /\ frames = 0
        /\ requests = 0

(* -------------------------------- steps --------------------------------- *)

\* Streams a server frame can name: ours, and one never opened.
Sids == ({h.st[n].id : n \in Names} \ {0}) \cup {h.nextId}

ServerFrames ==
  {d @@ [t |-> "DATA", sid |-> i] : d \in DataFrames, i \in Sids}
  \cup {b @@ [t |-> n, sid |-> i] : b \in BlockFrames, i \in Sids,
                                    n \in {"HEADERS", "CONTINUATION"}}
  \cup [t : {"SETTINGS"}, items : {<<[k |-> "initwin", v |-> w]>> : w \in InitWins}
                            \cup {<<[k |-> "streams", v |-> 1]>>, <<[k |-> "bad", v |-> 0]>>}]
  \cup [t : {"SETTINGSACK", "PING", "MALFORMED"}]
  \cup [t : {"GOAWAY"}, last : {0, h.lastId} \cup {h.st["side"].id}]
  \cup [t : {"RST"}, sid : Sids, code : {"NO_ERROR", "CANCEL"}]
  \cup [t : {"WU"}, sid : Sids \cup {0}, inc : {0, 1, MaxWindow}]

\* The server's own account of a frame it sends; over records that it went
\* past a window we gave it, or gave us one past the maximum.
Granted(a) == LET all == Range(a.pend) \cup {a.init}
              IN  CHOOSE w \in all : \A v \in all : v <= w

Spend(a, fr) ==
  CASE fr.t = "DATA" /\ fr.sid \in Ids ->
         [a EXCEPT !.rconn = @ - fr.left, !.rwin[fr.sid] = @ - fr.left]
    [] fr.t = "WU" /\ fr.sid = 0 -> [a EXCEPT !.conn = @ + fr.inc]
    [] fr.t = "WU" /\ fr.sid \in Ids -> [a EXCEPT !.used[fr.sid] = @ - fr.inc]
    [] fr.t = "SETTINGS" ->
         [a EXCEPT !.pend = Append(@, IF fr.items[1].k = "initwin" THEN fr.items[1].v
                                      ELSE IF @ = << >> THEN a.init ELSE Last(@))]
    [] OTHER -> a

Sent(a, fr) ==
  LET b == Spend(a, fr)
  IN  [b EXCEPT !.over = @ \/ b.rconn < 0 \/ b.conn > MaxWindow
                           \/ \E i \in Ids : b.rwin[i] < 0 \/ Granted(b) - b.used[i] > MaxWindow]

\* A frame header, and the frame's end where it has no payload.
FrameHeader(fr, io) ==
  /\ ~h.dead /\ h.f = NoFrame /\ frames < MaxFrames /\ ~srv.over
  /\ frames' = frames + 1
  /\ LET y == frame_begin(Call(io), fr @@ [sid |-> 0])
     IN  Engine(EndIfDone(y), Sent(srv, fr))
  /\ UNCHANGED requests

\* The next bytes of the payload, and the frame's end with the last of them.
FramePayload(k, stop, io) ==
  /\ ~h.dead /\ h.f # NoFrame
  /\ h.f.t # "DATA" => k = 1
  /\ stop => h.f.t = "DATA" /\ stream_of(h, h.f.sid) = "main"
  /\ Engine(EndIfDone(frame_payload(Call(io), k, stop)), srv)
  /\ UNCHANGED <<frames, requests>>

\* A record is parsed: h2c_feed flushes, h2c_pump sends more of the body, and
\* a side request without an answer by then may be cancelled.
RecordEnd(cancel, io) ==
  LET s == h.st["main"]
      y == h2c_pump(ctl_flush(Call(io)))
  IN  /\ ~h.dead /\ s.open
      /\ cancel => /\ h.st["side"].open /\ ~h.st["side"].final
                   /\ s.status >= 200
      /\ Engine(IF cancel /\ ~y.dead THEN h2c_cancel_side(y) ELSE y, srv)
      /\ UNCHANGED <<frames, requests>>

\* h2_drive_request: with a side request or without.
Request(side, body, io) ==
  /\ requests < MaxRequests
  /\ ~h.dead /\ ~h.goaway /\ ~h.st["main"].open
  /\ side >= 0 => ~h.st["side"].open
  /\ requests' = requests + 1
  /\ Engine(h2c_request_pair(Call(io), side, body), srv)
  /\ UNCHANGED frames

Next == \/ \E fr \in ServerFrames, io \in {TRUE, h.ctl = << >>} : FrameHeader(fr, io)
        \/ \E k \in {1, Window}, stop \in BOOLEAN, io \in {TRUE, h.ctl = << >>} :
             FramePayload(k, stop, io)
        \/ \E cancel, io \in BOOLEAN : RecordEnd(cancel, io)
        \/ \E side \in SideBodies \cup {-1}, body \in Bodies, io \in BOOLEAN : Request(side, body, io)

Spec == Init /\ [][Next]_vars

(* ------------------------------ properties ------------------------------ *)

InFlight(sid) == IF h.f.t = "DATA" /\ (sid = 0 \/ h.f.sid = sid) THEN h.f.left ELSE 0

\* No byte of a receive window is ever lost: what the server may still send,
\* what was consumed since the last WINDOW_UPDATE and what is still to be
\* parsed of the frame in hand add up to the window (data_consumed against
\* begin_data), on the connection whatever became of the stream, padding,
\* closed streams and broken responses included.  So once a frame is parsed
\* more than half of the window is open, the server's view of it is never
\* larger than ours, and FLOW_CONTROL_ERROR is never the answer to a server
\* that kept to the windows it was given.
RecvWindowsKept ==
  /\ ~h.dead => /\ h.connRecv + h.connConsumed + InFlight(0) = Window
                /\ h.connConsumed < Threshold
                /\ srv.rconn <= h.connRecv
                /\ \A n \in Names : h.st[n].open =>
                     /\ h.st[n].recv + h.st[n].consumed + InFlight(h.st[n].id) = Window
                     /\ srv.rwin[h.st[n].id] <= h.st[n].recv
  /\ h.cause = "FLOW_CONTROL_ERROR" => srv.over

\* Our DATA never exceeds what the server granted, and nothing it granted is
\* lost: the send windows are its own count of them, the streams' from our
\* acknowledgement of a changed SETTINGS_INITIAL_WINDOW_SIZE on (put_data,
\* setting, and the order in which staged acknowledgements and DATA leave,
\* tx_begin).  A pair that did not fit spends nothing (h2c_request_pair).
SendWindowsKept ==
  ~h.dead =>
    /\ h.connSend = srv.conn /\ h.connSend >= 0
    /\ \A n \in Names : h.st[n].open =>
         /\ h.st[n].send = h.initWin - srv.used[h.st[n].id]
         /\ h.st[n].send <= Granted(srv) - srv.used[h.st[n].id]
    /\ srv.pend = << >> => h.initWin = srv.init

\* What the server saw of our streams is what the engine thinks it opened:
\* IDs strictly increasing, the last one ours (so idle_stream is right about
\* the frames that answer it), the table size update in the first header
\* block only, and a stream we reset is not open any more.
StreamsAgree ==
  ~h.dead => /\ srv.last = h.lastId /\ srv.ordered /\ h.nextId > h.lastId
             /\ srv.sizes = (IF h.lastId = 0 THEN 0 ELSE 1)
             /\ \A n \in Names : h.st[n].id \in srv.reset => ~h.st[n].open

\* A stream that closed without an error had a final response, all of the
\* body its content-length announced, and handed the caller every byte of it
\* (unless the caller stopped), or else the server itself reset it with
\* NO_ERROR (fixed_done takes the frame's code as it is, and the caller cannot
\* tell that from END_STREAM); the side stream's body reaches nobody.
CloseIsAnswer ==
  \A n \in Names :
    LET s == h.st[n] IN
    /\ s.closed /\ s.err = "NO_ERROR" /\ ~s.rst =>
         s.final /\ s.status >= 200 /\ (s.cl >= 0 => s.got = s.cl)
    /\ s.dlv <= s.got /\ (n = "side" => s.dlv = 0)
    /\ (n = "main" /\ ~s.stop /\ s.err # "PROTOCOL_ERROR") => s.dlv = s.got

\* The engine and the server agree on windows and streams.
EngineAgrees == RecvWindowsKept /\ SendWindowsKept /\ StreamsAgree
=============================================================================
