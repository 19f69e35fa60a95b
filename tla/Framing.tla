------------------------------ MODULE Framing ------------------------------
(***************************************************************************)
(* One connection between a stub (client_stub.c over network_client.c) and *)
(* the thread that serves it (network_server.c): how messages become bytes *)
(* and bytes messages again.  Every message is sent as its length, cut to  *)
(* a short, and then its bytes.                                            *)
(*                                                                         *)
(* A byte is <<m, i>>: the i-th byte of the m-th message of its direction; *)
(* the two bytes of the length are one, <<m, 0>>.  What a length or a      *)
(* message read from the wrong bytes says is left open.  A thread handles  *)
(* its requests one by one, so nothing here depends on other connections.  *)
(***************************************************************************)
EXTENDS Integers, Sequences

CONSTANTS
  Op,           \* operations called
  RequestLens,  \* packed lengths of requests
  ReplyLens,    \* packed lengths of replies
  Half,         \* half of what two bytes can say: 2^15
  MaxCalls      \* bound: calls on the connection

Full == 2 * Half

\* What the replies to these carry grows with the table.
Listings == {"getkeys", "gettable"}
\* The stub's caller reads a NULL, or put frees what it does not own.
FatalErrors == {"put", "getkeys", "gettable", "stats"}

\* Requests come from a command line of MAX_MSG characters, far below Half.
ASSUME FramingAssumption ==
  /\ Op \subseteq {"put", "get", "del", "size", "getkeys", "gettable", "stats"}
  /\ Half \in Nat \ {0} /\ MaxCalls \in Nat
  /\ RequestLens \subseteq 1 .. Half - 1
  /\ ReplyLens \subseteq Nat \ {0}

VARIABLES
  caller,    \* step of the stub in network_send_receive
  len,       \* len: how much of a reply the stub waits for
  up, down,  \* bytes on their way to the server and back
  server,    \* step of the thread in client_thread_handler
  size,      \* size: how much of a request the thread waits for
  held,      \* the request the thread holds (0: one that was never sent)
  asleep,    \* the thread sleeps in invoke() for ever
  requests,  \* history: requests sent
  replies,   \* history: replies made, each to the request executed
  returned,  \* history: what the stub returned for each call
  torn       \* history: the caller ended between two writes of a request

stubVars   == <<caller, len, requests, returned, torn>>
serverVars == <<server, size, held, asleep, replies>>
vars == <<stubVars, serverVars, up, down>>

Bytes(m, n) == [i \in 1 .. n |-> <<m, i>>]
Take(s, n) == SubSeq(s, 1, n)
Drop(s, n) == SubSeq(s, n + 1, Len(s))

\* What the length bytes b say, if the reader is in step.
LengthAt(b, sent) == IF b[2] = 0 THEN {sent[b[1]].len % Full} ELSE 0 .. Full - 1
Signed(n) == IF n >= Half THEN n - Full ELSE n
\* The message that the bytes s are, all of it, or 0.
Whole(s, sent) ==
  IF s # <<>> /\ s = Bytes(s[1][1], sent[s[1][1]].len) THEN s[1][1] ELSE 0

Gone == caller \in {"left", "dead"}
Closed == server = "closed"
Last == requests[Len(requests)]

Init ==
  /\ caller = "idle" /\ len = 0
  /\ up = <<>> /\ down = <<>>
  /\ server = "size" /\ size = 0 /\ held = 0 /\ asleep = FALSE
  /\ requests = <<>> /\ replies = <<>> /\ returned = <<>>
  /\ torn = FALSE

-----------------------------------------------------------------------------
(* The stub. *)

\* rtable_put, rtable_get, ...: the request is built and packed.
Call ==
  /\ caller = "idle" /\ Len(requests) < MaxCalls
  /\ \E op \in Op, n \in RequestLens : requests' = Append(requests, [op |-> op, len |-> n])
  /\ caller' = "send_size"
  /\ UNCHANGED <<len, returned, torn, serverVars, up, down>>

\* quit: rtable_disconnect
Disconnect ==
  /\ caller = "idle" /\ caller' = "left"
  /\ UNCHANGED <<len, requests, returned, torn, serverVars, up, down>>

\* write_all of the length, then of the message.  A closed peer takes nothing.
SendSize ==
  /\ caller = "send_size" /\ ~Closed
  /\ up' = Append(up, <<Len(requests), 0>>)
  /\ caller' = "send_body"
  /\ UNCHANGED <<len, requests, returned, torn, serverVars, down>>

SendBody ==
  /\ caller = "send_body" /\ ~Closed
  /\ up' = up \o Bytes(Len(requests), Last.len)
  /\ caller' = "recv_size"
  /\ UNCHANGED <<len, requests, returned, torn, serverVars, down>>

\* Mutant of RecvSize: the length read as a signed number, as the server does.
RecvSizeSigned ==
  /\ caller = "recv_size" /\ down # <<>>
  /\ \E n \in LengthAt(Head(down), replies) : len' = Signed(n)
  /\ down' = Tail(down)
  /\ caller' = "recv_body"
  /\ UNCHANGED <<requests, returned, torn, serverVars, up>>

\* len = ntohs(response_size), which is not negative
RecvSize ==
  /\ caller = "recv_size" /\ down # <<>>
  /\ len' \in LengthAt(Head(down), replies)
  /\ down' = Tail(down)
  /\ caller' = "recv_body"
  /\ UNCHANGED <<requests, returned, torn, serverVars, up>>

\* What the stub makes of the bytes: a reply it unpacks as it was made, or, out
\* of step, nothing at all ("null"), the wrong opcode, or a part of a listing.
Unpacked(s) ==
  LET m == Whole(s, replies) IN
  IF m # 0 THEN {[to |-> replies[m].to, res |-> replies[m].res]}
  ELSE [to : {0}, res : IF s = <<>> THEN {"error"} ELSE {"null", "error", "ok"}]

\* Only rtable_get looks whether there is a response before it uses it.
Survives(op, res) ==
  \/ res = "ok"
  \/ res = "error" /\ op \notin FatalErrors
  \/ res = "null" /\ op = "get"

Return(n, answer) ==
  /\ down' = Drop(down, n)
  /\ IF Survives(Last.op, answer.res)
     THEN /\ returned' = Append(returned, answer)
          /\ caller' = "idle"
     ELSE /\ caller' = "dead" /\ UNCHANGED returned
  /\ UNCHANGED <<len, requests, torn, serverVars, up>>

\* Mutant of RecvBody: one read() for read_all(), which takes what has come.
RecvBodyOnce ==
  /\ caller = "recv_body"
  /\ \E n \in 1 .. len :
       /\ n <= Len(down)
       /\ \E answer \in Unpacked(Take(down, n)) : Return(n, answer)

RecvBody ==
  /\ caller = "recv_body" /\ Len(down) >= len
  /\ \E answer \in Unpacked(Take(down, len)) : Return(len, answer)

\* A write that fails, or a reply that ends early: network_send_receive frees
\* the request, which aborts when it points into memory of the caller (put, get,
\* del), and returns the NULL that the others dereference.
CallFails ==
  /\ Closed
  /\ \/ caller \in {"send_size", "send_body"}
     \/ caller = "recv_size" /\ down = <<>>
     \/ caller = "recv_body" /\ Len(down) < len
  /\ caller' = "dead"
  /\ UNCHANGED <<len, requests, returned, torn, serverVars, up, down>>

\* The caller's process ends, perhaps with a part of the request written.
CallerStops ==
  /\ ~Gone /\ caller' = "dead"
  /\ IF caller = "send_body" /\ ~Closed
     THEN /\ \E n \in 0 .. Last.len - 1 : up' = up \o Bytes(Len(requests), n)
          /\ torn' = TRUE
     ELSE UNCHANGED <<up, torn>>
  /\ UNCHANGED <<len, requests, returned, serverVars, down>>

Stub == SendSize \/ SendBody \/ RecvSize \/ RecvBody \/ CallFails

-----------------------------------------------------------------------------
(* The server. *)

ServerUnchanged == UNCHANGED <<stubVars, asleep, replies>>

\* Mutant of ReceiveSize: bytes_read != sizeof(short) is not looked at.
ReceiveSizeUnchecked ==
  /\ server = "size"
  /\ \/ /\ up # <<>>
        /\ \E n \in LengthAt(Head(up), requests) : size' = Signed(n)
        /\ up' = Tail(up)
     \/ /\ up = <<>> /\ Gone
        /\ size' = size /\ UNCHANGED up
  /\ server' = "body"
  /\ ServerUnchanged /\ UNCHANGED <<held, down>>

\* size = ntohs(size), into a short
ReceiveSize ==
  /\ server = "size" /\ up # <<>>
  /\ \E n \in LengthAt(Head(up), requests) : size' = Signed(n)
  /\ up' = Tail(up)
  /\ server' = "body"
  /\ ServerUnchanged /\ UNCHANGED <<held, down>>

\* read_all comes to the end of the stream: the thread closes and exits.
ReceiveEnd ==
  /\ server = "size" /\ up = <<>> /\ Gone
  /\ server' = "closed"
  /\ ServerUnchanged /\ UNCHANGED <<size, held, up, down>>

\* Mutant of ReceiveBody: read_all does not stop at the end of the stream.
ReceiveBodyForEver ==
  /\ server = "body" /\ Len(up) >= size
  /\ up' = Drop(up, size)
  /\ held' = Whole(Take(up, size), requests)
  /\ server' = IF held' = 0 THEN "closed" ELSE "invoke"
  /\ ServerUnchanged /\ UNCHANGED <<size, down>>

\* A stream that ends early is no error here: the rest of the buffer is what
\* malloc left in it, and the message may still unpack.
ReceiveBody ==
  LET n == IF Len(up) < size THEN Len(up) ELSE size
      m == Whole(Take(up, n), requests) IN
  /\ server = "body"
  /\ Len(up) >= size \/ Gone
  /\ up' = Drop(up, n)
  /\ held' = m
  /\ \/ server' = "invoke"
     \/ m = 0 /\ server' = "closed"
  /\ ServerUnchanged /\ UNCHANGED <<size, down>>

\* invoke(), which turns the request into its reply.  Only a key that is not
\* there is answered with an error.
Invoke ==
  LET op == IF held = 0 THEN "get" ELSE requests[held].op IN
  /\ server = "invoke" /\ ~asleep
  /\ \E n \in IF op \in Listings THEN ReplyLens ELSE {l \in ReplyLens : l < Half},
        res \in IF op \in {"get", "del"} THEN {"ok", "error"} ELSE {"ok"} :
       replies' = Append(replies, [to |-> held, len |-> n, res |-> res])
  /\ server' = "send_size"
  /\ UNCHANGED <<stubVars, size, held, asleep, up, down>>

\* invoke() meets a reader that leaves without waking it, or a stats request that
\* never does (module Invoke shows how), and the thread sleeps for ever.  A stats
\* request waits for nobody.
Sleep ==
  /\ server = "invoke" /\ ~asleep
  /\ held # 0 => requests[held].op # "stats"
  /\ asleep' = TRUE
  /\ UNCHANGED <<stubVars, server, size, held, replies, up, down>>

\* Mutant of ReplySize: nothing is sent when invoke() returned -1.
ReplySizeOkOnly ==
  /\ server = "send_size"
  /\ IF replies[Len(replies)].res = "error"
     THEN server' = "size" /\ UNCHANGED down
     ELSE server' = "send_body" /\ down' = Append(down, <<Len(replies), 0>>)
  /\ ServerUnchanged /\ UNCHANGED <<size, held, up>>

\* network_send.  What is written to a caller that has gone is lost, and an
\* error is only printed.
ReplySize ==
  /\ server = "send_size"
  /\ down' = Append(down, <<Len(replies), 0>>)
  /\ server' = "send_body"
  /\ ServerUnchanged /\ UNCHANGED <<size, held, up>>

ReplyBody ==
  /\ server = "send_body"
  /\ down' = down \o Bytes(Len(replies), replies[Len(replies)].len)
  /\ server' = "size"
  /\ ServerUnchanged /\ UNCHANGED <<size, held, up>>

\* The server's process ends, perhaps with a part of the reply written.
ServerStops ==
  /\ ~Closed /\ server' = "closed"
  /\ IF server = "send_body"
     THEN \E n \in 0 .. replies[Len(replies)].len - 1 :
            down' = down \o Bytes(Len(replies), n)
     ELSE UNCHANGED down
  /\ ServerUnchanged /\ UNCHANGED <<size, held, up>>

Server == ReceiveSize \/ ReceiveEnd \/ ReceiveBody \/ Invoke \/ ReplySize \/ ReplyBody

-----------------------------------------------------------------------------
Next == Call \/ Disconnect \/ Stub \/ CallerStops \/ Server \/ Sleep \/ ServerStops

Spec == Init /\ [][Next]_vars

\* Both processes run and the network delivers; nobody owes a call, a
\* disconnection or a failure, and a thread asleep in invoke() owes nothing.
FairSpec == Spec /\ WF_vars(Stub) /\ WF_vars(Server)

-----------------------------------------------------------------------------
(* Properties. *)

\* A reply has been made whose length does not fit two bytes.
Oversize == \E m \in DOMAIN replies : replies[m].len >= Full

\* Every variable keeps its type: both ends only ever wait for a length that a
\* message can have.
TypeOK ==
  /\ caller \in {"idle", "send_size", "send_body", "recv_size", "recv_body", "left", "dead"}
  /\ len \in 0 .. Full - 1 /\ size \in 0 .. Half - 1
  /\ up \in Seq((1 .. MaxCalls) \X Nat) /\ down \in Seq(Nat \X Nat)
  /\ server \in {"size", "body", "invoke", "send_size", "send_body", "closed"}
  /\ held \in 0 .. Len(requests)
  /\ requests \in Seq([op : Op, len : RequestLens])
  /\ replies \in Seq([to : Nat, len : ReplyLens, res : {"ok", "error"}])
  /\ returned \in Seq([to : Nat, res : {"ok", "error", "null"}])
  /\ torn \in BOOLEAN /\ asleep \in BOOLEAN

\* The connection is the procedure call it is used as.
Caller == CASE caller = "idle" -> "idle" [] Gone -> "gone" [] OTHER -> "calling"
Calls == INSTANCE Rpc WITH
  caller <- Caller,
  called <- Len(requests),
  executed <- [i \in DOMAIN replies |-> replies[i].to],
  returned <- [i \in DOMAIN returned |-> returned[i].to]

\* As long as no reply was too long for its length bytes and no caller ended in
\* the middle of a request, every request is executed at most once and in order,
\* and every call returns the answer to that very call: misses, disconnections
\* and failures of either end never shift an answer to the next call.
CallsInStep ==
  Calls!Init /\ [][torn' \/ Oversize' \/ Calls!Next]_(Calls!vars)

\* What the server executes without anybody having sent it is at most one
\* request, the last one, of a caller that ended while it wrote: not even a
\* reply of the wrong length makes a running caller send something unmeant.
InventedLast ==
  \A i \in DOMAIN replies :
    replies[i].to = 0 => torn /\ caller = "dead" /\ i = Len(replies)

\* A call ends, whatever the other end stops doing, unless its thread sleeps in
\* invoke() or a reply was too long: then the stub may wait for bytes that a
\* misread length promises.
CallEnds ==
  (caller \notin {"idle", "left", "dead"}) ~>
    (caller \in {"idle", "left", "dead"} \/ asleep \/ Oversize)

\* The thread of a caller that has gone comes to its end and closes, unless it
\* sleeps in invoke().
ThreadEnds == Gone ~> (Closed \/ asleep)
=============================================================================
