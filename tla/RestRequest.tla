---------------------------- MODULE RestRequest -----------------------------
(***************************************************************************)
(* The life of an HTTP request in the portal's REST server.                *)
(*                                                                         *)
(* libmicrohttpd calls the access handler for the head of a request, for   *)
(* every part of its body as the network delivers it, and again and again  *)
(* once the body has ended, until a response is queued.  It then calls the *)
(* response's content reader for one block after the other, and the        *)
(* cleanup callback when the request is over: sent, refused, timed out or  *)
(* given up by its client.  The handler's state objects come from a pool   *)
(* that all connections share; the data of a request belongs to the state  *)
(* object first and to the response later.                                 *)
(***************************************************************************)
EXTENDS Integers, Sequences

CONSTANTS
    Conns,       \* connections, each with one request at a time
    States,      \* RESTRequestState objects: the pool and those in use
    Body,        \* the body of a request: letters "w" and spaces "s"
    EntryWords,  \* words that make up an entry of the body
    Block,       \* RESPONSE_BLOCK_SIZE
    LineDoc,     \* sizes of the items of a response that is written item by item
    JsonDocs,    \* sizes of responses that are written as a whole
    Handlers,    \* the handlers that a connection's requests are for
    NULL

ASSUME SizesAssumption ==
    /\ Body \in Seq({"w", "s"}) /\ EntryWords \in Nat \ {0}
    /\ Block \in Nat \ {0} /\ LineDoc \in Seq(1..Block) /\ JsonDocs \subseteq Nat \ {0}
    /\ NULL \notin States

\* The request handlers by what they do with a body, where they try to lock the
\* view, and what becomes of a request when they cannot.
Handler ==
    [GetPIDs         |-> [body |-> "entries", locks |-> "finish",  failed |-> "retry"],
     GetPIDMap       |-> [body |-> "entries", locks |-> "finish",  failed |-> "throw"],
     GetNetMap       |-> [body |-> "ignored", locks |-> "process", failed |-> "throw"],
     NetMapFiltered  |-> [body |-> "words",   locks |-> "finish",  failed |-> "throw"],
     CostMapFiltered |-> [body |-> "words",   locks |-> "finish",  failed |-> "error"],
     Admin           |-> [body |-> "ignored", locks |-> "none",    failed |-> "none"],
     Unknown         |-> [body |-> "ignored", locks |-> "none",    failed |-> "none"],
     Invalid         |-> [body |-> "ignored", locks |-> "none",    failed |-> "none"]]

ASSUME HandlersAssumption == Handlers \in [Conns -> SUBSET DOMAIN Handler]

Docs(h) ==
    CASE Handler[h].locks = "none" -> {<<>>}
      [] Handler[h].locks # "none" /\ Handler[h].body = "entries" -> {LineDoc}
      [] OTHER -> {<<n>> : n \in JsonDocs}

VARIABLES
    phase,     \* idle, calling, sending or closing, for each connection
    handler,   \* the handler that its request is for
    doc,       \* what its response consists of
    left,      \* the part of its body that has not arrived
    con_cls,   \* its state object
    read,      \* the words that the handler has taken from the body
    reader,    \* the ContentReaderState of its response
    live,      \* allocated callback data: how often allocated minus how often freed
    obj,       \* the contents of the state objects
    requests_, \* the pool
    crashed    \* an exception has left a callback of libmicrohttpd

vars == <<phase, handler, doc, left, con_cls, read, reader, live, obj, requests_, crashed>>

\* RESTRequestState::clear()
clear == [response_ |-> "none", free_callback_ |-> FALSE, callback_data_ |-> FALSE,
          request_finished_ |-> FALSE, buffer_ |-> <<>>]

NoReader == [callback_free_ |-> FALSE, gzip_ |-> FALSE, callback_finished_ |-> FALSE,
             pos |-> 0, taken |-> 0, out |-> 0, z_finished_ |-> FALSE, ended |-> FALSE]

Init ==
    /\ phase = [c \in Conns |-> "idle"]
    /\ handler = [c \in Conns |-> "Unknown"]
    /\ doc = [c \in Conns |-> <<>>]
    /\ left = [c \in Conns |-> <<>>]
    /\ con_cls = [c \in Conns |-> NULL]
    /\ read = [c \in Conns |-> <<>>]
    /\ reader = [c \in Conns |-> NoReader]
    /\ live = [c \in Conns |-> 0]
    /\ obj = [s \in States |-> clear]
    /\ requests_ = <<>>
    /\ crashed = FALSE

-----------------------------------------------------------------------------

\* The words of data, each by its length.
Words(data) ==
    LET text == Append(data, "s")
        scan[i \in 0..Len(text)] ==
          IF i = 0 THEN [words |-> <<>>, run |-> 0]
          ELSE IF text[i] = "w" THEN [scan[i - 1] EXCEPT !.run = @ + 1]
          ELSE IF scan[i - 1].run = 0 THEN scan[i - 1]
          ELSE [words |-> Append(scan[i - 1].words, scan[i - 1].run), run |-> 0]
    IN  scan[Len(text)].words

\* What the handlers get from the body if it arrives in one piece.
Entries(data) ==
    LET w == Words(data)
    IN  SubSeq(w, 1, Len(w) - (Len(w) % EntryWords))

\* The position behind the n-th word of data.
WordEnd(data, n) ==
    IF n = 0 THEN 0
    ELSE CHOOSE i \in DOMAIN data :
           /\ Len(Words(SubSeq(data, 1, i))) = n
           /\ data[i] = "w"
           /\ i = Len(data) \/ data[i + 1] = "s"

\* Mutant: a word is read before its end has arrived.
get_datalenAll(o) == Len(o.buffer_)

\* ProtocolServerRESTBase::get_datalen(): up to and with the last space, unless
\* nothing more will come.
get_datalen(o) ==
    IF o.request_finished_ THEN Len(o.buffer_)
    ELSE CHOOSE n \in 0..Len(o.buffer_) :
           /\ n > 0 => o.buffer_[n] = "s"
           /\ \A i \in (n + 1)..Len(o.buffer_) : o.buffer_[i] # "s"

\* buffer.rresize() drops what was read.
consume(buffer, n) == SubSeq(buffer, n + 1, Len(buffer))

set_empty_response(o) == [o EXCEPT !.response_ = "empty"]
throw(o) == [o EXCEPT !.response_ = "exception"]

\* What process_request_data() may lead to for a request of handler h: the state
\* object and the words that the process callback has taken.  GetPIDsProcess and
\* the like take whole entries and leave the others in the buffer until the body
\* has ended; an entry that makes no sense is answered at once.
process_request_data(h, o) ==
    LET n    == get_datalen(o)
        data == SubSeq(o.buffer_, 1, n)
        mark == IF o.request_finished_ THEN n ELSE WordEnd(data, Len(Entries(data)))
        rest(k) == [o EXCEPT !.buffer_ = consume(@, k)]
    IN  CASE Handler[h].body = "entries" ->
               {[o |-> rest(mark), words |-> Entries(data)]} \cup
               {[o |-> set_empty_response(rest(n)), words |-> <<>>] : e \in DOMAIN Entries(data)}
          [] Handler[h].body = "words" -> {[o |-> rest(n), words |-> Words(data)]}
          [] Handler[h].locks = "process" ->
               {[o |-> p, words |-> <<>>] : p \in {rest(n), set_empty_response(rest(n)), throw(o)}}
          [] OTHER -> {[o |-> rest(n), words |-> <<>>]}

\* Mutant: the state object keeps the callback that frees the data.
set_callback_responseKept(o) == [o EXCEPT !.response_ = "callback"]

\* RESTRequestState::set_callback_response(): the data is the response's now.
set_callback_response(o) == [o EXCEPT !.response_ = "callback", !.free_callback_ = FALSE]

\* What the finish callback of handler h may lead to: a response that is written by
\* a callback, an empty one (no such view, a filter that cannot be read), or what
\* the handler makes of a TryLockFailed.  Some catch the wrong type, and it leaves
\* the access handler.
finish_callback_(h, o) ==
    CASE h = "Admin" -> {set_empty_response(o)}
      [] Handler[h].locks = "process" -> {set_callback_response(o)}
      [] OTHER ->
           {set_callback_response(o), set_empty_response(o)} \cup
           (CASE Handler[h].failed = "retry" -> {o}
              [] Handler[h].failed = "error" -> {set_empty_response(o)}
              [] OTHER -> {throw(o)})

-----------------------------------------------------------------------------

\* A client sends a request.
request(c, h, d) ==
    /\ phase[c] = "idle"
    /\ phase' = [phase EXCEPT ![c] = "calling"]
    /\ handler' = [handler EXCEPT ![c] = h]
    /\ doc' = [doc EXCEPT ![c] = d]
    /\ left' = [left EXCEPT ![c] = IF Handler[h].body = "ignored" THEN <<>> ELSE Body]
    /\ UNCHANGED <<con_cls, read, reader, live, obj, requests_, crashed>>

\* Objects that are not allocated: neither in use, nor in the pool, nor lost.
Unallocated ==
    {s \in States : /\ \A c \in Conns : con_cls[c] # s
                    /\ \A i \in DOMAIN requests_ : requests_[i] # s
                    /\ obj[s] = clear}

\* get_request_state(): the oldest of the pool, or a new object.
get_request_state(s) ==
    IF requests_ # <<>> THEN s = Head(requests_) /\ requests_' = Tail(requests_)
    ELSE Unallocated # {} /\ s = (CHOOSE t \in Unallocated : TRUE) /\ UNCHANGED requests_

\* The head cannot be parsed.  The state object gets a response, but con_cls does
\* not get the state object: it is lost, and so is the response.
invalid_argument(c) ==
    /\ phase[c] = "calling" /\ con_cls[c] = NULL /\ handler[c] = "Invalid"
    /\ \E s \in States :
         /\ get_request_state(s)
         /\ obj' = [obj EXCEPT ![s] = set_empty_response(clear)]
    /\ UNCHANGED <<phase, handler, doc, left, con_cls, read, reader, live, crashed>>

\* The data was allocated with the callbacks.
Allocated(o) == IF o.callback_data_ THEN 1 ELSE 0

\* The response, if there is one and the body has ended, is queued: MHD has it now,
\* or refuses it, destroys it and closes the connection.  A content reader that is
\* destroyed frees the data.  After an exception the access handler does not get here.
queue_response(c, o, free) ==
    \/ /\ ~o.request_finished_ \/ o.response_ \in {"none", "exception"}
       /\ UNCHANGED <<phase, reader>>
       /\ live' = [live EXCEPT ![c] = Allocated(o)]
    \/ /\ o.request_finished_ /\ o.response_ \in {"empty", "callback"}
       /\ phase' = [phase EXCEPT ![c] = "sending"]
       /\ \E z \in BOOLEAN :
            reader' = [reader EXCEPT ![c].callback_free_ = free /\ o.response_ = "callback",
                                     ![c].gzip_ = z /\ o.response_ = "callback"]
       /\ live' = [live EXCEPT ![c] = Allocated(o)]
    \/ /\ o.request_finished_ /\ o.response_ \in {"empty", "callback"}
       /\ phase' = [phase EXCEPT ![c] = "closing"]
       /\ live' = [live EXCEPT ![c] = IF free /\ o.response_ = "callback" THEN 0 ELSE Allocated(o)]
       /\ UNCHANGED reader

\* The rest of REST_AccessHandlerCallback() for state object s with contents o, when
\* the next n letters of the body have arrived.
handle(c, s, o, n) ==
    LET arrived == [o EXCEPT !.buffer_ = @ \o SubSeq(left[c], 1, n)]
        h == handler[c]
    IN  \E p \in IF o.response_ = "none" THEN process_request_data(h, arrived)
                 ELSE {[o |-> o, words |-> <<>>]} :
        \E q \in IF p.o.request_finished_ /\ p.o.response_ = "none"
                 THEN finish_callback_(h, p.o) ELSE {p.o} :
            /\ queue_response(c, q, p.o.free_callback_)
            /\ obj' = [obj EXCEPT ![s] = q]
            /\ left' = [left EXCEPT ![c] = SubSeq(@, n + 1, Len(@))]
            /\ read' = [read EXCEPT ![c] = @ \o p.words]
            /\ crashed' = (q.response_ = "exception")
            /\ UNCHANGED <<handler, doc>>

\* The first call for a request: handle_request() installs the callbacks, with the
\* data that they share, or refuses.
firstCall(c) ==
    /\ phase[c] = "calling" /\ con_cls[c] = NULL /\ handler[c] # "Invalid"
    /\ \E s \in States :
         /\ get_request_state(s)
         /\ con_cls' = [con_cls EXCEPT ![c] = s]
         /\ IF handler[c] = "Unknown"
            THEN /\ obj' = [obj EXCEPT ![s] = set_empty_response(clear)]
                 /\ UNCHANGED <<phase, handler, doc, left, read, reader, live, crashed>>
            ELSE LET data == handler[c] # "Admin"
                 IN  handle(c, s, [clear EXCEPT !.free_callback_ = data, !.callback_data_ = data], 0)

\* A part of the body arrives.
bodyCall(c, n) ==
    /\ phase[c] = "calling" /\ con_cls[c] # NULL
    /\ handle(c, con_cls[c], obj[con_cls[c]], n)
    /\ UNCHANGED <<con_cls, requests_>>

\* Mutant: the end of the body is not noticed.
lastCallUnmarked(c) ==
    /\ phase[c] = "calling" /\ con_cls[c] # NULL /\ left[c] = <<>>
    /\ handle(c, con_cls[c], obj[con_cls[c]], 0)
    /\ UNCHANGED <<con_cls, requests_>>

\* A call without data: the body has ended.  It is repeated until there is a response.
lastCall(c) ==
    /\ phase[c] = "calling" /\ con_cls[c] # NULL /\ left[c] = <<>>
    /\ handle(c, con_cls[c], [obj[con_cls[c]] EXCEPT !.request_finished_ = TRUE], 0)
    /\ UNCHANGED <<con_cls, requests_>>

-----------------------------------------------------------------------------

\* used[i] is how much of a block the first i items of document d behind the n-th take.
Filling(d, n, used) ==
    /\ used[0] = 0
    /\ \A i \in DOMAIN used \ {0} : used[i] = used[i - 1] + d[n + i]

\* The write callback can put k items behind the n-th into a block.
Fits(d, n, k) == \E used \in [0..k -> 0..Block] : Filling(d, n, used)

\* How many items of document d behind the first n the write callback puts into a
\* block: as many as fit.  A document that is written as a whole is one item.
Fitting(d, n) ==
    CHOOSE k \in 0..(Len(d) - n) : Fits(d, n, k) /\ (k < Len(d) - n => ~Fits(d, n, k + 1))

\* ContentReaderState::process() asks the callback for more unless that is finished.
callback_write_(r, d) ==
    IF r.callback_finished_ THEN r
    ELSE IF r.pos = Len(d) THEN [r EXCEPT !.callback_finished_ = TRUE]
    ELSE [r EXCEPT !.pos = @ + Fitting(d, r.pos)]

\* Mutant: what the callback has produced last is forgotten once it is finished.
process_normalCut(r) ==
    IF r.callback_finished_ \/ r.taken = r.pos THEN {[r EXCEPT !.ended = TRUE]}
    ELSE {[r EXCEPT !.taken = @ + 1, !.out = @ + 1]}

\* process_normal(): an empty buffer ends the response.  The buffer, at most one
\* block, is sent as a whole.
process_normal(r) ==
    IF r.taken = r.pos THEN {[r EXCEPT !.ended = TRUE]}
    ELSE {[r EXCEPT !.taken = r.pos, !.out = r.pos]}

\* process_gzip(): deflate() takes some of the buffer and gives out some of what it
\* has taken; when the buffer is empty it is told to finish.
process_gzip(r) ==
    CASE r.z_finished_ -> {[r EXCEPT !.ended = TRUE]}
      [] ~r.z_finished_ /\ r.taken = r.pos ->
           {[r EXCEPT !.out = k, !.z_finished_ = (k = r.taken)] :
               k \in {i \in r.out..r.taken : i > r.out \/ i = r.taken}}
      [] OTHER ->
           UNION {{[r EXCEPT !.taken = t, !.out = k] : k \in r.out..t} : t \in (r.taken + 1)..r.pos}

\* MHD calls the content reader for the next block, or sends the empty response.
process(c) ==
    /\ phase[c] = "sending"
    /\ IF obj[con_cls[c]].response_ = "empty"
       THEN phase' = [phase EXCEPT ![c] = "closing"] /\ UNCHANGED reader
       ELSE LET r == callback_write_(reader[c], doc[c])
            IN  \E q \in IF r.gzip_ THEN process_gzip(r) ELSE process_normal(r) :
                    /\ reader' = [reader EXCEPT ![c] = q]
                    /\ phase' = [phase EXCEPT ![c] = IF q.ended THEN "closing" ELSE "sending"]
    /\ UNCHANGED <<handler, doc, left, con_cls, read, live, obj, requests_, crashed>>

\* The client goes away, or is idle for too long.
terminate(c) ==
    /\ phase[c] \in {"calling", "sending"}
    /\ phase' = [phase EXCEPT ![c] = "closing"]
    /\ UNCHANGED <<handler, doc, left, con_cls, read, reader, live, obj, requests_, crashed>>

\* REST_RequestCleanupCallback(): the data is freed if the state object has it.
cleanup(c) ==
    /\ phase[c] = "closing" /\ con_cls[c] # NULL
    /\ LET o == obj[con_cls[c]]
       IN  live' = [live EXCEPT ![c] = @ - (IF o.free_callback_ /\ o.callback_data_ THEN 1 ELSE 0)]
    /\ obj' = [obj EXCEPT ![con_cls[c]] = clear]
    /\ requests_' = Append(requests_, con_cls[c])
    /\ con_cls' = [con_cls EXCEPT ![c] = NULL]
    /\ UNCHANGED <<phase, handler, doc, left, read, reader, crashed>>

\* ~ContentReaderState(), when MHD destroys the response it has sent.
callback_free(c) ==
    /\ phase[c] = "closing" /\ reader[c].callback_free_
    /\ live' = [live EXCEPT ![c] = @ - 1]
    /\ reader' = [reader EXCEPT ![c].callback_free_ = FALSE]
    /\ UNCHANGED <<phase, handler, doc, left, con_cls, read, obj, requests_, crashed>>

\* The connection is ready for the next request.
closed(c) ==
    /\ phase[c] = "closing" /\ con_cls[c] = NULL /\ ~reader[c].callback_free_
    /\ phase' = [phase EXCEPT ![c] = "idle"]
    /\ handler' = [handler EXCEPT ![c] = "Unknown"]
    /\ doc' = [doc EXCEPT ![c] = <<>>]
    /\ left' = [left EXCEPT ![c] = <<>>]
    /\ read' = [read EXCEPT ![c] = <<>>]
    /\ reader' = [reader EXCEPT ![c] = NoReader]
    /\ UNCHANGED <<con_cls, live, obj, requests_, crashed>>

Connection(c) ==
    \/ \E h \in Handlers[c] : \E d \in Docs(h) : request(c, h, d)
    \/ invalid_argument(c) \/ firstCall(c) \/ lastCall(c)
    \/ \E n \in 1..Len(left[c]) : bodyCall(c, n)
    \/ process(c) \/ terminate(c) \/ cleanup(c) \/ callback_free(c) \/ closed(c)

\* An exception ends the process.
Next ==
    \/ ~crashed /\ \E c \in Conns : Connection(c)
    \/ crashed /\ UNCHANGED vars

Spec == Init /\ [][Next]_vars

\* MHD's threads go on; the body of a request arrives or its connection times out;
\* a lock that is tried again and again is got.
Fairness ==
    \A c \in Conns :
        /\ WF_vars(firstCall(c)) /\ WF_vars(lastCall(c) /\ phase'[c] # phase[c])
        /\ WF_vars(\E n \in 1..Len(left[c]) : bodyCall(c, n))
        /\ WF_vars(process(c)) /\ WF_vars(cleanup(c))
        /\ WF_vars(callback_free(c)) /\ WF_vars(closed(c))

FairSpec == Spec /\ Fairness

-----------------------------------------------------------------------------

\* Every variable has its type, and a connection that waits for a request has no
\* state object.
TypeOK ==
    /\ phase \in [Conns -> {"idle", "calling", "sending", "closing"}]
    /\ handler \in [Conns -> DOMAIN Handler]
    /\ con_cls \in [Conns -> States \cup {NULL}]
    /\ \A c \in Conns : phase[c] = "idle" => con_cls[c] = NULL
    /\ \A s \in States : obj[s].response_ \in {"none", "empty", "callback", "exception"}
    /\ requests_ \in Seq(States)
    /\ live \in [Conns -> Int]
    /\ crashed \in BOOLEAN

\* The pool and the connections share the state objects without overlap: no object
\* is in the pool twice, in the pool and in use, or used by two connections.  The data
\* of a request, with the read locks it holds, is freed exactly once, however the
\* request ends, and not before its response has been sent.  Every variable has its type.
PoolSound ==
    /\ TypeOK
    /\ \A i, j \in DOMAIN requests_ : requests_[i] = requests_[j] => i = j
    /\ \A c \in Conns, i \in DOMAIN requests_ : con_cls[c] # requests_[i]
    /\ \A c, d \in Conns : con_cls[c] = con_cls[d] /\ con_cls[c] # NULL => c = d
    /\ \A c \in Conns :
         /\ live[c] \in {0, 1}
         /\ phase[c] = "idle" => live[c] = 0
         /\ phase[c] = "sending" /\ reader[c].callback_free_ => live[c] = 1

\* The handler gets the same entries however the network cuts the body into parts:
\* none is lost, split or read twice.
ChunkingIrrelevant ==
    \A c \in Conns :
        phase[c] = "sending" /\ obj[con_cls[c]].response_ = "callback" =>
            read[c] = (CASE Handler[handler[c]].body = "entries" -> Entries(Body)
                         [] Handler[handler[c]].body = "words" -> Words(Body)
                         [] Handler[handler[c]].body = "ignored" -> <<>>)

\* A response whose items fit into a block each is sent completely, compressed or
\* not, before it is ended.
StreamComplete ==
    \A c \in Conns :
        reader[c].ended /\ (\A i \in DOMAIN doc[c] : doc[c][i] <= Block) =>
            reader[c].out = Len(doc[c])

\* Every request that could be parsed is answered or given up in the end, and its
\* state object returns to the pool.
RequestEnds == \A c \in Conns : con_cls[c] # NULL ~> con_cls[c] = NULL \/ crashed

\* GetNetMapWrite() and its like end a response once the position has reached its
\* length: whatever its size, a response that is ended has been sent completely.
ResponseWhole == \A c \in Conns : reader[c].ended => reader[c].out = Len(doc[c])
=============================================================================
