------------------------- MODULE RestRequestProofs --------------------------
(***************************************************************************)
(* Proofs about RestRequest for any number of connections and state        *)
(* objects, any body, any responses and any assignment of handlers.        *)
(***************************************************************************)
EXTENDS RestRequest, WellFoundedInduction, TLAPS

\* The provers' time limits, where a step names no prover.
USE ZenonT(20), SMTT(20)

ObjFields == {"response_", "free_callback_", "callback_data_", "request_finished_"}
IsObj(o) == ObjFields \subseteq DOMAIN o

IsReader(r) == "callback_free_" \in DOMAIN r

Shapes ==
    /\ obj = [s \in States |-> obj[s]] /\ \A s \in States : IsObj(obj[s])
    /\ reader = [c \in Conns |-> reader[c]] /\ \A c \in Conns : IsReader(reader[c])

\* No object is in the pool twice, in the pool and in use, or used twice.
NoOverlap ==
    /\ \A i, j \in DOMAIN requests_ : requests_[i] = requests_[j] => i = j
    /\ \A c \in Conns, i \in DOMAIN requests_ : con_cls[c] # requests_[i]
    /\ \A c, d \in Conns : con_cls[c] = con_cls[d] /\ con_cls[c] # NULL => c = d

\* Who owes the freeing of the data of a request in phase ph: the response with reader r, or
\* the state object o, and never both ...
Owes(ph, o, r, n) ==
    /\ r.callback_free_ => ph \in {"sending", "closing"} /\ ~o.free_callback_
    /\ n = (IF r.callback_free_ \/ (o.free_callback_ /\ o.callback_data_) THEN 1 ELSE 0)
    /\ ph = "calling" => /\ o.free_callback_ <=> o.callback_data_
                         /\ o.response_ \in {"none", "empty"}

\* ... or only the response, when there is no state object.
OwesResponse(ph, r, n) ==
    /\ r.callback_free_ => ph = "closing"
    /\ n = (IF r.callback_free_ THEN 1 ELSE 0)

LawOf(ph, s, o, r, n) == IF s = NULL THEN OwesResponse(ph, r, n) ELSE Owes(ph, o, r, n)

Law(c) == LawOf(phase[c], con_cls[c], obj[con_cls[c]], reader[c], live[c])

\* What PoolSound says about the data of one request.
LiveOf(ph, r, n) ==
    /\ n \in {0, 1}
    /\ ph = "idle" => n = 0
    /\ ph = "sending" /\ r.callback_free_ => n = 1

LiveOK(c) == LiveOf(phase[c], reader[c], live[c])

\* An exception leaves the access handler between the steps that keep the law of its
\* connection; the process ends there.
IInv ==
    /\ TypeOK /\ NoOverlap /\ Shapes
    /\ \A c \in Conns : LiveOK(c)
    /\ ~crashed => \A c \in Conns : Law(c)

-----------------------------------------------------------------------------
(* The state objects and the content readers. *)

\* q is o after some steps of the handler, its callbacks and data as they were.
Kept(o, q) ==
    /\ IsObj(q) /\ q.free_callback_ = o.free_callback_ /\ q.callback_data_ = o.callback_data_
    /\ q.response_ \in {o.response_, "empty", "exception"}

\* Reading from the buffer, or replacing it, keeps the callbacks.
LEMMA BufferKept ==
    ASSUME NEW o, IsObj(o), NEW b
    PROVE  Kept(o, [o EXCEPT !.buffer_ = b])
  BY DEF IsObj, ObjFields, Kept

LEMMA EmptyKept ==
    ASSUME NEW o, IsObj(o)
    PROVE  Kept(o, set_empty_response(o)) /\ Kept(o, throw(o)) /\ Kept(o, o)
  BY DEF IsObj, ObjFields, Kept, set_empty_response, throw

\* Two such steps, one after the other.
LEMMA KeptTwice ==
    ASSUME NEW o, NEW p, NEW q, Kept(o, p), Kept(p, q)
    PROVE  Kept(o, q)
  BY DEF Kept

\* The process callback of a handler changes the buffer and the response only.
LEMMA Processed ==
    ASSUME NEW h, NEW o, IsObj(o), NEW p \in process_request_data(h, o)
    PROVE  Kept(o, p.o)
<1> DEFINE n == get_datalen(o)
           data == SubSeq(o.buffer_, 1, n)
           mark == IF o.request_finished_ THEN n ELSE WordEnd(data, Len(Entries(data)))
           rest(k) == [o EXCEPT !.buffer_ = consume(o.buffer_, k)]
<1>1. p.o \in {rest(mark), rest(n), set_empty_response(rest(n)), throw(o)}
  BY SMTT(20) DEF process_request_data
<1>2. ASSUME NEW k PROVE Kept(o, rest(k)) /\ IsObj(rest(k))
  BY BufferKept DEF Kept
<1>3. Kept(o, set_empty_response(rest(n)))
  BY <1>2, EmptyKept, KeptTwice
<1> HIDE DEF n, mark, rest
<1> QED
  BY <1>1, <1>2, <1>3, EmptyKept

\* The finish callback may also hand the data to the response.
LEMMA Finished ==
    ASSUME NEW h, NEW o, IsObj(o), NEW q \in finish_callback_(h, o)
    PROVE  Kept(o, q) \/ q = set_callback_response(o)
<1>1. q \in {o, set_empty_response(o), throw(o), set_callback_response(o)}
  BY DEF finish_callback_
<1> QED
  BY <1>1, EmptyKept

\* What process_normal() and process_gzip() may make of a reader.
Sends(w, q) ==
    \/ q = [w EXCEPT !.ended = TRUE]
    \/ \E t, k : q = [w EXCEPT !.taken = t, !.out = k]
    \/ \E k, z : q = [w EXCEPT !.out = k, !.z_finished_ = z]

LEMMA SendForms ==
    ASSUME NEW w, NEW q \in IF w.gzip_ THEN process_gzip(w) ELSE process_normal(w)
    PROVE  Sends(w, q)
<1>1. CASE q \in process_normal(w)
  BY <1>1, Zenon DEF process_normal, Sends
<1>2. CASE q \in process_gzip(w)
  <2>1. CASE w.z_finished_
    BY <1>2, <2>1, Zenon DEF process_gzip, Sends
  <2>2. CASE ~w.z_finished_ /\ w.taken = w.pos
    <3>1. PICK k \in {i \in w.out..w.taken : i > w.out \/ i = w.taken} :
             q = [w EXCEPT !.out = k, !.z_finished_ = (k = w.taken)]
      BY <1>2, <2>2, Zenon DEF process_gzip
    <3> QED
      BY <3>1, Zenon DEF Sends
  <2>3. CASE ~w.z_finished_ /\ w.taken # w.pos
    <3>1. PICK t \in (w.taken + 1)..w.pos : q \in {[w EXCEPT !.taken = t, !.out = k] : k \in w.out..t}
      BY <1>2, <2>3, Zenon DEF process_gzip
    <3> QED
      BY <3>1, Zenon DEF Sends
  <2> QED
    BY <2>1, <2>2, <2>3
<1> QED
  BY <1>1, <1>2

\* callback_write_(), process_normal() and process_gzip() leave the ownership of the data.
SameOwner(r, q) == IsReader(q) /\ q.callback_free_ = r.callback_free_

LEMMA ReaderKept ==
    ASSUME NEW r, IsReader(r), NEW d,
           NEW q \in IF callback_write_(r, d).gzip_ THEN process_gzip(callback_write_(r, d))
                     ELSE process_normal(callback_write_(r, d))
    PROVE  SameOwner(r, q)
<1> DEFINE w == callback_write_(r, d)
<1>1. SameOwner(r, w)
  BY DEF callback_write_, SameOwner, IsReader
<1>2. Sends(w, q)
  BY SendForms
<1> HIDE DEF w
<1>3. IsReader(w) /\ w.callback_free_ = r.callback_free_
  BY <1>1 DEF SameOwner
<1>4. ASSUME NEW t, NEW k, q = [w EXCEPT !.taken = t, !.out = k] PROVE SameOwner(r, q)
  BY <1>3, <1>4 DEF SameOwner, IsReader
<1>5. ASSUME NEW k, NEW z, q = [w EXCEPT !.out = k, !.z_finished_ = z] PROVE SameOwner(r, q)
  BY <1>3, <1>5 DEF SameOwner, IsReader
<1>6. CASE q = [w EXCEPT !.ended = TRUE]
  BY <1>3, <1>6 DEF SameOwner, IsReader
<1> QED
  BY <1>2, <1>4, <1>5, <1>6, Zenon DEF Sends

\* The law of a connection covers what PoolSound says about its data.
LEMMA LawSuffices ==
    ASSUME NEW ph, NEW s, NEW o, NEW r, NEW n, LawOf(ph, s, o, r, n), ph = "idle" => s = NULL
    PROVE  LiveOf(ph, r, n)
<1>1. CASE s = NULL
  BY <1>1 DEF LawOf, OwesResponse, LiveOf
<1>2. CASE s # NULL
  BY <1>2 DEF LawOf, Owes, LiveOf
<1> QED
  BY <1>1, <1>2

-----------------------------------------------------------------------------
(* The calls of the access handler. *)

\* What the access handler leaves of connection c, for which it has got object q.
Handled(c, q) ==
    /\ IsObj(q) /\ q.response_ \in {"none", "empty", "callback", "exception"}
    /\ phase' = [phase EXCEPT ![c] = phase'[c]] /\ phase'[c] \in {"calling", "sending", "closing"}
    /\ live' = [live EXCEPT ![c] = live'[c]] /\ live'[c] \in Int
    /\ reader' = [reader EXCEPT ![c] = reader'[c]] /\ IsReader(reader'[c])
    /\ \/ crashed' = TRUE /\ UNCHANGED <<phase, reader>> /\ live'[c] \in {0, 1}
       \/ crashed' = FALSE /\ Owes(phase'[c], q, reader'[c], live'[c])

LEMMA HandleEffect ==
    ASSUME TypeOK, Shapes, NEW c \in Conns, NEW s \in States, NEW o, NEW n, IsObj(o),
           o.free_callback_ <=> o.callback_data_, o.response_ \in {"none", "empty"},
           phase[c] = "calling", ~reader[c].callback_free_, handle(c, s, o, n)
    PROVE  \E q : obj' = [obj EXCEPT ![s] = q] /\ Handled(c, q) /\ UNCHANGED handler
<1> DEFINE arrived == [o EXCEPT !.buffer_ = @ \o SubSeq(left[c], 1, n)]
           h == handler[c]
<1>1. PICK p \in IF o.response_ = "none" THEN process_request_data(h, arrived)
                 ELSE {[o |-> o, words |-> <<>>]} :
      \E q \in IF p.o.request_finished_ /\ p.o.response_ = "none"
               THEN finish_callback_(h, p.o) ELSE {p.o} :
          /\ queue_response(c, q, p.o.free_callback_)
          /\ obj' = [obj EXCEPT ![s] = q]
          /\ left' = [left EXCEPT ![c] = SubSeq(@, n + 1, Len(@))]
          /\ read' = [read EXCEPT ![c] = @ \o p.words]
          /\ crashed' = (q.response_ = "exception")
          /\ UNCHANGED <<handler, doc>>
  BY Zenon DEF handle
<1> DEFINE m == p.o
<1>2. PICK q \in IF m.request_finished_ /\ m.response_ = "none"
                 THEN finish_callback_(h, m) ELSE {m} :
          /\ queue_response(c, q, m.free_callback_) /\ obj' = [obj EXCEPT ![s] = q]
          /\ crashed' = (q.response_ = "exception") /\ UNCHANGED handler
  BY <1>1, Zenon
<1>3. Kept(o, m)
  <2>1. Kept(o, arrived) /\ IsObj(arrived)
    BY BufferKept, Zenon DEF Kept
  <2>2. CASE o.response_ = "none"
    <3>1. p \in process_request_data(h, arrived)
      BY <1>1, <2>2
    <3> HIDE DEF arrived, h
    <3> QED
      BY <2>1, <3>1, Processed, KeptTwice
  <2>3. CASE o.response_ # "none"
    BY SMTT(20), <1>1, <2>3, EmptyKept
  <2> QED
    BY <2>2, <2>3
<1> HIDE DEF m, h, arrived
<1>4. Kept(m, q) \/ (m.request_finished_ /\ q = set_callback_response(m))
  <2>1. IsObj(m)
    BY <1>3 DEF Kept
  <2>2. (m.request_finished_ /\ q \in finish_callback_(h, m)) \/ q = m
    BY <1>2
  <2> QED
    BY <2>1, <2>2, Finished, EmptyKept
<1>5. /\ IsObj(q) /\ q.response_ \in {"none", "empty", "callback", "exception"}
      /\ q.callback_data_ <=> o.callback_data_
      /\ q.response_ = "callback" => ~q.free_callback_ /\ q.request_finished_
      /\ q.response_ # "callback" => (q.free_callback_ <=> o.callback_data_)
      /\ m.free_callback_ <=> o.callback_data_
  <2>1. IsObj(m) /\ m.response_ \in {"none", "empty", "exception"}
        /\ m.free_callback_ = o.free_callback_ /\ m.callback_data_ = o.callback_data_
    BY <1>3 DEF Kept
  <2>2. CASE Kept(m, q)
    BY <2>1, <2>2 DEF Kept
  <2>3. CASE m.request_finished_ /\ q = set_callback_response(m)
    BY <2>1, <2>3 DEF set_callback_response, IsObj, ObjFields
  <2> QED
    BY <1>4, <2>2, <2>3
<1>6. /\ phase \in [Conns -> {"idle", "calling", "sending", "closing"}] /\ live \in [Conns -> Int]
      /\ reader = [d \in Conns |-> reader[d]] /\ IsReader(reader[c])
  BY DEF TypeOK, Shapes
<1>a. Allocated(q) = IF o.callback_data_ THEN 1 ELSE 0
  BY <1>5 DEF Allocated
<1>c. crashed' = (q.response_ = "exception")
  BY <1>2
<1>7. Handled(c, q)
  <2>1. CASE /\ ~q.request_finished_ \/ q.response_ \in {"none", "exception"}
             /\ UNCHANGED <<phase, reader>>
             /\ live' = [live EXCEPT ![c] = Allocated(q)]
    <3>1. phase'[c] = "calling" /\ reader'[c] = reader[c] /\ live'[c] = Allocated(q)
      BY <1>6, <2>1
    <3>2. CASE q.response_ = "exception"
      <4>1. crashed' = TRUE
        BY <1>c, <3>2, Zenon
      <4> QED
        BY SMTT(20), <1>5, <1>6, <1>a, <2>1, <3>1, <4>1 DEF Handled
    <3>3. CASE q.response_ # "exception"
      <4>1. crashed' = FALSE
        BY <1>c, <3>3, Zenon
      <4>2. Owes("calling", q, reader[c], Allocated(q))
        BY <1>5, <1>a, <2>1, <3>3 DEF Owes
      <4> QED
        BY SMTT(20), <1>5, <1>6, <1>a, <2>1, <3>1, <4>1, <4>2 DEF Handled
    <3> QED
      BY <3>2, <3>3
  <2>2. CASE /\ q.request_finished_ /\ q.response_ \in {"empty", "callback"}
             /\ phase' = [phase EXCEPT ![c] = "sending"]
             /\ \E z \in BOOLEAN :
                  reader' = [reader EXCEPT ![c].callback_free_ = m.free_callback_ /\ q.response_ = "callback",
                                           ![c].gzip_ = z /\ q.response_ = "callback"]
             /\ live' = [live EXCEPT ![c] = Allocated(q)]
    <3>1. PICK z \in BOOLEAN :
             reader' = [reader EXCEPT ![c].callback_free_ = m.free_callback_ /\ q.response_ = "callback",
                                      ![c].gzip_ = z /\ q.response_ = "callback"]
      BY <2>2, Zenon
    <3>2. /\ IsReader(reader'[c]) /\ reader' = [reader EXCEPT ![c] = reader'[c]]
          /\ reader'[c].callback_free_ <=> m.free_callback_ /\ q.response_ = "callback"
      BY <1>6, <3>1, Zenon DEF IsReader
    <3>3. phase'[c] = "sending" /\ live'[c] = Allocated(q)
      BY <1>6, <2>2
    <3>4. crashed' = FALSE
      BY <1>c, <2>2, Zenon
    <3>5. Owes("sending", q, reader'[c], Allocated(q))
      BY <1>5, <1>a, <2>2, <3>2 DEF Owes
    <3> QED
      BY SMTT(20), <1>5, <1>6, <1>a, <2>2, <3>2, <3>3, <3>4, <3>5 DEF Handled
  <2>3. CASE /\ q.request_finished_ /\ q.response_ \in {"empty", "callback"}
             /\ phase' = [phase EXCEPT ![c] = "closing"]
             /\ live' = [live EXCEPT ![c] = IF m.free_callback_ /\ q.response_ = "callback" THEN 0
                                           ELSE Allocated(q)]
             /\ UNCHANGED reader
    <3>1. phase'[c] = "closing" /\ reader'[c] = reader[c]
          /\ live'[c] = IF m.free_callback_ /\ q.response_ = "callback" THEN 0 ELSE Allocated(q)
      BY <1>6, <2>3
    <3>2. crashed' = FALSE
      BY <1>c, <2>3, Zenon
    <3>3. Owes("closing", q, reader[c], live'[c])
      BY <1>5, <1>a, <2>3, <3>1 DEF Owes
    <3> QED
      BY SMTT(20), <1>5, <1>6, <1>a, <2>3, <3>1, <3>2, <3>3 DEF Handled
  <2> QED
    BY <1>2, <2>1, <2>2, <2>3, Zenon DEF queue_response
<1> QED
  BY <1>2, <1>7, Zenon

-----------------------------------------------------------------------------
(* The pool. *)

\* A state object that is taken was nobody's, and has left the pool.
Taken(s) ==
    /\ \A d \in Conns : con_cls[d] # s
    /\ requests_' \in Seq(States)
    /\ \A i \in DOMAIN requests_' : requests_'[i] # s
    /\ \A i, j \in DOMAIN requests_' : requests_'[i] = requests_'[j] => i = j
    /\ \A d \in Conns, i \in DOMAIN requests_' : con_cls[d] # requests_'[i]

LEMMA TakeEffect ==
    ASSUME TypeOK, NoOverlap, NEW s \in States, get_request_state(s)
    PROVE  Taken(s)
<1>0. requests_ \in Seq(States)
  BY DEF TypeOK
<1>1. CASE requests_ # <<>>
  <2>1. s = Head(requests_) /\ requests_' = Tail(requests_)
    BY <1>1 DEF get_request_state
  <2>2. 1 \in DOMAIN requests_ /\ s = requests_[1]
    BY SMTT(20), <1>0, <1>1, <2>1
  <2>3. requests_' \in Seq(States)
    BY SMTT(20), <1>0, <1>1, <2>1
  <2>4. \A i \in DOMAIN requests_' :
           i + 1 \in DOMAIN requests_ /\ requests_'[i] = requests_[i + 1] /\ i \in Nat /\ i >= 1
    BY SMTT(20), <1>0, <1>1, <2>1
  <2>5. \A d \in Conns : con_cls[d] # s
    BY <2>2 DEF NoOverlap
  <2>6. \A i \in DOMAIN requests_' : requests_'[i] # s
    BY SMTT(20), <2>2, <2>4 DEF NoOverlap
  <2>7. \A i, j \in DOMAIN requests_' : requests_'[i] = requests_'[j] => i = j
    BY SMTT(20), <2>4 DEF NoOverlap
  <2>8. \A d \in Conns, i \in DOMAIN requests_' : con_cls[d] # requests_'[i]
    BY SMTT(20), <2>4 DEF NoOverlap
  <2> QED
    BY <2>3, <2>5, <2>6, <2>7, <2>8 DEF Taken
<1>2. CASE requests_ = <<>>
  <2>1. s \in Unallocated /\ requests_' = requests_
    BY <1>2 DEF get_request_state
  <2> QED
    BY <1>0, <2>1 DEF Taken, Unallocated, NoOverlap
<1> QED
  BY <1>1, <1>2

\* A state object that is given back is behind the others in the pool.
LEMMA GiveBack ==
    ASSUME TypeOK, NoOverlap, NEW c \in Conns, con_cls[c] # NULL,
           requests_' = Append(requests_, con_cls[c]), con_cls' = [con_cls EXCEPT ![c] = NULL]
    PROVE  NoOverlap' /\ requests_' \in Seq(States)
<1> DEFINE n == Len(requests_) + 1
<1>1. requests_ \in Seq(States) /\ con_cls[c] \in States
  BY DEF TypeOK
<1>2. /\ requests_' \in Seq(States) /\ DOMAIN requests_' = DOMAIN requests_ \cup {n}
      /\ n \notin DOMAIN requests_ /\ requests_'[n] = con_cls[c]
      /\ \A i \in DOMAIN requests_ : requests_'[i] = requests_[i]
  BY SMTT(20), <1>1
<1>3. con_cls'[c] = NULL /\ \A d \in Conns : d # c => con_cls'[d] = con_cls[d]
  BY DEF TypeOK
<1> HIDE DEF n
<1>4. \A i \in DOMAIN requests_ : requests_[i] \in States /\ requests_[i] # NULL /\ con_cls[c] # requests_[i]
  BY SMTT(20), <1>1, SizesAssumption DEF NoOverlap
<1>5. \A i, j \in DOMAIN requests_' : requests_'[i] = requests_'[j] => i = j
  BY SMTT(20), <1>2, <1>4 DEF NoOverlap
<1>6. \A d \in Conns, i \in DOMAIN requests_' : con_cls'[d] # requests_'[i]
  BY SMTT(20), <1>2, <1>3, <1>4 DEF NoOverlap
<1>7. \A d, e \in Conns : con_cls'[d] = con_cls'[e] /\ con_cls'[d] # NULL => d = e
  BY SMTT(20), <1>3 DEF NoOverlap
<1> QED
  BY <1>2, <1>5, <1>6, <1>7 DEF NoOverlap

-----------------------------------------------------------------------------
(* The steps of a connection. *)

\* A step of connection c, as the others see it.
Local(c) ==
    /\ phase' = [phase EXCEPT ![c] = phase'[c]] /\ reader' = [reader EXCEPT ![c] = reader'[c]]
    /\ live' = [live EXCEPT ![c] = live'[c]] /\ con_cls' = [con_cls EXCEPT ![c] = con_cls'[c]]
    /\ \A d \in Conns \ {c} : con_cls[d] # NULL => obj'[con_cls[d]] = obj[con_cls[d]]

LEMMA OthersKept ==
    ASSUME IInv, NEW c \in Conns, Local(c), NEW d \in Conns \ {c}
    PROVE  /\ phase'[d] = phase[d] /\ reader'[d] = reader[d] /\ live'[d] = live[d]
           /\ con_cls'[d] = con_cls[d]
           /\ Law(d) => Law(d)'
           /\ LiveOK(d)'
<1>1. /\ phase'[d] = phase[d] /\ reader'[d] = reader[d] /\ live'[d] = live[d]
      /\ con_cls'[d] = con_cls[d]
  BY Zenon DEF Local, IInv, TypeOK, Shapes
<1>2. LiveOK(d)'
  BY <1>1 DEF IInv, LiveOK
<1>3. CASE con_cls[d] = NULL
  BY <1>1, <1>2, <1>3 DEF Law, LawOf
<1>4. CASE con_cls[d] # NULL
  <2>1. obj'[con_cls'[d]] = obj[con_cls[d]]
    BY <1>1, <1>4 DEF Local
  <2> QED
    BY <1>1, <1>2, <2>1 DEF Law
<1> QED
  BY <1>3, <1>4

\* It is enough that the step keeps the law of its own connection ...
LEMMA LocalStep ==
    ASSUME IInv, ~crashed, NEW c \in Conns, Local(c), TypeOK', NoOverlap', Shapes', Law(c)'
    PROVE  IInv'
<1>1. \A d \in Conns : Law(d)
  BY DEF IInv
<1>2. \A d \in Conns : Law(d)'
  BY <1>1, OthersKept
<1>3. LiveOK(c)'
  <2>1. phase'[c] = "idle" => con_cls'[c] = NULL
    BY DEF TypeOK
  <2> QED
    BY <2>1, LawSuffices DEF Law, LiveOK
<1>4. \A d \in Conns : LiveOK(d)'
  BY <1>3, OthersKept
<1> QED
  BY <1>2, <1>4 DEF IInv

\* ... or ends the process in the middle of a call.
LEMMA CrashStep ==
    ASSUME IInv, NEW c \in Conns, Local(c), TypeOK', NoOverlap', Shapes', crashed' = TRUE,
           phase'[c] = "calling", live'[c] \in {0, 1}
    PROVE  IInv'
<1>1. LiveOK(c)'
  BY DEF LiveOK, LiveOf
<1>2. \A d \in Conns : LiveOK(d)'
  BY <1>1, OthersKept
<1> QED
  BY <1>2 DEF IInv

\* A call of the access handler that has state object s.
LEMMA HandledStep ==
    ASSUME IInv, ~crashed, NEW c \in Conns, NEW s \in States, NEW q,
           obj' = [obj EXCEPT ![s] = q], Handled(c, q), UNCHANGED handler, phase[c] = "calling",
           con_cls' = [con_cls EXCEPT ![c] = s], \A d \in Conns \ {c} : con_cls[d] # s,
           NoOverlap', requests_' \in Seq(States)
    PROVE  IInv'
<1>1. TypeOK /\ Shapes
  BY DEF IInv
<1>2. /\ obj' = [x \in States |-> obj'[x]] /\ obj'[s] = q
      /\ \A x \in States : x # s => obj'[x] = obj[x]
  BY <1>1 DEF Shapes
<1>3. con_cls' \in [Conns -> States \cup {NULL}] /\ con_cls'[c] = s /\ s # NULL
  BY <1>1, SizesAssumption DEF TypeOK
<1>4. Local(c)
  <2>1. \A d \in Conns \ {c} : con_cls[d] # NULL => obj'[con_cls[d]] = obj[con_cls[d]]
    BY SMTT(20), <1>1, <1>2 DEF TypeOK
  <2> QED
    BY <1>3, <2>1 DEF Local, Handled
<1>5. Shapes'
  <2>1. reader' = [d \in Conns |-> reader'[d]] /\ \A d \in Conns : IsReader(reader'[d])
    BY <1>1 DEF Shapes, Handled
  <2> QED
    BY <1>1, <1>2, <2>1 DEF Shapes, Handled
<1>6. TypeOK'
  <2>1. /\ phase' \in [Conns -> {"idle", "calling", "sending", "closing"}] /\ live' \in [Conns -> Int]
        /\ phase'[c] # "idle"
    BY SMTT(20), <1>1 DEF TypeOK, Handled
  <2>2. \A d \in Conns : phase'[d] = "idle" => con_cls'[d] = NULL
    BY <1>1, <1>4, <2>1, OthersKept DEF TypeOK
  <2>3. \A x \in States : obj'[x].response_ \in {"none", "empty", "callback", "exception"}
    BY <1>1, <1>2 DEF TypeOK, Handled
  <2>4. crashed' \in BOOLEAN /\ handler' \in [Conns -> DOMAIN Handler]
    BY <1>1, Zenon DEF TypeOK, Handled
  <2> QED
    BY <1>3, <2>1, <2>2, <2>3, <2>4 DEF TypeOK
<1>7. CASE crashed' = TRUE /\ UNCHANGED <<phase, reader>> /\ live'[c] \in {0, 1}
  BY <1>4, <1>5, <1>6, <1>7, CrashStep
<1>8. CASE crashed' = FALSE /\ Owes(phase'[c], q, reader'[c], live'[c])
  <2>1. Law(c)'
    BY <1>2, <1>3, <1>8 DEF Law, LawOf
  <2> QED
    BY <1>4, <1>5, <1>6, <2>1, LocalStep
<1> QED
  BY <1>7, <1>8, Zenon DEF Handled

\* In a call before the response is queued the state object has the data.
LEMMA CallLaw ==
    ASSUME IInv, ~crashed, NEW c \in Conns, phase[c] = "calling"
    PROVE  /\ ~reader[c].callback_free_
           /\ con_cls[c] # NULL =>
                /\ con_cls[c] \in States /\ IsObj(obj[con_cls[c]])
                /\ obj[con_cls[c]].free_callback_ <=> obj[con_cls[c]].callback_data_
                /\ obj[con_cls[c]].response_ \in {"none", "empty"}
           /\ con_cls[c] = NULL => live[c] = 0
<1>1. Law(c) /\ con_cls[c] \in States \cup {NULL}
  BY DEF IInv, TypeOK
<1>2. CASE con_cls[c] = NULL
  BY <1>1, <1>2 DEF Law, LawOf, OwesResponse
<1>3. CASE con_cls[c] # NULL
  <2>1. IsObj(obj[con_cls[c]])
    BY <1>1, <1>3 DEF IInv, Shapes
  <2> QED
    BY <1>1, <1>3, <2>1 DEF Law, LawOf, Owes
<1> QED
  BY <1>2, <1>3

\* Taking object s for connection c, which has none, keeps the objects apart.
LEMMA TakenApart ==
    ASSUME IInv, NEW c \in Conns, con_cls[c] = NULL, NEW s \in States, Taken(s),
           con_cls' = [con_cls EXCEPT ![c] = s] \/ UNCHANGED con_cls
    PROVE  NoOverlap' /\ requests_' \in Seq(States)
<1>1. TypeOK /\ NoOverlap
  BY DEF IInv
<1>2. \A d \in Conns : con_cls'[d] = con_cls[d] \/ (d = c /\ con_cls'[d] = s)
  BY <1>1 DEF TypeOK
<1>3. \A d, e \in Conns : con_cls'[d] = con_cls'[e] /\ con_cls'[d] # NULL => d = e
  BY SMTT(20), <1>1, <1>2 DEF NoOverlap, Taken
<1>4. \A d \in Conns, i \in DOMAIN requests_' : con_cls'[d] # requests_'[i]
  BY <1>2 DEF Taken
<1> QED
  BY <1>3, <1>4 DEF NoOverlap, Taken

LEMMA FirstCallStep ==
    ASSUME IInv, ~crashed, NEW c \in Conns, firstCall(c)
    PROVE  IInv'
<1>1. /\ phase[c] = "calling" /\ con_cls[c] = NULL /\ TypeOK /\ NoOverlap /\ Shapes
      /\ ~reader[c].callback_free_ /\ live[c] = 0
  BY CallLaw DEF firstCall, IInv
<1>2. PICK s \in States :
         /\ get_request_state(s)
         /\ con_cls' = [con_cls EXCEPT ![c] = s]
         /\ IF handler[c] = "Unknown"
            THEN /\ obj' = [obj EXCEPT ![s] = set_empty_response(clear)]
                 /\ UNCHANGED <<phase, handler, doc, left, read, reader, live, crashed>>
            ELSE LET data == handler[c] # "Admin"
                 IN  handle(c, s, [clear EXCEPT !.free_callback_ = data, !.callback_data_ = data], 0)
  BY Zenon DEF firstCall
<1>3. Taken(s)
  BY <1>1, <1>2, TakeEffect
<1>4. NoOverlap' /\ requests_' \in Seq(States) /\ \A d \in Conns \ {c} : con_cls[d] # s
  <2>1. NoOverlap' /\ requests_' \in Seq(States)
    BY <1>1, <1>2, <1>3, TakenApart, Zenon
  <2> QED
    BY <1>3, <2>1 DEF Taken
<1>5. CASE handler[c] = "Unknown"
  <2> DEFINE q == set_empty_response(clear)
  <2>1. obj' = [obj EXCEPT ![s] = q] /\ UNCHANGED <<phase, handler, reader, live, crashed>>
    BY <1>2, <1>5
  <2>2. IsObj(q) /\ q.response_ = "empty" /\ ~q.free_callback_ /\ ~q.callback_data_
    BY DEF set_empty_response, clear, IsObj, ObjFields
  <2> HIDE DEF q
  <2>3. Owes("calling", q, reader[c], live[c])
    BY <1>1, <2>2 DEF Owes
  <2>4. Handled(c, q)
    BY <1>1, <2>1, <2>2, <2>3 DEF Handled, TypeOK, Shapes
  <2> QED
    BY <1>1, <1>2, <1>4, <2>1, <2>4, HandledStep, Zenon
<1>6. CASE handler[c] # "Unknown"
  <2>1. PICK o : /\ IsObj(o) /\ o.response_ = "none" /\ (o.free_callback_ <=> o.callback_data_)
                 /\ handle(c, s, o, 0)
    <3> DEFINE data == handler[c] # "Admin"
               o == [clear EXCEPT !.free_callback_ = data, !.callback_data_ = data]
    <3>1. handle(c, s, o, 0)
      BY <1>2, <1>6
    <3>2. IsObj(o) /\ o.response_ = "none" /\ (o.free_callback_ <=> o.callback_data_)
      BY DEF clear, IsObj, ObjFields
    <3> HIDE DEF o
    <3> QED
      BY <3>1, <3>2
  <2>2. PICK q : obj' = [obj EXCEPT ![s] = q] /\ Handled(c, q) /\ UNCHANGED handler
    BY <1>1, <2>1, HandleEffect
  <2> QED
    BY <1>1, <1>2, <1>4, <2>2, HandledStep, Zenon
<1> QED
  BY <1>5, <1>6

\* The calls with parts of the body, and those after its end.
LEMMA LaterCallStep ==
    ASSUME IInv, ~crashed, NEW c \in Conns, lastCall(c) \/ \E n \in 1..Len(left[c]) : bodyCall(c, n)
    PROVE  IInv'
<1> DEFINE s == con_cls[c]
<1>1. phase[c] = "calling" /\ s # NULL /\ UNCHANGED <<con_cls, requests_>>
  BY DEF lastCall, bodyCall
<1>2. /\ TypeOK /\ NoOverlap /\ Shapes /\ ~reader[c].callback_free_ /\ s \in States
      /\ IsObj(obj[s]) /\ (obj[s].free_callback_ <=> obj[s].callback_data_)
      /\ obj[s].response_ \in {"none", "empty"}
  BY <1>1, CallLaw DEF IInv
<1>3. PICK o, n : /\ IsObj(o) /\ (o.free_callback_ <=> o.callback_data_)
                  /\ o.response_ \in {"none", "empty"} /\ handle(c, s, o, n)
  <2>1. CASE lastCall(c)
    <3> DEFINE o == [obj[s] EXCEPT !.request_finished_ = TRUE]
    <3>1. handle(c, s, o, 0)
      BY <2>1 DEF lastCall
    <3>2. /\ IsObj(o) /\ (o.free_callback_ <=> o.callback_data_)
          /\ o.response_ \in {"none", "empty"}
      BY <1>2 DEF IsObj, ObjFields
    <3> HIDE DEF o
    <3> QED
      BY <3>1, <3>2
  <2>2. CASE \E n \in 1..Len(left[c]) : bodyCall(c, n)
    BY <1>2, <2>2 DEF bodyCall
  <2> QED
    BY <2>1, <2>2
<1>4. PICK q : obj' = [obj EXCEPT ![s] = q] /\ Handled(c, q) /\ UNCHANGED handler
  <2> HIDE DEF s
  <2> QED
    BY <1>1, <1>2, <1>3, HandleEffect
<1>5. /\ con_cls' = [con_cls EXCEPT ![c] = s] /\ \A d \in Conns \ {c} : con_cls[d] # s
      /\ NoOverlap' /\ requests_' \in Seq(States)
  BY <1>1, <1>2 DEF TypeOK, NoOverlap
<1> QED
  BY <1>1, <1>2, <1>4, <1>5, HandledStep, Zenon

\* The head cannot be parsed: an object leaves the pool, and no connection gets it.
LEMMA InvalidStep ==
    ASSUME IInv, ~crashed, NEW c \in Conns, invalid_argument(c)
    PROVE  IInv'
<1>1. TypeOK /\ NoOverlap /\ Shapes /\ Law(c)
  BY DEF IInv
<1>2. /\ con_cls[c] = NULL
      /\ UNCHANGED <<phase, handler, doc, left, con_cls, read, reader, live, crashed>>
  BY DEF invalid_argument
<1>3. PICK s \in States : get_request_state(s) /\ obj' = [obj EXCEPT ![s] = set_empty_response(clear)]
  BY Zenon DEF invalid_argument
<1>4. Taken(s)
  BY <1>1, <1>3, TakeEffect
<1>5. NoOverlap' /\ requests_' \in Seq(States)
  BY <1>2, <1>4, TakenApart
<1>6. IsObj(set_empty_response(clear)) /\ set_empty_response(clear).response_ = "empty"
  BY DEF set_empty_response, clear, IsObj, ObjFields
<1>7. /\ obj' = [x \in States |-> obj'[x]] /\ \A x \in States : x # s => obj'[x] = obj[x]
      /\ IsObj(obj'[s]) /\ obj'[s].response_ = "empty"
  BY <1>1, <1>3, <1>6 DEF Shapes
<1>8. Shapes'
  BY <1>1, <1>2, <1>7 DEF Shapes
<1>9. TypeOK'
  BY <1>1, <1>2, <1>5, <1>7, Zenon DEF TypeOK
<1>10. Local(c)
  <2>1. \A d \in Conns : con_cls[d] # NULL => obj'[con_cls[d]] = obj[con_cls[d]]
    BY SMTT(20), <1>1, <1>4, <1>7 DEF TypeOK, Taken
  <2> QED
    BY <1>1, <1>2, <2>1, Zenon DEF Local, TypeOK, Shapes
<1>11. Law(c)'
  BY <1>1, <1>2 DEF Law, LawOf
<1> QED
  BY <1>5, <1>8, <1>9, <1>10, <1>11, LocalStep

\* A step that leaves the pool and the objects, and keeps the law of its connection.
OwnChange(c) ==
    /\ UNCHANGED <<con_cls, obj, requests_, crashed>>
    /\ phase' = [phase EXCEPT ![c] = phase'[c]]
    /\ phase'[c] \in {"calling", "sending", "closing"} \/ (phase'[c] = "idle" /\ con_cls[c] = NULL)
    /\ reader' = [reader EXCEPT ![c] = reader'[c]] /\ IsReader(reader'[c])
    /\ live' = [live EXCEPT ![c] = live'[c]] /\ live'[c] \in Int
    /\ handler' \in [Conns -> DOMAIN Handler]
    /\ LawOf(phase'[c], con_cls[c], obj[con_cls[c]], reader'[c], live'[c])

LEMMA OwnStep ==
    ASSUME IInv, ~crashed, NEW c \in Conns, OwnChange(c)
    PROVE  IInv'
<1>1. TypeOK /\ NoOverlap /\ Shapes
  BY DEF IInv
<1>2. Local(c)
  BY <1>1 DEF OwnChange, Local, TypeOK
<1>3. NoOverlap'
  BY <1>1 DEF OwnChange, NoOverlap
<1>4. Shapes'
  BY <1>1 DEF OwnChange, Shapes
<1>5. TypeOK'
  <2>1. /\ phase' \in [Conns -> {"idle", "calling", "sending", "closing"}] /\ live' \in [Conns -> Int]
        /\ \A d \in Conns : phase'[d] = "idle" => con_cls[d] = NULL
    <3>1. phase' = [phase EXCEPT ![c] = phase'[c]] /\ live' = [live EXCEPT ![c] = live'[c]]
          /\ live'[c] \in Int /\ phase'[c] \in {"idle", "calling", "sending", "closing"}
          /\ (phase'[c] = "idle" => con_cls[c] = NULL)
      BY DEF OwnChange
    <3>2. live' \in [Conns -> Int]
      BY <1>1, <3>1 DEF TypeOK
    <3>3. phase' \in [Conns -> {"idle", "calling", "sending", "closing"}]
      BY <1>1, <3>1, Zenon DEF TypeOK
    <3>4. \A d \in Conns : d # c => phase'[d] = phase[d]
      BY <1>1, <3>1 DEF TypeOK
    <3>5. \A d \in Conns : phase'[d] = "idle" => con_cls[d] = NULL
      BY <1>1, <3>1, <3>4 DEF TypeOK
    <3> QED
      BY <3>2, <3>3, <3>5
  <2> QED
    BY <1>1, <2>1 DEF OwnChange, TypeOK
<1>6. Law(c)'
  BY DEF OwnChange, Law
<1> QED
  BY <1>2, <1>3, <1>4, <1>5, <1>6, LocalStep

LEMMA RequestStep ==
    ASSUME IInv, ~crashed, NEW c \in Conns, NEW h \in Handlers[c], NEW d, request(c, h, d)
    PROVE  IInv'
<1>1. TypeOK /\ Shapes /\ Law(c)
  BY DEF IInv
<1>2. /\ phase[c] = "idle" /\ phase' = [phase EXCEPT ![c] = "calling"]
      /\ handler' = [handler EXCEPT ![c] = h]
      /\ UNCHANGED <<con_cls, reader, live, obj, requests_, crashed>>
  BY DEF request
<1>3. phase'[c] = "calling" /\ con_cls[c] = NULL
  BY <1>1, <1>2 DEF TypeOK
<1>4. OwesResponse("calling", reader[c], live[c])
  BY <1>1, <1>2, <1>3 DEF Law, LawOf, OwesResponse
<1>5. handler' \in [Conns -> DOMAIN Handler]
  <2>1. h \in DOMAIN Handler
    BY HandlersAssumption
  <2> QED
    BY <1>1, <1>2, <2>1 DEF TypeOK
<1>6. /\ IsReader(reader'[c]) /\ reader' = [reader EXCEPT ![c] = reader'[c]]
      /\ live' = [live EXCEPT ![c] = live'[c]] /\ live'[c] \in Int
  BY <1>1, <1>2 DEF TypeOK, Shapes
<1>7. OwnChange(c)
  BY <1>2, <1>3, <1>4, <1>5, <1>6, Zenon DEF OwnChange, LawOf
<1> QED
  BY <1>7, OwnStep

\* The response is sent, block by block, or its client goes away.
LEMMA SendingStep ==
    ASSUME IInv, ~crashed, NEW c \in Conns, process(c) \/ terminate(c)
    PROVE  IInv'
<1>1. TypeOK /\ Shapes /\ Law(c) /\ IsReader(reader[c])
  BY DEF IInv, Shapes
<1>2. /\ phase[c] \in {"calling", "sending"}
      /\ UNCHANGED <<handler, con_cls, live, obj, requests_, crashed>>
  BY DEF process, terminate
<1>3. /\ phase' = [phase EXCEPT ![c] = phase'[c]] /\ phase'[c] \in {"sending", "closing"}
      /\ reader' = [reader EXCEPT ![c] = reader'[c]] /\ SameOwner(reader[c], reader'[c])
      /\ phase'[c] = "sending" => phase[c] = "sending"
  <2>1. CASE terminate(c)
    BY <1>1, <2>1 DEF terminate, TypeOK, Shapes, SameOwner
  <2>2. CASE process(c) /\ obj[con_cls[c]].response_ = "empty"
    BY <1>1, <2>2, Zenon DEF process, TypeOK, Shapes, SameOwner
  <2>3. CASE process(c) /\ obj[con_cls[c]].response_ # "empty"
    <3>1. PICK q \in IF callback_write_(reader[c], doc[c]).gzip_
                     THEN process_gzip(callback_write_(reader[c], doc[c]))
                     ELSE process_normal(callback_write_(reader[c], doc[c])) :
             /\ reader' = [reader EXCEPT ![c] = q]
             /\ phase' = [phase EXCEPT ![c] = IF q.ended THEN "closing" ELSE "sending"]
      BY <2>3 DEF process
    <3>2. SameOwner(reader[c], q)
      BY <1>1, <3>1, ReaderKept
    <3>3. phase[c] = "sending"
      BY <2>3 DEF process
    <3> QED
      BY <1>1, <3>1, <3>2, <3>3 DEF TypeOK, Shapes
  <2> QED
    BY <2>1, <2>2, <2>3
<1>4. LawOf(phase'[c], con_cls[c], obj[con_cls[c]], reader'[c], live[c])
  <2>1. reader'[c].callback_free_ <=> reader[c].callback_free_
    BY <1>3 DEF SameOwner
  <2>2. CASE con_cls[c] = NULL
    BY <1>1, <1>2, <1>3, <2>1, <2>2 DEF Law, LawOf, OwesResponse
  <2>3. CASE con_cls[c] # NULL
    BY <1>1, <1>2, <1>3, <2>1, <2>3 DEF Law, LawOf, Owes
  <2> QED
    BY <2>2, <2>3
<1>5. /\ live' = [live EXCEPT ![c] = live'[c]] /\ live'[c] \in Int /\ IsReader(reader'[c])
      /\ handler' \in [Conns -> DOMAIN Handler]
  BY <1>1, <1>2, <1>3 DEF TypeOK, SameOwner
<1>6. OwnChange(c)
  BY <1>2, <1>3, <1>4, <1>5 DEF OwnChange
<1> QED
  BY <1>6, OwnStep

\* The response is destroyed, and frees the data that it owes.
LEMMA DestroyStep ==
    ASSUME IInv, ~crashed, NEW c \in Conns, callback_free(c)
    PROVE  IInv'
<1>1. TypeOK /\ Shapes /\ Law(c) /\ IsReader(reader[c])
  BY DEF IInv, Shapes
<1>2. /\ phase[c] = "closing" /\ reader[c].callback_free_
      /\ live' = [live EXCEPT ![c] = live[c] - 1]
      /\ reader' = [reader EXCEPT ![c].callback_free_ = FALSE]
      /\ UNCHANGED <<phase, handler, con_cls, obj, requests_, crashed>>
  BY DEF callback_free
<1>3. /\ IsReader(reader'[c]) /\ ~reader'[c].callback_free_
      /\ reader' = [reader EXCEPT ![c] = reader'[c]]
  BY <1>1, <1>2 DEF Shapes, IsReader
<1>4. /\ live' = [live EXCEPT ![c] = live'[c]] /\ live'[c] = live[c] - 1 /\ live[c] \in Int
      /\ phase' = [phase EXCEPT ![c] = phase'[c]] /\ phase'[c] = "closing"
      /\ handler' \in [Conns -> DOMAIN Handler]
  BY <1>1, <1>2 DEF TypeOK
<1>5. LawOf("closing", con_cls[c], obj[con_cls[c]], reader'[c], live'[c])
  <2>1. CASE con_cls[c] = NULL
    BY SMTT(20), <1>1, <1>2, <1>3, <1>4, <2>1 DEF Law, LawOf, OwesResponse
  <2>2. CASE con_cls[c] # NULL
    BY SMTT(20), <1>1, <1>2, <1>3, <1>4, <2>2 DEF Law, LawOf, Owes
  <2> QED
    BY <2>1, <2>2
<1>6. OwnChange(c)
  BY SMTT(20), <1>2, <1>3, <1>4, <1>5 DEF OwnChange
<1> QED
  BY <1>6, OwnStep

\* The connection is ready for the next request.
LEMMA ClosedStep ==
    ASSUME IInv, ~crashed, NEW c \in Conns, closed(c)
    PROVE  IInv'
<1>1. TypeOK /\ Shapes /\ Law(c)
  BY DEF IInv
<1>2. /\ con_cls[c] = NULL /\ ~reader[c].callback_free_
      /\ phase' = [phase EXCEPT ![c] = "idle"] /\ handler' = [handler EXCEPT ![c] = "Unknown"]
      /\ reader' = [reader EXCEPT ![c] = NoReader]
      /\ UNCHANGED <<con_cls, live, obj, requests_, crashed>>
  BY DEF closed
<1>3. IsReader(NoReader) /\ ~NoReader.callback_free_
  BY DEF IsReader, NoReader
<1>4. /\ phase' = [phase EXCEPT ![c] = phase'[c]] /\ phase'[c] = "idle"
      /\ reader' = [reader EXCEPT ![c] = reader'[c]] /\ reader'[c] = NoReader
      /\ live' = [live EXCEPT ![c] = live'[c]] /\ live'[c] \in Int
  BY <1>1, <1>2 DEF TypeOK, Shapes
<1>5. handler' \in [Conns -> DOMAIN Handler]
  <2>1. "Unknown" \in DOMAIN Handler
    BY DEF Handler
  <2> QED
    BY <1>1, <1>2, <2>1 DEF TypeOK
<1>6. LawOf("idle", con_cls[c], obj[con_cls[c]], NoReader, live[c])
  BY <1>1, <1>2, <1>3 DEF Law, LawOf, OwesResponse
<1>7. OwnChange(c)
  BY <1>2, <1>3, <1>4, <1>5, <1>6 DEF OwnChange
<1> QED
  BY <1>7, OwnStep

\* The cleanup callback frees the data that the state object owes, and gives the object back.
LEMMA CleanupStep ==
    ASSUME IInv, ~crashed, NEW c \in Conns, cleanup(c)
    PROVE  IInv'
<1> DEFINE s == con_cls[c]
           o == obj[s]
<1>1. TypeOK /\ NoOverlap /\ Shapes /\ Law(c)
  BY DEF IInv
<1>2. /\ phase[c] = "closing" /\ s # NULL
      /\ live' = [live EXCEPT ![c] = live[c] - (IF o.free_callback_ /\ o.callback_data_ THEN 1 ELSE 0)]
      /\ obj' = [obj EXCEPT ![s] = clear]
      /\ requests_' = Append(requests_, s) /\ con_cls' = [con_cls EXCEPT ![c] = NULL]
      /\ UNCHANGED <<phase, handler, reader, crashed>>
  BY DEF cleanup
<1>3. NoOverlap' /\ requests_' \in Seq(States)
  BY <1>1, <1>2, GiveBack, Zenon
<1>4. s \in States /\ \A d \in Conns \ {c} : con_cls[d] # s
  BY <1>1, <1>2 DEF TypeOK, NoOverlap
<1>5. Owes("closing", o, reader[c], live[c])
  BY <1>1, <1>2 DEF Law, LawOf
<1> HIDE DEF s, o
<1>6. /\ live \in [Conns -> Int] /\ con_cls \in [Conns -> States \cup {NULL}]
  BY <1>1 DEF TypeOK
<1>7. /\ live'[c] = live[c] - (IF o.free_callback_ /\ o.callback_data_ THEN 1 ELSE 0)
      /\ live' \in [Conns -> Int] /\ live' = [live EXCEPT ![c] = live'[c]]
      /\ con_cls'[c] = NULL /\ con_cls' \in [Conns -> States \cup {NULL}]
      /\ con_cls' = [con_cls EXCEPT ![c] = con_cls'[c]]
      /\ \A d \in Conns : d # c => con_cls'[d] = con_cls[d]
  BY SMTT(20), <1>2, <1>6
<1>8. /\ obj' = [x \in States |-> obj'[x]] /\ \A x \in States : x # s => obj'[x] = obj[x]
      /\ IsObj(obj'[s]) /\ obj'[s].response_ = "none"
  BY <1>1, <1>2, <1>4, Zenon DEF Shapes, IsObj, ObjFields, clear
<1>9. Shapes'
  BY <1>1, <1>2, <1>8 DEF Shapes
<1>10. TypeOK'
  BY SMTT(20), <1>1, <1>2, <1>3, <1>7, <1>8 DEF TypeOK
<1>11. Local(c)
  <2>1. \A d \in Conns \ {c} : con_cls[d] # NULL => obj'[con_cls[d]] = obj[con_cls[d]]
    BY <1>4, <1>6, <1>8
  <2> QED
    BY <1>1, <1>2, <1>7, <2>1 DEF Local, TypeOK, Shapes
<1>12. Law(c)'
  <2>1. OwesResponse("closing", reader[c], live'[c])
    BY SMTT(20), <1>5, <1>7 DEF Owes, OwesResponse
  <2> QED
    BY SMTT(20), <1>2, <1>7, <2>1 DEF Law, LawOf
<1> QED
  BY <1>3, <1>9, <1>10, <1>11, <1>12, LocalStep

-----------------------------------------------------------------------------

LEMMA InitIInv == Init => IInv
<1> SUFFICES ASSUME Init PROVE IInv
  OBVIOUS
<1>1. IsObj(clear) /\ clear.response_ = "none"
  BY DEF IsObj, ObjFields, clear
<1>2. IsReader(NoReader) /\ ~NoReader.callback_free_
  BY DEF IsReader, NoReader
<1>3. "Unknown" \in DOMAIN Handler
  BY DEF Handler
<1>4. TypeOK /\ Shapes
  <2>1. Shapes
    BY <1>1, <1>2 DEF Init, Shapes
  <2>2. \A s \in States : obj[s].response_ \in {"none", "empty", "callback", "exception"}
    BY <1>1 DEF Init
  <2>3. handler \in [Conns -> DOMAIN Handler]
    BY <1>3 DEF Init
  <2>4. /\ phase \in [Conns -> {"idle", "calling", "sending", "closing"}] /\ live \in [Conns -> Int]
        /\ con_cls \in [Conns -> States \cup {NULL}] /\ \A c \in Conns : con_cls[c] = NULL
        /\ requests_ \in Seq(States)
    BY SMTT(20) DEF Init
  <2>5. crashed \in BOOLEAN
    BY Zenon DEF Init
  <2> QED
    BY <2>1, <2>2, <2>3, <2>4, <2>5 DEF TypeOK
<1>5. NoOverlap
  BY SMTT(20) DEF Init, NoOverlap
<1>6. \A c \in Conns : Law(c) /\ LiveOK(c)
  BY <1>2, Zenon DEF Init, Law, LawOf, OwesResponse, LiveOK, LiveOf
<1> QED
  BY <1>4, <1>5, <1>6 DEF IInv

LEMMA StepIInv == IInv /\ [Next]_vars => IInv'
<1> SUFFICES ASSUME IInv, [Next]_vars PROVE IInv'
  OBVIOUS
<1>1. CASE UNCHANGED vars
  BY <1>1, Zenon DEF vars, IInv, TypeOK, NoOverlap, Shapes, LiveOK, Law
<1>2. ASSUME ~crashed, NEW c \in Conns, Connection(c) PROVE IInv'
  <2>1. ASSUME NEW h \in Handlers[c], NEW d \in Docs(h), request(c, h, d) PROVE IInv'
    BY <1>2, <2>1, RequestStep
  <2>2. CASE invalid_argument(c)
    BY <1>2, <2>2, InvalidStep
  <2>3. CASE firstCall(c)
    BY <1>2, <2>3, FirstCallStep
  <2>4. CASE lastCall(c) \/ \E n \in 1..Len(left[c]) : bodyCall(c, n)
    BY <1>2, <2>4, LaterCallStep
  <2>5. CASE process(c) \/ terminate(c)
    BY <1>2, <2>5, SendingStep
  <2>6. CASE cleanup(c)
    BY <1>2, <2>6, CleanupStep
  <2>7. CASE callback_free(c)
    BY <1>2, <2>7, DestroyStep
  <2>8. CASE closed(c)
    BY <1>2, <2>8, ClosedStep
  <2> QED
    BY <1>2, <2>1, <2>2, <2>3, <2>4, <2>5, <2>6, <2>7, <2>8 DEF Connection
<1> QED
  BY <1>1, <1>2 DEF Next

\* However many clients send requests, and however each of them ends (answered, refused,
\* given up, timed out), no two of them get the same state object from get_request_state(),
\* and the data of a request is freed exactly once: by REST_RequestCleanupCallback(), or by
\* ~ContentReaderState() if set_callback_response() has handed it to the response.
THEOREM PoolAlwaysSound == Spec => []PoolSound
<1>1. IInv => PoolSound
  BY DEF IInv, NoOverlap, LiveOK, LiveOf, PoolSound
<1> QED
  BY <1>1, InitIInv, StepIInv, PTL DEF Spec
-----------------------------------------------------------------------------
(* How far a response has got. *)

ReaderFields == {"callback_free_", "gzip_", "callback_finished_", "pos", "taken", "out",
                 "z_finished_", "ended"}

IsStream(r) == ReaderFields \subseteq DOMAIN r

Sized(d) == \A i \in DOMAIN d : d[i] <= Block

\* Nothing has been asked of the content reader yet.
Fresh(r) ==
    /\ r.pos = 0 /\ r.taken = 0 /\ r.out = 0
    /\ ~r.callback_finished_ /\ ~r.z_finished_ /\ ~r.ended

\* What is sent is a part of what deflate() has taken, that of what the write callback has
\* produced, and that of the document's len items.
Progress(r, len) ==
    /\ r.pos \in 0..len /\ r.taken \in 0..r.pos /\ r.out \in 0..r.taken
    /\ r.callback_finished_ => r.pos = len
    /\ r.z_finished_ => r.out = len /\ r.taken = len
    /\ ~r.gzip_ => r.out = r.taken
    /\ r.ended => r.out = len

StreamOf(ph, d, r) ==
    /\ IsStream(r) /\ d \in Seq(Nat)
    /\ ph \in {"idle", "calling"} => Fresh(r)
    /\ Sized(d) => Progress(r, Len(d))

StreamInv ==
    /\ phase = [c \in Conns |-> phase[c]] /\ doc = [c \in Conns |-> doc[c]]
    /\ reader = [c \in Conns |-> reader[c]]
    /\ \A c \in Conns : StreamOf(phase[c], doc[c], reader[c])

\* A non-empty set of natural numbers has a least element.
LEMMA Least ==
    ASSUME NEW S \in SUBSET Nat, S # {}
    PROVE  \E m \in S : \A x \in S : m <= x
<1> DEFINE R == OpToRel(<, Nat)
<1>1. IsWellFoundedOn(R, Nat)
  BY NatLessThanWellFounded, Zenon
<1>2. \A x, y \in Nat : <<x, y>> \in R <=> x < y
  BY DEF OpToRel
<1> HIDE DEF R
<1>3. S \subseteq Nat
  OBVIOUS
<1>4. PICK m \in S : \A x \in S : ~(<<x, m>> \in R)
  BY <1>1, <1>3, WFMin, Zenon
<1>5. ASSUME NEW x \in S PROVE m <= x
  <2>1. x \in Nat /\ m \in Nat /\ ~(x < m)
    BY <1>2, <1>3, <1>4, Zenon
  <2> QED
    BY SMTT(20), <2>1
<1> QED
  BY <1>5

\* The write callback makes progress: an item that fits into an empty block is written.
LEMMA SomethingFits ==
    ASSUME NEW d \in Seq(Nat), Sized(d), NEW n \in Nat, n < Len(d)
    PROVE  Fitting(d, n) \in 1..(Len(d) - n)
<1> DEFINE L == Len(d) - n
           Best(k) == Fits(d, n, k) /\ (k < L => ~Fits(d, n, k + 1))
<1>1. L \in Nat /\ 0 < L /\ Block \in Nat
  BY SMTT(20), SizesAssumption
<1>2. Fits(d, n, 0)
  <2>1. [i \in 0..0 |-> 0] \in [0..0 -> 0..Block] /\ Filling(d, n, [i \in 0..0 |-> 0])
    BY SMTT(20), <1>1 DEF Filling
  <2> QED
    BY <2>1 DEF Fits
<1>3. Fits(d, n, 1)
  <2> DEFINE used == [i \in 0..1 |-> IF i = 0 THEN 0 ELSE d[n + 1]]
  <2>1. n + 1 \in DOMAIN d
    BY SMTT(20), <1>1
  <2>2. d[n + 1] \in 0..Block
    BY SMTT(20), <1>1, <2>1 DEF Sized
  <2>3. used \in [0..1 -> 0..Block]
    BY SMTT(20), <1>1, <2>2
  <2>4. Filling(d, n, used)
    BY SMTT(20), <2>2 DEF Filling
  <2> QED
    BY <2>3, <2>4 DEF Fits
<1>4. \E k \in 0..L : Best(k)
  <2> DEFINE S == {m \in 0..L : Fits(d, n, L - m)}
  <2>1. S \subseteq Nat /\ L \in S
    BY SMTT(20), <1>1, <1>2
  <2>2. PICK m \in S : \A x \in S : m <= x
    BY <2>1, Least, Zenon
  <2>3. m \in 0..L /\ L - m \in 0..L /\ Fits(d, n, L - m)
    BY SMTT(20), <1>1, <2>2
  <2>4. ASSUME L - m < L, Fits(d, n, (L - m) + 1) PROVE FALSE
    <3>1. m - 1 \in 0..L /\ L - (m - 1) = (L - m) + 1
      BY SMTT(20), <1>1, <2>3, <2>4
    <3>2. m - 1 \in S
      BY <2>4, <3>1
    <3>3. m <= m - 1
      BY <2>2, <3>2, Zenon
    <3> QED
      BY SMTT(20), <2>3, <3>3
  <2> HIDE DEF S, L
  <2> QED
    BY <2>3, <2>4
<1>5. Fitting(d, n) \in 0..L /\ Best(Fitting(d, n))
  BY <1>4, Zenon DEF Fitting
<1>6. Fitting(d, n) # 0
  BY SMTT(20), <1>1, <1>3, <1>5
<1> QED
  BY SMTT(20), <1>1, <1>5, <1>6

\* callback_write_() produces something unless the document is at its end.
LEMMA WriteProgress ==
    ASSUME NEW d \in Seq(Nat), Sized(d), NEW r, IsStream(r), Progress(r, Len(d))
    PROVE  LET w == callback_write_(r, d)
           IN  Progress(w, Len(d)) /\ (w.taken = w.pos => w.pos = Len(d))
<1>1. CASE r.callback_finished_
  BY <1>1 DEF callback_write_, Progress
<1>2. CASE ~r.callback_finished_ /\ r.pos = Len(d)
  BY <1>2 DEF callback_write_, Progress, IsStream, ReaderFields
<1>3. CASE ~r.callback_finished_ /\ r.pos # Len(d)
  <2> DEFINE k == Fitting(d, r.pos)
             w == [r EXCEPT !.pos = r.pos + k]
  <2>1. r.pos \in Nat /\ r.pos < Len(d) /\ Len(d) \in Nat
    BY SMTT(20), <1>3 DEF Progress
  <2>2. k \in 1..(Len(d) - r.pos)
    BY <2>1, SomethingFits
  <2>3. callback_write_(r, d) = w
    BY <1>3 DEF callback_write_
  <2> HIDE DEF k
  <2>4. /\ w.pos = r.pos + k /\ w.taken = r.taken /\ w.out = r.out /\ w.gzip_ = r.gzip_
        /\ w.callback_finished_ = r.callback_finished_ /\ w.z_finished_ = r.z_finished_
        /\ w.ended = r.ended
    BY DEF IsStream, ReaderFields
  <2> HIDE DEF w
  <2>5. w.pos \in 0..Len(d) /\ w.taken \in 0..r.pos /\ w.out \in 0..w.taken /\ r.pos < w.pos
    BY SMTT(20), <2>1, <2>2, <2>4 DEF Progress
  <2>6. Progress(w, Len(d))
    BY SMTT(20), <1>3, <2>1, <2>4, <2>5 DEF Progress
  <2> QED
    BY SMTT(20), <2>1, <2>3, <2>5, <2>6
<1> QED
  BY <1>1, <1>2, <1>3

LEMMA WriteFields ==
    ASSUME NEW d, NEW r, IsStream(r)
    PROVE  IsStream(callback_write_(r, d))
  BY DEF callback_write_, IsStream, ReaderFields

LEMMA SendFields ==
    ASSUME NEW w, IsStream(w),
           NEW q \in IF w.gzip_ THEN process_gzip(w) ELSE process_normal(w)
    PROVE  IsStream(q)
<1>1. Sends(w, q)
  BY SendForms
<1>2. DOMAIN q = DOMAIN w
  BY <1>1, Zenon DEF Sends
<1> QED
  BY <1>2 DEF IsStream

\* Neither of them ends a response before everything has been sent.
LEMMA SendProgress ==
    ASSUME NEW len \in Nat, NEW w, IsStream(w), Progress(w, len), w.taken = w.pos => w.pos = len,
           NEW q \in IF w.gzip_ THEN process_gzip(w) ELSE process_normal(w)
    PROVE  Progress(q, len)
<1>1. CASE q = [w EXCEPT !.ended = TRUE] /\ w.out = len
  BY <1>1 DEF Progress, IsStream, ReaderFields
<1>2. CASE ~w.gzip_
  <2>1. CASE w.taken = w.pos
    BY <1>1, <1>2, <2>1 DEF process_normal, Progress
  <2>2. CASE w.taken # w.pos
    <3>1. q = [w EXCEPT !.taken = w.pos, !.out = w.pos]
      BY <1>2, <2>2 DEF process_normal
    <3> QED
      BY SMTT(20), <1>2, <2>2, <3>1 DEF Progress, IsStream, ReaderFields
  <2> QED
    BY <2>1, <2>2
<1>3. CASE w.gzip_
  <2>1. CASE w.z_finished_
    BY <1>1, <1>3, <2>1 DEF process_gzip, Progress
  <2>2. CASE ~w.z_finished_ /\ w.taken = w.pos
    <3>1. PICK k \in {i \in w.out..w.taken : i > w.out \/ i = w.taken} :
             q = [w EXCEPT !.out = k, !.z_finished_ = (k = w.taken)]
      BY <1>3, <2>2, Zenon DEF process_gzip
    <3>2. /\ w.pos = len /\ w.taken = len /\ k \in 0..len
          /\ w.ended => k = len
      BY SMTT(20), <2>2, <3>1 DEF Progress
    <3>3. /\ q.pos = w.pos /\ q.taken = w.taken /\ q.out = k /\ q.gzip_ = w.gzip_
          /\ q.callback_finished_ = w.callback_finished_ /\ q.z_finished_ = (k = w.taken)
          /\ q.ended = w.ended
      BY <3>1 DEF IsStream, ReaderFields
    <3> QED
      BY <1>3, <3>2, <3>3, Zenon DEF Progress
  <2>3. CASE ~w.z_finished_ /\ w.taken # w.pos
    <3>1. PICK t \in (w.taken + 1)..w.pos : q \in {[w EXCEPT !.taken = t, !.out = k] : k \in w.out..t}
      BY <1>3, <2>3, Zenon DEF process_gzip
    <3>2. PICK k \in w.out..t : q = [w EXCEPT !.taken = t, !.out = k]
      BY <3>1, Zenon
    <3>3. t \in 0..w.pos /\ k \in 0..t /\ w.out \in 0..k /\ w.pos \in 0..len
      <4>1. w.pos \in 0..len /\ w.taken \in 0..w.pos /\ w.out \in 0..w.taken
        BY DEF Progress
      <4>2. w.pos \in Nat /\ w.taken \in Nat /\ w.out \in Nat
        BY SMTT(20), <4>1
      <4> QED
        BY SMTT(20), <4>1, <4>2
    <3>4. /\ q.pos = w.pos /\ q.taken = t /\ q.out = k /\ q.gzip_ = w.gzip_
          /\ q.callback_finished_ = w.callback_finished_ /\ q.z_finished_ = w.z_finished_
          /\ q.ended = w.ended
      BY <3>2 DEF IsStream, ReaderFields
    <3>5. w.ended => k = len
      <4>1. w.ended => w.out = len
        BY DEF Progress
      <4> QED
        BY SMTT(20), <3>3, <4>1
    <3> QED
      BY <1>3, <2>3, <3>3, <3>4, <3>5 DEF Progress
  <2> QED
    BY <2>1, <2>2, <2>3
<1> QED
  BY <1>2, <1>3

\* A step that changes one connection.
LEMMA StreamStep ==
    ASSUME StreamInv, NEW c \in Conns,
           phase' = [phase EXCEPT ![c] = phase'[c]], doc' = [doc EXCEPT ![c] = doc'[c]],
           reader' = [reader EXCEPT ![c] = reader'[c]],
           StreamOf(phase'[c], doc'[c], reader'[c])
    PROVE  StreamInv'
<1>1. \A e \in Conns : e # c => phase'[e] = phase[e] /\ doc'[e] = doc[e] /\ reader'[e] = reader[e]
  BY DEF StreamInv
<1>2. \A e \in Conns : StreamOf(phase'[e], doc'[e], reader'[e])
  BY <1>1 DEF StreamInv
<1>3. /\ phase' = [e \in Conns |-> phase'[e]] /\ doc' = [e \in Conns |-> doc'[e]]
      /\ reader' = [e \in Conns |-> reader'[e]]
  BY DEF StreamInv
<1> QED
  BY <1>2, <1>3 DEF StreamInv

\* Later phases ask less of a reader.
LEMMA PhaseStep ==
    ASSUME StreamInv, NEW c \in Conns, phase' = [phase EXCEPT ![c] = phase'[c]],
           phase'[c] \in {phase[c], "sending", "closing"}, UNCHANGED <<doc, reader>>
    PROVE  StreamInv'
<1>1. StreamOf(phase'[c], doc'[c], reader'[c])
  BY DEF StreamInv, StreamOf
<1>2. doc' = [doc EXCEPT ![c] = doc'[c]] /\ reader' = [reader EXCEPT ![c] = reader'[c]]
  BY Zenon DEF StreamInv
<1> QED
  BY <1>1, <1>2, StreamStep

\* MHD takes a response, and may ask for it to be compressed.
LEMMA QueueStream ==
    ASSUME StreamInv, NEW c \in Conns, phase[c] = "calling", NEW q, NEW free,
           queue_response(c, q, free), doc' = doc
    PROVE  StreamInv'
<1>1. CASE UNCHANGED <<phase, reader>>
  BY <1>1 DEF StreamInv
<1>2. CASE phase' = [phase EXCEPT ![c] = "closing"] /\ UNCHANGED reader
  <2>1. phase'[c] = "closing"
    BY <1>2 DEF StreamInv
  <2> QED
    BY <1>2, <2>1, PhaseStep, Zenon
<1>3. ASSUME NEW a, NEW z, phase' = [phase EXCEPT ![c] = "sending"],
             reader' = [reader EXCEPT ![c].callback_free_ = a, ![c].gzip_ = z]
      PROVE  StreamInv'
  <2>1. /\ phase'[c] = "sending" /\ reader' = [reader EXCEPT ![c] = reader'[c]]
        /\ reader'[c] = [reader[c] EXCEPT !.callback_free_ = a, !.gzip_ = z]
    BY <1>3, Zenon DEF StreamInv
  <2>2. IsStream(reader[c]) /\ Fresh(reader[c]) /\ doc[c] \in Seq(Nat)
    BY DEF StreamInv, StreamOf
  <2>3. IsStream(reader'[c]) /\ Fresh(reader'[c])
    BY <2>1, <2>2 DEF IsStream, ReaderFields, Fresh
  <2>4. Progress(reader'[c], Len(doc[c]))
    BY SMTT(20), <2>2, <2>3 DEF Progress, Fresh
  <2>5. StreamOf(phase'[c], doc'[c], reader'[c])
    BY <2>1, <2>2, <2>3, <2>4 DEF StreamOf
  <2>6. doc' = [doc EXCEPT ![c] = doc'[c]]
    BY DEF StreamInv
  <2> QED
    BY <1>3, <2>1, <2>5, <2>6, StreamStep, Zenon
<1> QED
  BY <1>1, <1>2, <1>3 DEF queue_response

LEMMA HandleStream ==
    ASSUME StreamInv, NEW c \in Conns, phase[c] = "calling", NEW s, NEW o, NEW n, handle(c, s, o, n)
    PROVE  StreamInv'
<1>1. \E q, free : queue_response(c, q, free) /\ doc' = doc
  BY Zenon DEF handle
<1> QED
  BY <1>1, QueueStream

\* The content reader is called for the next block.
LEMMA ProcessStream ==
    ASSUME StreamInv, NEW c \in Conns, process(c)
    PROVE  StreamInv'
<1>1. CASE phase' = [phase EXCEPT ![c] = "closing"] /\ UNCHANGED reader
  <2>1. phase'[c] = "closing" /\ UNCHANGED doc
    BY <1>1 DEF StreamInv, process
  <2> QED
    BY <1>1, <2>1, PhaseStep, Zenon
<1>2. CASE ~(phase' = [phase EXCEPT ![c] = "closing"] /\ UNCHANGED reader)
  <2> DEFINE w == callback_write_(reader[c], doc[c])
  <2>1. PICK q \in IF w.gzip_ THEN process_gzip(w) ELSE process_normal(w) :
              /\ reader' = [reader EXCEPT ![c] = q]
              /\ phase' = [phase EXCEPT ![c] = IF q.ended THEN "closing" ELSE "sending"]
    BY <1>2, Zenon DEF process
  <2>2. /\ reader'[c] = q /\ reader' = [reader EXCEPT ![c] = reader'[c]]
        /\ phase'[c] \in {"closing", "sending"} /\ phase' = [phase EXCEPT ![c] = phase'[c]]
        /\ UNCHANGED doc /\ doc' = [doc EXCEPT ![c] = doc'[c]]
    <3> HIDE DEF w
    <3> QED
      BY <2>1, Zenon DEF StreamInv, process
  <2>3. IsStream(reader[c]) /\ doc[c] \in Seq(Nat)
    BY DEF StreamInv, StreamOf
  <2>4. IsStream(w)
    BY <2>3, WriteFields
  <2>5. ASSUME Sized(doc[c]) PROVE Progress(w, Len(doc[c])) /\ (w.taken = w.pos => w.pos = Len(doc[c]))
    <3>1. Progress(reader[c], Len(doc[c]))
      BY <2>5 DEF StreamInv, StreamOf
    <3> QED
      BY <2>3, <2>5, <3>1, WriteProgress
  <2> HIDE DEF w
  <2>6. Sized(doc[c]) => Progress(q, Len(doc[c]))
    <3>1. Len(doc[c]) \in Nat
      BY SMTT(20), <2>3
    <3> QED
      BY <2>1, <2>4, <2>5, <3>1, SendProgress
  <2>7. IsStream(q)
    BY <2>1, <2>4, SendFields
  <2>8. StreamOf(phase'[c], doc'[c], reader'[c])
    BY <2>2, <2>3, <2>6, <2>7 DEF StreamOf
  <2> QED
    BY <2>2, <2>8, StreamStep
<1> QED
  BY <1>1, <1>2

\* A reader that has not been used is as far as it should be, whatever the document.
LEMMA FreshProgress ==
    ASSUME NEW r, Fresh(r), NEW len \in Nat
    PROVE  Progress(r, len)
  BY SMTT(20) DEF Fresh, Progress

LEMMA NoReaderFresh == IsStream(NoReader) /\ Fresh(NoReader)
<1>1. IsStream(NoReader)
  BY DEF IsStream, ReaderFields, NoReader
<1>2. Fresh(NoReader)
  BY DEF Fresh, NoReader
<1> QED
  BY <1>1, <1>2

\* The responses of the handlers.
LEMMA DocsTyped ==
    ASSUME NEW h, NEW d \in Docs(h)
    PROVE  d \in Seq(Nat)
<1>1. d = <<>> \/ d = LineDoc \/ \E n \in JsonDocs : d = <<n>>
  BY DEF Docs
<1>2. ASSUME NEW n \in JsonDocs PROVE <<n>> \in Seq(Nat)
  BY SMTT(20), SizesAssumption
<1>3. LineDoc \in Seq(Nat)
  <2>1. LineDoc \in Seq(1..Block) /\ Block \in Nat
    BY SizesAssumption
  <2>2. \A i \in 1..Len(LineDoc) : LineDoc[i] \in Nat
    BY SMTT(20), <2>1
  <2> QED
    BY SMTT(20), <2>1, <2>2
<1>4. <<>> \in Seq(Nat)
  BY SMTT(20)
<1> QED
  BY <1>1, <1>2, <1>3, <1>4, Zenon

LEMMA RequestStream ==
    ASSUME StreamInv, NEW c \in Conns, NEW h, NEW d \in Docs(h), request(c, h, d)
    PROVE  StreamInv'
<1>1. /\ phase[c] = "idle" /\ phase'[c] = "calling" /\ doc'[c] = d /\ UNCHANGED reader
      /\ phase' = [phase EXCEPT ![c] = phase'[c]] /\ doc' = [doc EXCEPT ![c] = doc'[c]]
      /\ reader' = [reader EXCEPT ![c] = reader'[c]]
  BY DEF StreamInv, request
<1>2. IsStream(reader[c]) /\ Fresh(reader[c])
  BY <1>1 DEF StreamInv, StreamOf
<1>3. d \in Seq(Nat) /\ Len(d) \in Nat
  BY SMTT(20), DocsTyped
<1>4. Progress(reader[c], Len(d))
  BY <1>2, <1>3, FreshProgress
<1>5. StreamOf(phase'[c], doc'[c], reader'[c])
  BY <1>1, <1>2, <1>3, <1>4 DEF StreamOf
<1> QED
  BY <1>1, <1>5, StreamStep

LEMMA DestroyStream ==
    ASSUME StreamInv, NEW c \in Conns, callback_free(c)
    PROVE  StreamInv'
<1>1. /\ phase[c] = "closing" /\ UNCHANGED <<phase, doc>>
      /\ reader'[c] = [reader[c] EXCEPT !.callback_free_ = FALSE]
      /\ phase' = [phase EXCEPT ![c] = phase'[c]] /\ doc' = [doc EXCEPT ![c] = doc'[c]]
      /\ reader' = [reader EXCEPT ![c] = reader'[c]]
  BY Zenon DEF StreamInv, callback_free
<1>2. StreamOf(phase[c], doc[c], reader[c])
  BY DEF StreamInv
<1>3. IsStream(reader'[c])
  BY <1>1, <1>2 DEF StreamOf, IsStream, ReaderFields
<1>4. ASSUME NEW len, Progress(reader[c], len) PROVE Progress(reader'[c], len)
  BY SMTT(20), <1>1, <1>2, <1>4 DEF StreamOf, IsStream, ReaderFields, Progress
<1>5. StreamOf(phase'[c], doc'[c], reader'[c])
  BY <1>1, <1>2, <1>3, <1>4, Zenon DEF StreamOf
<1> QED
  BY <1>1, <1>5, StreamStep

LEMMA ClosedStream ==
    ASSUME StreamInv, NEW c \in Conns, closed(c)
    PROVE  StreamInv'
<1>1. /\ phase'[c] = "idle" /\ doc'[c] = <<>> /\ reader'[c] = NoReader
      /\ phase' = [phase EXCEPT ![c] = phase'[c]] /\ doc' = [doc EXCEPT ![c] = doc'[c]]
      /\ reader' = [reader EXCEPT ![c] = reader'[c]]
  BY DEF StreamInv, closed
<1>2. <<>> \in Seq(Nat) /\ Len(<<>>) \in Nat
  BY SMTT(20)
<1>3. StreamOf(phase'[c], doc'[c], reader'[c])
  BY <1>1, <1>2, NoReaderFresh, FreshProgress DEF StreamOf
<1> QED
  BY <1>1, <1>3, StreamStep

LEMMA InitStream == Init => StreamInv
<1> SUFFICES ASSUME Init PROVE StreamInv
  OBVIOUS
<1>1. /\ phase = [c \in Conns |-> phase[c]] /\ doc = [c \in Conns |-> doc[c]]
      /\ reader = [c \in Conns |-> reader[c]]
      /\ \A c \in Conns : phase[c] = "idle" /\ doc[c] = <<>> /\ reader[c] = NoReader
  <2> HIDE DEF NoReader
  <2> QED
    BY DEF Init
<1>2. <<>> \in Seq(Nat) /\ Len(<<>>) \in Nat
  BY SMTT(20)
<1>3. \A c \in Conns : StreamOf(phase[c], doc[c], reader[c])
  BY <1>1, <1>2, NoReaderFresh, FreshProgress, Zenon DEF StreamOf
<1> QED
  BY <1>1, <1>3 DEF StreamInv

LEMMA NextStream == StreamInv /\ [Next]_vars => StreamInv'
<1> SUFFICES ASSUME StreamInv, [Next]_vars PROVE StreamInv'
  OBVIOUS
<1>1. CASE UNCHANGED <<phase, doc, reader>>
  BY <1>1 DEF StreamInv
<1>2. ASSUME NEW c \in Conns, Connection(c) PROVE StreamInv'
  <2>1. ASSUME NEW h \in Handlers[c], NEW d \in Docs(h), request(c, h, d) PROVE StreamInv'
    BY <2>1, RequestStream
  <2>2. CASE invalid_argument(c) \/ cleanup(c)
    BY <1>1, <2>2 DEF invalid_argument, cleanup
  <2>3. CASE firstCall(c)
    <3>1. phase[c] = "calling"
      BY <2>3 DEF firstCall
    <3>2. CASE UNCHANGED <<phase, doc, reader>>
      BY <1>1, <3>2
    <3>3. ASSUME ~UNCHANGED <<phase, doc, reader>> PROVE \E s, o : handle(c, s, o, 0)
      BY <2>3, <3>3, Zenon DEF firstCall
    <3> QED
      BY <3>1, <3>2, <3>3, HandleStream
  <2>4. CASE lastCall(c)
    <3>1. phase[c] = "calling" /\ \E s, o : handle(c, s, o, 0)
      BY <2>4, Zenon DEF lastCall
    <3> QED
      BY <3>1, HandleStream
  <2>5. ASSUME NEW n \in 1..Len(left[c]), bodyCall(c, n) PROVE StreamInv'
    <3>1. phase[c] = "calling" /\ \E s, o : handle(c, s, o, n)
      BY <2>5, Zenon DEF bodyCall
    <3> QED
      BY <3>1, HandleStream
  <2>6. CASE process(c)
    BY <2>6, ProcessStream
  <2>7. CASE terminate(c)
    <3>1. phase' = [phase EXCEPT ![c] = phase'[c]] /\ phase'[c] = "closing" /\ UNCHANGED <<doc, reader>>
      BY <2>7 DEF terminate, StreamInv
    <3> QED
      BY <3>1, PhaseStep
  <2>8. CASE callback_free(c)
    BY <2>8, DestroyStream
  <2>9. CASE closed(c)
    BY <2>9, ClosedStream
  <2> QED
    BY <1>2, <2>1, <2>2, <2>3, <2>4, <2>5, <2>6, <2>7, <2>8, <2>9 DEF Connection
<1> QED
  BY <1>1, <1>2 DEF Next, vars

\* Whatever the sizes of a response's items, as long as each fits into a block of
\* RESPONSE_BLOCK_SIZE, and whether process_normal() or process_gzip() sends it: the content
\* reader ends it (returns -1) only when all of it has been sent.
THEOREM StreamAlwaysComplete == Spec => []StreamComplete
<1>1. StreamInv => StreamComplete
  BY DEF StreamInv, StreamOf, Sized, Progress, StreamComplete
<1> QED
  BY <1>1, InitStream, NextStream, PTL DEF Spec

=============================================================================
