--------------------------- MODULE AnnounceSystem ---------------------------
(***************************************************************************)
(* Clients of one torrent and their tracker: each client's Cbt_file starts,*)
(* completes and stops, its link announces over UDP or HTTP, packets are   *)
(* lost or delayed, queries fail, and the tracker goes down and comes back.*)
(* A client's select loop and the tracker's loop take their steps          *)
(* independently; `net' holds what is between them.                        *)
(***************************************************************************)
EXTENDS Tracker, TrackerLink

VARIABLES
  running,  \* hosts whose file is s_running (the others are s_stopped)
  left,     \* hosts that still miss pieces (m_left # 0)
  link,     \* each host's Cbt_tracker_link
  net,      \* requests to the tracker and replies to the clients
  heard     \* hosts that run, were listed when an answer came, and heard every one since

clients == <<running, left, link, net, heard>>
vars == <<tracker, faults, clients>>

\* A connect request carries no event, and a stopped event makes the tracker
\* ignore what is left.  `id' is the connection id of a UDP announce, and of the
\* reply it follows.
Request(act, h, l, id) ==
  [to |-> "tracker", act |-> act, host |-> h, id |-> id, late |-> FALSE,
   event |-> IF act = "connect" THEN "none" ELSE l.m_event,
   left |-> act \in {"announce", "http"} /\ h \in left]

Reply(act, h, ok) ==
  [to |-> "client", act |-> act, host |-> h, ok |-> ok,
   id |-> IF act = "connect" THEN m_secret ELSE 0]

Replies(h) == {m \in net : m.to = "client" /\ m.host = h}
Requests(h) == {m \in net : m.to = "tracker" /\ m.host = h /\ m.act # "stop" /\ ~m.late}

\* What a client sends reaches a tracker that runs.
Sends(m) == IF up THEN {m} ELSE {}

listed(h) == file # NULL /\ file.peers[h] # NULL

SysInit ==
  /\ Init
  /\ running = {} /\ left = Hosts /\ net = {} /\ heard = {}
  /\ link \in [Hosts -> {Cbt_tracker_link(list) : list \in AnnounceLists}]

--------------------------------------------------------------------------
(* The client.                                                            *)

\* Cbt_file::open: announce() makes the link due.
open(h) ==
  /\ h \notin running /\ running' = running \cup {h}
  /\ link' = [link EXCEPT ![h].m_announce_time = 0]
  /\ UNCHANGED <<left, net, heard, tracker, faults>>

\* Cbt_file::close leaves an attempt of the link under way alone.  The stopped
\* event goes out on a connection of its own, to an HTTP tracker only.
Cbt_file_close(h) ==
  /\ h \in running /\ running' = running \ {h} /\ heard' = heard \ {h}
  /\ IF link[h].m_trackers[1] = "http"
     THEN LET l == event(link[h], "stopped")
          IN  /\ link' = [link EXCEPT ![h] = sent(l, l.m_state)]
              /\ net' = net \cup Sends(Request("stop", h, l, 0))
     ELSE UNCHANGED <<link, net>>
  /\ UNCHANGED <<left, tracker, faults>>

\* The last piece is written.
write_data(h) ==
  /\ h \in running /\ h \in left /\ left' = left \ {h}
  /\ link' = [link EXCEPT ![h] = event(@, "completed")]
  /\ UNCHANGED <<running, net, heard, tracker, faults>>

\* An attempt that failed.
failed(h, l) == /\ link' = [link EXCEPT ![h] = close(l)]
                /\ heard' = heard \ {h}

pre_select(h) ==
  /\ h \in running /\ due(link[h])
  /\ \E wait \in 0 .. MaxBackoff :
       LET l == attempt(link[h], wait)
       IN  \/ /\ link' = [link EXCEPT ![h] = l]
              /\ net' = net \cup (IF URL(l) = "udp" THEN Sends(Request("connect", h, l, 0)) ELSE {})
              /\ NoFault /\ UNCHANGED heard
           \/ Fault /\ failed(h, l) /\ UNCHANGED net   \* gethostbyname() or send() failed
           \/ /\ Fault /\ UNCHANGED net                \* socket() or connect() did: no close()
              /\ link' = [link EXCEPT ![h] = [l EXCEPT !.m_state = 0]]
              /\ heard' = heard \ {h}
  /\ UNCHANGED <<running, left, tracker>>

\* post_select, state 1: the connection is made, or refused, or the request
\* cannot be sent; its event is then forgotten already.
connected(h) ==
  /\ link[h].m_state = 1
  /\ \/ /\ up /\ NoFault
        /\ net' = net \cup {Request("http", h, link[h], 0)}
        /\ link' = [link EXCEPT ![h] = sent(@, 2)]
        /\ UNCHANGED heard
     \/ up /\ Fault /\ failed(h, sent(link[h], 1)) /\ UNCHANGED net
     \/ ~up /\ NoFault /\ failed(h, link[h]) /\ UNCHANGED net
  /\ UNCHANGED <<running, left, tracker>>

\* post_select, state 3: the announce follows the tracker's connect reply, or
\* cannot be sent.
recv_connect(h) ==
  /\ link[h].m_state = 3
  /\ \E m \in Replies(h) :
       \/ /\ link' = [link EXCEPT ![h] = sent(@, 4)]
          /\ net' = (net \ {m}) \cup Sends(Request("announce", h, link[h], m.id))
          /\ NoFault /\ UNCHANGED heard
       \/ Fault /\ failed(h, sent(link[h], 3)) /\ net' = net \ {m}
  /\ UNCHANGED <<running, left, tracker>>

\* post_select, states 2 and 4: the answer, an error, or a closed connection.
recv_answer(h) ==
  /\ link[h].m_state \in {2, 4}
  /\ \E m \in Replies(h) :
       /\ net' = net \ {m}
       /\ IF m.ok
          THEN /\ link' = [link EXCEPT ![h] = answered(@)]
               /\ heard' = IF h \in running /\ listed(h) THEN heard \cup {h} ELSE heard
          ELSE failed(h, link[h])
  /\ UNCHANGED <<running, left, tracker, faults>>

\* post_select, states 3 and 4: nothing came within 15 seconds.  An announce
\* still under way was delayed; its answer will find the socket closed.
timeout(h) ==
  /\ link[h].m_state \in {3, 4}
  /\ IF Replies(h) \cup Requests(h) = {} THEN NoFault ELSE Fault
  /\ failed(h, link[h])
  /\ net' = (net \ (Replies(h) \cup Requests(h))) \cup
              {[m EXCEPT !.late = TRUE] : m \in {n \in Requests(h) : n.act = "announce"}}
  /\ UNCHANGED <<running, left, tracker>>

--------------------------------------------------------------------------
(* The tracker.                                                           *)

\* The packets and connections of a tracker that goes down: a client that waits
\* for the answer to an HTTP request finds its connection closed.
Reset ==
  /\ net' = {m \in net : m.to = "client"} \cup
              {Reply("http", m.host, FALSE) : m \in {n \in net : n.act = "http" /\ n.to = "tracker"}}
  /\ heard' = {}

\* The answer to a request, unless nobody waits for it.
Answer(m, ok) == IF m.act = "stop" \/ m.late THEN {} ELSE {Reply(m.act, m.host, ok)}

\* Ctransaction::recv and Cconnection::read: one request is answered.  An
\* announce under another run's connection id is ignored.
recv(m) ==
  /\ up /\ m \in net /\ m.to = "tracker"
  /\ CASE m.act = "connect" ->
            net' = (net \ {m}) \cup Answer(m, TRUE) /\ NoFault /\ UNCHANGED <<heard, tracker>>
       [] m.act = "announce" /\ m.id # m_secret ->
            net' = net \ {m} /\ NoFault /\ UNCHANGED <<heard, tracker>>
       [] refused /\ (m.act = "announce" => m.id = m_secret) /\ m.act # "connect" ->
            net' = (net \ {m}) \cup Answer(m, FALSE) /\ NoFault /\ UNCHANGED <<heard, tracker>>
       [] OTHER ->
            \/ /\ announce(m.host, m.event, m.left)
               /\ net' = (net \ {m}) \cup Answer(m, TRUE)
               /\ heard' = IF m.event = "stopped" THEN heard \ {m.host} ELSE heard
               /\ NoFault
            \/ select_peers_crashes(m.event) /\ Fault /\ Reset
  /\ UNCHANGED <<running, left, link>>

\* The tracker's tasks that no client sees.
tasks ==
  /\ clean_up \/ read_db_files \/ write_files \/ flag \/ start
  /\ UNCHANGED clients

down == (term \/ crash) /\ Reset /\ UNCHANGED <<running, left, link>>

--------------------------------------------------------------------------
(* The network and time.                                                  *)

\* A packet, or a connection with what it carries, is lost without a trace.
lose(m) ==
  /\ Fault /\ net' = net \ {m} /\ heard' = heard \ {m.host}
  /\ UNCHANGED <<running, left, link, tracker>>

older(peer) == IF peer = NULL \/ peer.age = Expiry THEN peer ELSE [peer EXCEPT !.age = @ + 1]

\* Half an announce interval passes: far longer than packets travel, attempts
\* last or a due attempt waits for the select loop.
tick ==
  /\ net = {}
  /\ \A h \in Hosts : /\ link[h].m_state \in {0, 2}
                      /\ ~(h \in running /\ due(link[h]))
  /\ link' = [h \in Hosts |-> [link[h] EXCEPT !.m_announce_time = IF @ = 0 THEN 0 ELSE @ - 1]]
  /\ file' = IF file = NULL THEN NULL
             ELSE [file EXCEPT !.peers = [h \in Hosts |-> older(file.peers[h])]]
  /\ UNCHANGED <<m_auto_register, up, m_secret, freed, row, flagged, lost, faults,
                 running, left, net, heard>>

select_loop(h) ==
  pre_select(h) \/ connected(h) \/ recv_connect(h) \/ recv_answer(h) \/ timeout(h)

user(h) == open(h) \/ Cbt_file_close(h) \/ write_data(h)

Next ==
  \/ \E h \in Hosts : select_loop(h) \/ user(h)
  \/ \E m \in net : recv(m) \/ lose(m)
  \/ tasks \/ down \/ tick

\* The two select loops go on, the periodic tasks of the tracker come round, a
\* tracker that went down is started again, and time passes.
Fairness ==
  /\ \A h \in Hosts : WF_vars(select_loop(h))
  /\ \A h \in Hosts : WF_vars(\E m \in net : m.host = h /\ recv(m))
  /\ WF_vars(clean_up /\ UNCHANGED clients)
  /\ WF_vars(start /\ UNCHANGED clients)
  /\ WF_vars(tick)

Spec == SysInit /\ [][Next]_vars /\ Fairness

--------------------------------------------------------------------------
Peers(b) == {h \in Hosts : file.peers[h] # NULL /\ file.peers[h].left = b}

\* The counters a tracker answers with are those of the peers it has, through
\* announces, stops and time-outs in any order (insert_peer, clean_up); and the
\* row of a torrent that is not dirty shows them, unless the last query that
\* would have written it failed (write_db_files).
CountsAgree ==
  (up /\ file # NULL) =>
    /\ file.leechers = Cardinality(Peers(TRUE))
    /\ file.seeders = Cardinality(Peers(FALSE))
    /\ (file.dirty \/ lost \/ row = Row(file))

\* A running client whose announces have all been answered is listed: the time
\* between announces that the tracker asks for and the client keeps is shorter
\* than the 1.5 intervals after which clean_up erases a peer.
ListedWhileAnswered == \A h \in heard : listed(h) \/ refused

\* Neither the tracker nor the row counts more downloads than there were, and the
\* row never counts fewer than before: a completed event is sent once however
\* often the announce is tried again, and a restarted tracker goes on from its row.
DownloadsCounted ==
  [][/\ \A r \in {file', row'} \ {NULL} : r.completed <= Cardinality(Hosts \ left')
     /\ (row # NULL /\ row' # NULL) => row'.completed >= row.completed]_vars

\* A client that goes on running is listed in the end, whatever packets were lost
\* and however often the tracker went down, if it has a UDP tracker; a client that
\* stopped disappears from the list in the end, even if its stopped event was lost
\* or overtaken by an announce.
ListingFollows ==
  \A h \in Hosts :
    /\ (h \in running /\ \E i \in DOMAIN link[h].m_trackers : link[h].m_trackers[i] = "udp")
         ~> (listed(h) \/ h \notin running \/ refused)
    /\ h \notin running ~> (~listed(h) \/ h \in running)

--------------------------------------------------------------------------
(* What does not hold of the code; see the README.                        *)

\* Refuted: an HTTP attempt whose connection is lost without a trace never ends,
\* for states 1 and 2 of the link have no time limit.
HTTPListed == \A h \in Hosts : h \in running ~> (listed(h) \/ h \notin running \/ refused)

\* Refuted: clean_up frees a peer without removePeer(), so that the selection
\* manager goes on selecting from freed memory.
PeersRemovedFirst == freed = {}

\* Refuted: write_db_files takes a torrent as written before the query that writes
\* it, and a failed query leaves the row behind until the torrent changes again.
RowCurrent == (up /\ file # NULL /\ ~file.dirty) => row = Row(file)
=============================================================================
