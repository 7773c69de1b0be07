---------------------------- MODULE TrackerLink ----------------------------
(***************************************************************************)
(* A BitTorrent client's link to its trackers (Cbt_tracker_link of         *)
(* apps/filesharing/xbt/BT Test): the states of one announce over UDP or   *)
(* HTTP, the event it reports, the retries, and the walk along the list of *)
(* trackers.  Definitions are functions of the link's record; the system   *)
(* of clients, packets and tracker is AnnounceSystem.                      *)
(***************************************************************************)
EXTENDS Naturals, Sequences

CONSTANTS
  AnnounceLists, \* lists of trackers a torrent may name: "udp", "http" and "dead" ones
  MaxAttempts,   \* mc_attempts saturates here; only zero and nonzero differ
  MaxBackoff     \* longest wait after a failed attempt, in half intervals

\* m_announce_time is the number of half intervals left until it; the
\* interval a tracker asks for is two of them.
Interval == 2

Cbt_tracker_link(list) ==
  [m_state |-> 0, m_event |-> "started", m_announce_time |-> 0, mc_attempts |-> 0,
   m_current_tracker |-> 1, m_trackers |-> list]

URL(l) == l.m_trackers[l.m_current_tracker]

\* Never moves on to the next tracker.
close_stays(l) == [l EXCEPT !.m_state = 0]

\* A link whose attempt ended, well (mc_attempts is 0) or badly.
close(l) ==
  IF l.mc_attempts = 0
  THEN [l EXCEPT !.m_state = 0, !.m_current_tracker = 1,
                 !.m_trackers[1] = URL(l),
                 !.m_trackers[l.m_current_tracker] = l.m_trackers[1]]
  ELSE IF l.m_current_tracker < Len(l.m_trackers)
  THEN [l EXCEPT !.m_state = 0, !.m_current_tracker = @ + 1, !.mc_attempts = @ - 1]
  ELSE [l EXCEPT !.m_state = 0, !.m_current_tracker = 1]

\* An idle link that starts an attempt when its file runs.
due(l) == l.m_state = 0 /\ (l.m_announce_time = 0 \/ l.m_current_tracker > 1)

\* pre_select: the attempt, with `wait' until the next one should it fail.
attempt(l, wait) ==
  [l EXCEPT !.m_announce_time = wait,
            !.mc_attempts = IF @ < MaxAttempts THEN @ + 1 ELSE @,
            !.m_state = IF URL(l) = "http" THEN 1 ELSE 3]

\* The event goes out again with every announce.
sent_kept(l, state) == [l EXCEPT !.m_state = state]

\* The event goes out and is forgotten, whether or not it arrives.
sent(l, state) == [l EXCEPT !.m_event = "none", !.m_state = state]

answered(l) == close([l EXCEPT !.m_announce_time = Interval, !.mc_attempts = 0])

event(l, v) == [l EXCEPT !.m_event = v, !.m_announce_time = 0]
=============================================================================
