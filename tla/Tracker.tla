------------------------------ MODULE Tracker ------------------------------
(***************************************************************************)
(* The XBT tracker with P4P peer selection (apps/filesharing/xbt/Tracker): *)
(* one torrent, its peers keyed by host (PEERS_KEY is not defined), the    *)
(* counters it answers with, and the xbt_files row it keeps in MySQL.      *)
(* Announces are anonymous, as the UDP protocol and the default            *)
(* configuration have them.  The server is one thread: every handler and   *)
(* every periodic task below is one atomic step.  Announcing clients are   *)
(* in TrackerLink; AnnounceSystem puts the two together.                   *)
(*                                                                         *)
(* Time is counted in halves of announce_interval: `age' is the number of  *)
(* halves since the peer's mtime, and 1.5 intervals are Expiry halves.     *)
(***************************************************************************)
EXTENDS Integers, FiniteSets

CONSTANTS
  Hosts,      \* addresses that announce the torrent
  MaxFaults,  \* bound on what comes from outside: failures of queries, packets
              \* and processes, and the operator's interventions
  NULL

Expiry == 3

\* The peers and the torrents that m_files holds.
Peer == [left : BOOLEAN, age : 0 .. Expiry]
File == [peers : [Hosts -> Peer \cup {NULL}], leechers : Int, seeders : Int,
         completed : Nat, fid : BOOLEAN, dirty : BOOLEAN]

ASSUME HostsAssumption == IsFiniteSet(Hosts) /\ NULL \notin Peer \cup File

VARIABLES
  m_auto_register,  \* the configuration variable of that name
  up,               \* the tracker process runs
  m_secret,         \* the secret of this run of the tracker
  file,             \* the torrent's t_file, NULL when m_files lacks it
  freed,            \* hosts of erased t_peers the selection manager still points to
  row,              \* the torrent's row of xbt_files, or NULL
  flagged,          \* the row is flagged for deletion (flags & 1)
  lost,             \* the last update of the row failed
  faults            \* how many of those there were

tracker == <<m_auto_register, up, m_secret, file, freed, row, flagged, lost>>

Fault == faults < MaxFaults /\ faults' = faults + 1
NoFault == UNCHANGED faults

Bit(b) == IF b THEN 1 ELSE 0

Row(f) == [leechers |-> f.leechers, seeders |-> f.seeders, completed |-> f.completed]

t_file ==
  [peers |-> [h \in Hosts |-> NULL], leechers |-> 0, seeders |-> 0,
   completed |-> 0, fid |-> FALSE, dirty |-> TRUE]

\* A torrent of a closed tracker starts as a row somebody registered.
Init ==
  /\ m_auto_register \in BOOLEAN
  /\ up = FALSE /\ m_secret = 0 /\ file = NULL /\ freed = {}
  /\ row = IF m_auto_register THEN NULL ELSE Row(t_file)
  /\ flagged = FALSE /\ lost = FALSE /\ faults = 0

--------------------------------------------------------------------------
(* Peers.                                                                 *)

\* The counters of f with the peer of a host counted n more times.
Count(f, peer, n) ==
  IF peer = NULL THEN f
  ELSE [f EXCEPT !.leechers = @ + (IF peer.left THEN n ELSE 0),
                 !.seeders = @ + (IF peer.left THEN 0 ELSE n)]

\* What an unregistered torrent is refused with.
refused == ~m_auto_register /\ file = NULL

\* Counts a peer that announces again once more.
insert_again(f, h, event, left) ==
  LET peer == IF event = "stopped" THEN NULL ELSE [left |-> left, age |-> 0]
  IN  [Count(f, peer, 1) EXCEPT !.peers[h] = peer, !.dirty = TRUE,
                                !.completed = @ + Bit(event = "completed")]

insert_peer(f, h, event, left) ==
  LET peer == IF event = "stopped" THEN NULL ELSE [left |-> left, age |-> 0]
  IN  [Count(Count(f, f.peers[h], -1), peer, 1)
        EXCEPT !.peers[h] = peer, !.dirty = TRUE,
               !.completed = @ + Bit(event = "completed")]

\* An announce that is not refused.  The answer's peers come from the
\* selection manager, which follows its pointers to freed peers as well:
\* such a read may bring the process down before it answers.
announce(h, event, left) ==
  /\ file' = insert_peer(IF file = NULL THEN t_file ELSE file, h, event, left)
  /\ UNCHANGED <<m_auto_register, up, m_secret, freed, row, flagged, lost>>

Down == /\ up' = FALSE /\ file' = NULL /\ freed' = {}
        /\ UNCHANGED <<m_auto_register, m_secret, row, flagged, lost>>

select_peers_crashes(event) == freed # {} /\ event # "stopped" /\ Down

expired_early(f) == {h \in Hosts : f.peers[h] # NULL /\ f.peers[h].age >= 2}

expired(f) == {h \in Hosts : f.peers[h] # NULL /\ f.peers[h].age >= Expiry}

\* Erases the peers that have not announced for 1.5 intervals; the selection
\* manager is not told.
clean_up ==
  LET old == expired(file)
      Left(b) == {h \in old : file.peers[h].left = b}
  IN  /\ up /\ file # NULL /\ old # {}
      /\ file' = [file EXCEPT !.peers = [h \in Hosts |-> IF h \in old THEN NULL ELSE @[h]],
                              !.leechers = @ - Cardinality(Left(TRUE)),
                              !.seeders = @ - Cardinality(Left(FALSE)),
                              !.dirty = TRUE]
      /\ freed' = freed \cup old
      /\ NoFault
      /\ UNCHANGED <<m_auto_register, up, m_secret, row, flagged, lost>>

--------------------------------------------------------------------------
(* The database.  Each operator gives the state after the task, where     *)
(* `fails' names the query that throws ("none" when all succeed); what    *)
(* was done before it stays done.                                         *)

loads(r) == [t_file EXCEPT !.completed = r.completed, !.fid = TRUE, !.dirty = FALSE]

read_db_files_sql(fails) ==
  LET deletes == ~m_auto_register /\ flagged /\ fails # "flags"
      kept == IF deletes THEN NULL ELSE file
      throws == fails = "flags" \/ (deletes /\ fails = "delete")
      gone == deletes /\ ~throws
      row1 == IF gone THEN NULL ELSE row
      resets == ~throws /\ kept = NULL /\ fails # "reset"
      row2 == IF resets /\ row1 # NULL
              THEN [row1 EXCEPT !.leechers = 0, !.seeders = 0] ELSE row1
      selects == ~throws /\ fails = "none" /\ (kept = NULL \/ ~m_auto_register)
  IN  /\ file' = IF selects /\ kept = NULL /\ row2 # NULL THEN loads(row2) ELSE kept
      /\ freed' = IF deletes THEN {} ELSE freed
      /\ row' = row2
      /\ flagged' = (flagged /\ ~gone)

\* A file whose row exists without its fid being known cannot be inserted:
\* info_hash is a unique key.
write_db_files(f, fails) ==
  LET throws == ~f.fid /\ (row # NULL \/ fails = "insert")
  IN  IF ~f.dirty \/ throws
      THEN file' = f /\ UNCHANGED <<row, lost>>
      ELSE /\ file' = [f EXCEPT !.fid = TRUE, !.dirty = FALSE]
           /\ lost' = (fails = "update")
           /\ row' = IF fails # "update" THEN Row(f)
                     ELSE IF f.fid THEN row ELSE Row(t_file)

Query(queries, fails) == IF fails = "none" THEN NoFault ELSE fails \in queries /\ Fault

Reading == {"flags", "delete", "reset", "select"}
Writing == {"insert", "update"}

\* The periodic tasks of run().
read_db_files ==
  /\ up
  /\ \E fails \in Reading \cup {"none"} : Query(Reading, fails) /\ read_db_files_sql(fails)
  /\ UNCHANGED <<m_auto_register, up, m_secret, lost>>

write_files ==
  /\ up /\ file # NULL /\ file.dirty
  /\ \E fails \in Writing \cup {"none"} : Query(Writing, fails) /\ write_db_files(file, fails)
  /\ UNCHANGED <<m_auto_register, up, m_secret, freed, flagged>>

\* The operator flags the torrent for deletion.
flag ==
  /\ ~m_auto_register /\ row # NULL /\ ~flagged /\ flagged' = TRUE
  /\ Fault
  /\ UNCHANGED <<m_auto_register, up, m_secret, file, freed, row, lost>>

--------------------------------------------------------------------------
(* Processes.                                                             *)

\* run() up to its loop: a fresh secret, and read_db_files; the write_db_files
\* that follows finds nothing dirty.
start ==
  /\ ~up /\ up' = TRUE /\ m_secret' = m_secret + 1
  /\ \E fails \in Reading \cup {"none"} : Query(Reading, fails) /\ read_db_files_sql(fails)
  /\ lost' = FALSE
  /\ UNCHANGED m_auto_register

\* SIGTERM: the loop ends and the files are written once more.
term ==
  /\ up /\ up' = FALSE /\ Fault /\ file' = NULL /\ freed' = {}
  /\ row' = IF file # NULL /\ file.dirty /\ (file.fid \/ row = NULL) THEN Row(file) ELSE row
  /\ UNCHANGED <<m_auto_register, m_secret, flagged, lost>>

crash == up /\ Fault /\ Down
=============================================================================
