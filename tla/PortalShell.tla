---------------------------- MODULE PortalShell ----------------------------
(***************************************************************************)
(* The portal shell configures the view of a portal, over a connection     *)
(* that may lose a request or its response.                                *)
(*                                                                         *)
(* A command of the shell is a sequence of requests.  In automatic mode    *)
(* each command has a transaction of its own; load puts a whole file in    *)
(* one; otherwise the user begins and ends transactions.  AdminTxn and     *)
(* PortalLocks show how the portal runs transactions: here it has at most  *)
(* one, it may end it at any time (the monitor), and the update job of the *)
(* view waits for its end.                                                 *)
(***************************************************************************)
EXTENDS ViewConfig

CONSTANTS
    Commands,     \* the commands that may be typed: records [requests, bad]
    Files,        \* the files that may be loaded: sequences of commands
    MaxCommands,  \* bound: lines typed
    MaxLosses     \* bound: messages lost

VARIABLES
    up,       \* the portal process runs
    cur,      \* the current configuration
    open,     \* a transaction is open
    work,     \* its state, see ViewConfig
    job,      \* the update job of the view is scheduled
    alive,    \* the shell runs
    txn_auto,
    token,    \* the shell's admin_token_: "none", "live" for the open transaction, "stale"
    kind,     \* what the shell executes: "auto", "load" or "manual"
    pc,       \* the request it makes next: "begin", "action", "commit", "rollback"; "idle"
    todo,     \* the actions left to request
    bad,      \* the shell or the portal's parser finds an error after them
    typed, losses,
    partial,  \* history: the open transaction holds a part of a failed command
    cut,      \* history: a part of a failed command was committed
    span      \* history: the configurations before and after the transaction of a command or file

portal == <<up, cur, open, work, job>>
shell == <<alive, txn_auto, token, kind, pc, todo, bad>>
history == <<partial, cut, span>>
vars == <<portal, shell, typed, losses, history>>

NoWork == [ok |-> TRUE, c |-> EmptyConfig, copied |-> FALSE]

-----------------------------------------------------------------------------
(* The commands.                                                           *)

Command(requests) == [requests |-> requests, bad |-> FALSE]

\* The shell or the portal refuses the end of the line once the rest was carried out.
Misspelt(command) == [command EXCEPT !.bad = TRUE]

\* Mutant: the PID is not bound to its node.
PidUnbound(name, pid, prefixes) ==
    Command(<<[op |-> "NetNodeAdd", node |-> name, external |-> External(pid)],
              [op |-> "AddPID", pid |-> name, obj |-> pid]>>
            \o [i \in 1..Len(prefixes) |-> [op |-> "AddPIDPrefixes", pid |-> name, prefix |-> prefixes[i]]])

config_pid(name, pid, prefixes) ==
    Command(<<[op |-> "NetNodeAdd", node |-> name, external |-> External(pid)],
              [op |-> "AddPID", pid |-> name, obj |-> pid],
              [op |-> "AddPIDNodes", pid |-> name, node |-> name]>>
            \o [i \in 1..Len(prefixes) |-> [op |-> "AddPIDPrefixes", pid |-> name, prefix |-> prefixes[i]]])

config_pid_link(src, dst, link, weights) ==
    Command(<<[op |-> "NetLinkAdd", src |-> src, dst |-> dst],
              [op |-> "AddPIDLink", link |-> link, src |-> src, dst |-> dst]>>
            \o [i \in 1..Len(weights) |-> [op |-> "SetLinkWeight", link |-> link, val |-> weights[i]]])

\* Mutant: the prefixes are left for later.
PidDelKeepsPrefixes(name) ==
    Command(<<[op |-> "DeletePIDNodes", pid |-> name, node |-> name],
              [op |-> "DeletePID", pid |-> name],
              [op |-> "NetNodeDelete", node |-> name]>>)

config_pid_del(name) ==
    Command(<<[op |-> "ClearPIDPrefixes", pid |-> name],
              [op |-> "DeletePIDNodes", pid |-> name, node |-> name],
              [op |-> "DeletePID", pid |-> name],
              [op |-> "NetNodeDelete", node |-> name]>>)

config_pdistance_link(link, val) == Command(<<[op |-> "SetLinkCost", link |-> link, val |-> val]>>)
config_pdistance_prop(prop, val) == Command(<<[op |-> "PropSet", prop |-> prop, val |-> val]>>)
config_pdistance_update == Command(<<[op |-> "PDistanceUpdate"]>>)

\* A program that uses the protocol library itself: a further node for a PID, with a link,
\* and a node of the network that belongs to no PID, on the way between two that do.
api_border_node(pid, node, external, dst) ==
    Command(<<[op |-> "NetNodeAdd", node |-> node, external |-> external],
              [op |-> "AddPIDNodes", pid |-> pid, node |-> node],
              [op |-> "NetLinkAdd", src |-> node, dst |-> dst]>>)

api_transit_node(src, node, dst) ==
    Command(<<[op |-> "NetNodeAdd", node |-> node, external |-> FALSE],
              [op |-> "NetLinkAdd", src |-> src, dst |-> node],
              [op |-> "NetLinkAdd", src |-> node, dst |-> dst]>>)

\* load_config() stops at the first line with an error.
FileRequests(file) ==
    LET upto == IF \E i \in DOMAIN file : file[i].bad
                THEN CHOOSE i \in DOMAIN file : file[i].bad /\ \A j \in 1..(i - 1) : ~ file[j].bad
                ELSE Len(file)
    IN  FlattenSeq([i \in 1..upto |-> file[i].requests])

FileBad(file) == \E i \in DOMAIN file : file[i].bad

\* What requests do to a configuration if all goes well; an update of the pDistances
\* changes no setting.
Loaded(c, requests) ==
    LET Do(t, r) == IF t.ok /\ r.op # "PDistanceUpdate" THEN CHOOSE u \in Apply(t, r) : TRUE ELSE t
        end == FoldLeft(Do, [NoWork EXCEPT !.c = c], requests)
    IN  Settings(IF end.ok THEN end.c ELSE c)

-----------------------------------------------------------------------------
Init ==
    /\ up = TRUE /\ cur = EmptyConfig /\ open = FALSE /\ work = NoWork /\ job = TRUE
    /\ alive = TRUE /\ txn_auto = TRUE /\ token = "none" /\ kind = "manual" /\ pc = "idle"
    /\ todo = <<>> /\ bad = FALSE /\ typed = 0 /\ losses = 0
    /\ partial = FALSE /\ cut = FALSE /\ span = [before |-> EmptyConfig, after |-> EmptyConfig]

-----------------------------------------------------------------------------
(* Lines typed at the prompt.                                              *)

Prompt == alive /\ pc = "idle" /\ typed < MaxCommands /\ typed' = typed + 1

TypeCommand(c) ==
    /\ Prompt
    /\ kind' = (IF txn_auto THEN "auto" ELSE "manual") /\ pc' = (IF txn_auto THEN "begin" ELSE "action")
    /\ todo' = c.requests /\ bad' = c.bad
    /\ UNCHANGED <<portal, alive, txn_auto, token, losses, history>>

TypeLoad(f) ==
    /\ Prompt
    /\ kind' = "load" /\ pc' = "begin" /\ todo' = FileRequests(f) /\ bad' = FileBad(f)
    /\ UNCHANGED <<portal, alive, txn_auto, token, losses, history>>

\* txn begin, commit and rollback.
TypeTxn(what) ==
    /\ Prompt
    /\ kind' = "manual" /\ pc' = what
    /\ UNCHANGED <<portal, alive, txn_auto, token, todo, bad, losses, history>>

TypeTxnAuto ==
    /\ Prompt /\ txn_auto' = ~ txn_auto
    /\ UNCHANGED <<portal, alive, token, kind, pc, todo, bad, losses, history>>

\* server: a new AdminPortalProtocol, which has no token.
TypeServer ==
    /\ Prompt /\ token' = "none"
    /\ UNCHANGED <<portal, alive, txn_auto, kind, pc, todo, bad, losses, history>>

-----------------------------------------------------------------------------
(* Requests.  The portal sees one unless it is lost on the way ("lost");   *)
(* the shell takes a lost response ("unanswered") for a failure too.       *)

Fates == {"answered", "unanswered", "lost"}

Sent(fate) ==
    /\ up /\ losses' = losses + (IF fate = "answered" THEN 0 ELSE 1)
    /\ losses' <= MaxLosses

\* The shell's answer to the end of a request, or of the whole command.
BeginFails ==
    /\ alive' = (kind # "auto") /\ pc' = "idle" /\ todo' = <<>> /\ bad' = FALSE

\* Mutant: the shell gives the line up, but not the file.
LoadGoesOn ==
    /\ pc' = (CASE kind = "auto" -> "commit" [] kind = "load" -> "commit" [] OTHER -> "idle")
    /\ todo' = <<>> /\ bad' = FALSE

\* Interactive commands are committed whether or not they failed.
CommandFails ==
    /\ pc' = (CASE kind = "auto" -> "commit" [] kind = "load" -> "rollback" [] OTHER -> "idle")
    /\ todo' = <<>> /\ bad' = FALSE

CommitFails == pc' = IF kind = "manual" THEN "idle" ELSE "rollback"

\* Errors that the shell sees without the portal, or because it does not answer.
NoToken == IF pc = "begin" THEN token # "none" ELSE token = "none"

fails_locally ==
    /\ alive /\ (NoToken \/ ~ up)
    /\ \/ pc = "begin" /\ BeginFails /\ UNCHANGED <<txn_auto, token, kind>>
       \/ pc = "action" /\ todo # <<>> /\ CommandFails /\ UNCHANGED <<alive, txn_auto, token, kind>>
       \/ pc = "commit" /\ CommitFails /\ UNCHANGED <<alive, txn_auto, token, kind, todo, bad>>
       \/ pc = "rollback" /\ pc' = "idle" /\ UNCHANGED <<alive, txn_auto, token, kind, todo, bad>>
    /\ UNCHANGED <<portal, typed, losses, history>>

\* A token that the portal does not know: the token is kept.
refused ==
    /\ alive /\ token = "stale" /\ Sent("answered")
    /\ \/ pc = "action" /\ todo # <<>> /\ CommandFails /\ UNCHANGED <<alive, txn_auto, token, kind>>
       \/ pc = "commit" /\ CommitFails /\ UNCHANGED <<alive, txn_auto, token, kind, todo, bad>>
       \/ pc = "rollback" /\ pc' = "idle" /\ UNCHANGED <<alive, txn_auto, token, kind, todo, bad>>
    /\ UNCHANGED <<portal, typed, history>>

txn_begin(fate) ==
    /\ alive /\ pc = "begin" /\ token = "none" /\ Sent(fate)
    /\ IF fate = "lost" \/ open THEN UNCHANGED <<open, work, partial>>
       ELSE open' = TRUE /\ work' = [NoWork EXCEPT !.c = cur] /\ partial' = FALSE
    /\ span' = [before |-> Settings(cur), after |-> IF bad THEN Settings(cur) ELSE Loaded(cur, todo)]
    /\ IF fate # "answered" \/ open THEN BeginFails /\ UNCHANGED token
       ELSE /\ token' = "live" /\ pc' = (IF kind = "manual" THEN "idle" ELSE "action")
            /\ UNCHANGED <<alive, todo, bad>>
    /\ UNCHANGED <<up, cur, job, txn_auto, kind, typed, cut>>

\* An action that fails ends the transaction; one that throws ends the process.
txn_apply(fate) ==
    /\ alive /\ pc = "action" /\ todo # <<>> /\ token = "live" /\ Sent(fate)
    /\ \/ /\ fate # "lost" /\ Terminates(work, Head(todo))
          /\ up' = FALSE /\ open' = FALSE /\ work' = NoWork /\ token' = "stale"
          /\ CommandFails /\ cut' = (cut \/ partial) /\ UNCHANGED partial
       \/ /\ fate # "lost" /\ ~ Terminates(work, Head(todo))
          /\ \E t \in Apply(work, Head(todo)) :
                /\ open' = t.ok /\ work' = (IF t.ok THEN t ELSE NoWork)
                /\ token' = (IF t.ok THEN "live" ELSE "stale")
                /\ IF t.ok /\ fate = "answered"
                   THEN todo' = Tail(todo) /\ UNCHANGED <<pc, bad, partial>>
                   ELSE CommandFails /\ partial' = (partial \/ t.ok)
          /\ UNCHANGED <<up, cut>>
       \/ fate = "lost" /\ CommandFails /\ partial' = TRUE /\ UNCHANGED <<up, open, work, token, cut>>
    /\ UNCHANGED <<cur, job, alive, txn_auto, kind, typed, span>>

\* The line is read to its end.
finish_command ==
    /\ alive /\ pc = "action" /\ todo = <<>>
    /\ IF bad THEN CommandFails /\ partial' = (partial \/ token = "live")
       ELSE pc' = (IF kind = "manual" THEN "idle" ELSE "commit") /\ UNCHANGED <<todo, bad, partial>>
    /\ UNCHANGED <<portal, alive, txn_auto, token, kind, typed, losses, cut, span>>

\* The new configuration becomes the current one, and updated() schedules the job.
txn_commit(fate) ==
    /\ alive /\ pc = "commit" /\ token = "live" /\ Sent(fate)
    /\ IF fate = "lost" THEN UNCHANGED <<cur, open, work, job, token, cut>>
       ELSE /\ cur' = work.c /\ open' = FALSE /\ work' = NoWork /\ cut' = (cut \/ partial)
            /\ job' = (job \/ work.c.props.update_interval > 0)
            /\ token' = (IF fate = "answered" THEN "none" ELSE "stale")
    /\ IF fate = "answered" THEN pc' = "idle" ELSE CommitFails
    /\ UNCHANGED <<up, alive, txn_auto, kind, todo, bad, typed, partial, span>>

txn_rollback(fate) ==
    /\ alive /\ pc = "rollback" /\ token = "live" /\ Sent(fate)
    /\ IF fate = "lost" THEN UNCHANGED <<open, work, token>>
       ELSE /\ open' = FALSE /\ work' = NoWork
            /\ token' = (IF fate = "answered" THEN "none" ELSE "stale")
    /\ pc' = "idle"
    /\ UNCHANGED <<up, cur, job, alive, txn_auto, kind, todo, bad, typed, history>>

-----------------------------------------------------------------------------
(* The portal's own steps, and restarts of the two programs.               *)

\* TxnMonitor: the transaction has timed out.
monitor ==
    /\ up /\ open /\ open' = FALSE /\ work' = NoWork
    /\ token' = (IF token = "live" THEN "stale" ELSE token)
    /\ UNCHANGED <<up, cur, job, alive, txn_auto, kind, pc, todo, bad, typed, losses, history>>

\* ViewUpdateJob::run(), on the current state; nothing catches an exception of a job.
run ==
    /\ up /\ job /\ ~ open
    /\ \/ Throws(cur) /\ up' = FALSE /\ UNCHANGED <<cur, job>>
       \/ /\ ~ Throws(cur) /\ \E r \in Results(cur) : cur' = [cur EXCEPT !.result = r]
          /\ job' = (cur.props.update_interval > 0) /\ UNCHANGED up
    /\ UNCHANGED <<open, work, shell, typed, losses, history>>

\* A portal starts with an empty configuration.
StartPortal ==
    /\ ~ up /\ up' = TRUE /\ cur' = EmptyConfig /\ job' = TRUE
    /\ partial' = FALSE /\ cut' = FALSE
    /\ UNCHANGED <<open, work, shell, typed, losses, span>>

StartShell ==
    /\ ~ alive /\ alive' = TRUE /\ txn_auto' = TRUE /\ token' = "none"
    /\ UNCHANGED <<portal, kind, pc, todo, bad, typed, losses, history>>

Next ==
    \/ \E c \in Commands : TypeCommand(c)
    \/ \E f \in Files : TypeLoad(f)
    \/ \E what \in {"begin", "commit", "rollback"} : TypeTxn(what)
    \/ TypeTxnAuto \/ TypeServer
    \/ fails_locally \/ refused \/ finish_command
    \/ \E fate \in Fates : txn_begin(fate) \/ txn_apply(fate) \/ txn_commit(fate) \/ txn_rollback(fate)
    \/ monitor \/ run \/ StartPortal \/ StartShell

Spec == Init /\ [][Next]_vars

-----------------------------------------------------------------------------
(* Properties.                                                             *)

Configs == {cur} \cup (IF open THEN {work.c} ELSE {})
PIDs(c) == {c.pids[n].pid : n \in DOMAIN c.pids}

\* pid_matrix.h, pid_aggregation.cpp, net_state.cpp: the routing weights and the static
\* pDistances are kept for exactly the PIDs of the view, the links of the view join PIDs
\* of the view, the prefixes of the view belong to them, and the edges of the network join
\* its nodes, whatever commands succeeded, failed half-way or were cut off.  The actions
\* do not look after one another's objects (deleting a PID leaves its prefixes): it is the
\* order of the shell's requests that keeps them together.
ConfigAligned ==
    \A c \in Configs :
        /\ c.weights.pids = PIDs(c) /\ c.pdistances.pids = PIDs(c)
        /\ \A link \in DOMAIN c.weights.entries \cup DOMAIN c.pdistances.entries :
                {link[1], link[2]} \subseteq PIDs(c)
        /\ \A l \in DOMAIN c.links : {c.links[l][1], c.links[l][2]} \subseteq PIDs(c)
        /\ \A p \in DOMAIN c.prefixes : c.prefixes[p] \in PIDs(c)
        /\ c.edges \subseteq (DOMAIN c.nodes) \X (DOMAIN c.nodes)

\* net_state.h, PinnedPID: a PID without a node in the network ends the portal at the next
\* update.  Commands that were carried out in full, and files, never leave one: the portal
\* goes down only after a part of a failed command was committed.
OnlyCutCommandsKill == up \/ cut

\* main.cpp, load_config(): a file changes the current configuration in one step, from
\* what it was when the load began to that with the whole file, even if messages are lost,
\* a line is wrong or the transaction times out.
LoadIsAtomic ==
    [][kind = "load" /\ Settings(cur') # Settings(cur) /\ ~ StartPortal
         => Settings(cur) = span.before /\ Settings(cur') = span.after]_vars

\* The reference for routes: the walks over links between PIDs, up to as many hops as there
\* are PIDs, of which only the ends, the weight and the sum of pDistances matter.
LinkOf(c, p, q) ==
    \E m, n \in DOMAIN c.pids : /\ c.pids[m].pid = p /\ c.pids[n].pid = q /\ p # q
                                /\ c.edges \cap (c.pids[m].vertices \X c.pids[n].vertices) # {}

Walks(c) ==
    LET hops == {[from |-> pq[1], to |-> pq[2], weight |-> get_weight(c, pq[1], pq[2]),
                  sum |-> Static(c, pq[1], pq[2], c.props.pidlink)] :
                    pq \in {pq \in PIDs(c) \X PIDs(c) : LinkOf(c, pq[1], pq[2])}}
        Join(walks) == {[from |-> wh[1].from, to |-> wh[2].to, weight |-> wh[1].weight + wh[2].weight,
                         sum |-> wh[1].sum + wh[2].sum] : wh \in {wh \in walks \X hops : wh[1].to = wh[2].from}}
    IN  FoldLeft(LAMBDA walks, p : walks \cup Join(walks), hops, SetToSeq(PIDs(c)))

\* Those of least weight between their ends.
Best(c) ==
    LET walks == Walks(c)
    IN  {w \in walks : \A o \in walks : o.from = w.from /\ o.to = w.to => w.weight <= o.weight}

\* loading.tex, "pDistances": between internal PIDs the pDistance is the sum along a route
\* of least weight, or the inter-PID default; to or from an external PID it is that of the
\* link, or that of the link at the egress PID plus the intradomain part.  The pDistances
\* of a route whose last PID before the external one is external too are left out.  This
\* is what an update stores, for the configuration it was computed from, if the flag of
\* every PID is that of its nodes.
PDistancesMatch ==
    LET c == cur.result.of
        best == Best(c)
        Internal == {p \in PIDs(c) : ~ External(p)}
        Ways(p, q) == {w \in best : w.from = p /\ w.to = q}
        \* the PIDs next to the external one on the ways of least weight between p and q
        Egress(p, q) ==
            {r \in PIDs(c) : \E w \in Ways(p, q) :
                IF External(q) THEN LinkOf(c, r, q) /\ \E v \in Ways(p, r) : w.weight = v.weight + get_weight(c, r, q)
                ELSE LinkOf(c, p, r) /\ \E v \in Ways(r, q) : w.weight = get_weight(c, p, r) + v.weight}
        Link(p, q) == Static(c, p, q, c.props.interdomain)
        Part(p, q) == IF c.props.includes_intradomain = 1 THEN cur.result.intra[<<p, q>>] ELSE 0
        Through(p, q, r) == IF External(r) THEN {}
                            ELSE IF External(q) THEN {Link(r, q) + Part(p, r)} ELSE {Link(p, r) + Part(r, q)}
        Inter(p, q) == {cur.result.inter[k] : k \in DOMAIN cur.result.inter \cap {<<p, q>>}}
    IN  c # NoEntries /\ (\A n \in DOMAIN c.pids : Pin(c, n).pid = c.pids[n].pid) =>
            /\ DOMAIN cur.result.intra = Internal \X Internal
            /\ \A p, q \in Internal : cur.result.intra[<<p, q>>] \in
                    IF p = q THEN {c.props.intrapid}
                    ELSE IF Ways(p, q) = {} THEN {c.props.interpid} ELSE {w.sum : w \in Ways(p, q)}
            /\ \A p, q \in PIDs(c) : External(p) # External(q) =>
                    IF LinkOf(c, p, q) THEN Inter(p, q) = {Link(p, q)}
                    ELSE IF Ways(p, q) = {} THEN Inter(p, q) = {c.props.interdomain}
                    ELSE \E r \in Egress(p, q) : Inter(p, q) = Through(p, q, r)

\* loading.tex:122-124 and 178-180 set the pDistances of links that earlier commands
\* defined.  A link of the view stays until one of its PIDs is deleted or
\* the portal starts anew.  (Refuted: the copy of an aggregation has no links.)
LinksPersist ==
    [][\A l \in DOMAIN cur.links :
            \/ l \in DOMAIN cur'.links
            \/ StartPortal
            \/ ~ {cur.links[l][1], cur.links[l][2]} \subseteq PIDs(cur')]_vars
=============================================================================
