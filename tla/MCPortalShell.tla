--------------------------- MODULE MCPortalShell ---------------------------
(* Small instances of PortalShell. *)
EXTENDS PortalShell

CONSTANTS a, b, x, n, ab, ba, bx, p1, p2

A == <<1, FALSE>>
B == <<2, FALSE>>
N == <<4, FALSE>>
X == <<3, TRUE>>
Y == <<2, TRUE>>

\* Two internal PIDs and an external one, joined in a row; the weights and the static
\* pDistances are set.
Row == <<config_pid(a, A, <<p1>>), config_pid(b, B, <<p2>>), config_pid(x, X, <<>>),
         config_pid_link(a, b, ab, <<3>>), config_pid_link(b, a, ba, <<>>),
         config_pid_link(b, x, bx, <<>>),
         config_pdistance_link(ab, 9), config_pdistance_link(bx, 12)>>

\* A route through one external PID to another, and back.
Beyond == <<config_pid(a, A, <<p1>>), config_pid(b, Y, <<>>), config_pid(x, X, <<p2>>),
            config_pid_link(a, b, ab, <<>>), config_pid_link(b, a, ba, <<>>),
            config_pid_link(b, x, bx, <<>>), config_pid_link(x, b, n, <<>>)>>

\* Two egress PIDs at the same distance, with different pDistances.
Diamond == <<config_pid(a, A, <<>>), config_pid(b, B, <<p2>>), config_pid(n, N, <<>>), config_pid(x, X, <<>>),
             config_pid_link(a, b, ab, <<>>), config_pid_link(a, n, ba, <<>>),
             config_pid_link(b, x, bx, <<>>), config_pid_link(n, x, n, <<>>),
             config_pdistance_link(bx, 12)>>

MCFiles == {Row \o <<config_pdistance_update>>, Row \o <<Misspelt(config_pid_link(x, b, n, <<>>))>>,
            Beyond, Diamond}

\* Typed: PIDs and links, some of which fail after a file was loaded, deletions, defaults,
\* and nodes from a program.
MCCommands ==
    {config_pid(a, A, <<p1>>), Misspelt(config_pid(a, A, <<p1>>)), config_pid(n, A, <<p1>>),
     config_pid_del(a), config_pid_del(x),
     config_pid_link(a, x, n, <<1>>), config_pdistance_link(ab, 4),
     config_pdistance_prop("update_interval", 0),
     config_pdistance_prop("includes_intradomain", 0), config_pdistance_update,
     api_border_node(a, n, FALSE, x), api_border_node(b, n, TRUE, a), api_transit_node(a, n, x)}

\* PIDs and links as in the manual, one command after the other.
MCManual == {config_pid(a, A, <<p1>>), config_pid(b, B, <<p2>>),
             config_pid_link(a, b, ab, <<3>>), config_pid_link(b, a, ba, <<3>>)}
=============================================================================
