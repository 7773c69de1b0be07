-------------------------- MODULE MCAnnounceSystem --------------------------
(***************************************************************************)
(* Clients whose announce list is one HTTP tracker, or begins with a UDP   *)
(* tracker that never answers.                                             *)
(***************************************************************************)
EXTENDS AnnounceSystem

MCAnnounceLists == {<<"http">>, <<"dead", "udp">>}
=============================================================================
