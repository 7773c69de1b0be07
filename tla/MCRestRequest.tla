--------------------------- MODULE MCRestRequest ----------------------------
(* Small instances of RestRequest. *)
EXTENDS RestRequest

CONSTANTS c1, c2

\* "w w ww": an entry of two words, and one word left over.
MCBody == <<"w", "s", "w", "s", "w", "w">>
MCLineDoc == <<2, 1, 2>>

\* One client makes requests of all kinds, the other takes state objects from the
\* pool and gives them back meanwhile.
MCHandlers == [c \in Conns |-> IF c = c1 THEN DOMAIN Handler ELSE {"Admin"}]
=============================================================================
