------------------------- MODULE MCHttpConnections -------------------------
(***************************************************************************)
(* TLC instances of HttpConnections.                                       *)
(***************************************************************************)
EXTENDS HttpConnections

CONSTANTS c1, c2

\* One client talks, the other only connects and leaves.  The conversations hold each kind of
\* frame, and each rule of fragmentation kept and broken.
Conversations ==
    {<<"first", "ping", "last">>, <<"first", "cont", "last">>, <<"first", "text">>, <<"last">>,
     <<"text", "close">>, <<"bad">>, <<"huge", "text">>}
OneTalks ==
    [c \in Conns |-> [k \in Kinds |-> IF c # c1 THEN {}
                                      ELSE IF k = "sse" THEN {<<"text">>} ELSE Conversations]]

=============================================================================
