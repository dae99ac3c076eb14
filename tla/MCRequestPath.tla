--------------------------- MODULE MCRequestPath ---------------------------
(***************************************************************************)
(* RequestPath for three sets of requests. The heads are routed by the     *)
(* Host line or by the header K: one, the other, none, twice, without a    *)
(* space, with bad values, and with the end of the head before it; the     *)
(* size limit falls among their lines. A TLS stream may hold any bytes:    *)
(* the streams have what is hard for the agent's rewriting, up to three    *)
(* lines, the last one with or without its end.                            *)
(***************************************************************************)
EXTENDS RequestPath

\* "Host:" with a value, without one, broken off, and not at the beginning.
MCLines == {<<"n">>, <<"x", "n">>, host \o <<"x", "n">>,
            <<"H", "o", "x", "n">>, <<"x">> \o host \o <<"n">>}

MCEnds == {<<>>, <<"H", "o", "s", "t">>, host \o <<"x">>, <<"x", "H">>}

MCHellos ==
    {a \o b \o c : a \in MCLines, b \in MCLines, c \in MCLines \cup MCEnds}

MCHeaders ==
    {headerHostPrefix \o <<"a", ".", "b", ".", "c", "r", "n">>,
     headerHostPrefix \o <<"d", ".", "b", ".", "r", "n">>,
     headerHostPrefix \o <<".", "b", ".", "c", "n">>,
     <<"x">> \o headerHostPrefix \o <<"a", ".", "b", ".", "c", "n">>,
     host \o <<"x", "n">>,
     <<"K", ":", "a", "n">>, <<"K", ":", "r", "n">>,
     <<"K", ":", "a", "a", "a", "a", "a", "a", "a", "a", "n">>}

MCHeads ==
    {<<>>} \cup
    {a \o b \o c : a \in {<<"x", "r", "n">>, <<>>},
                   b \in MCHeaders \cup {<<"r", "n">>},
                   c \in MCHeaders \cup {<<"x">>}}

MCRequests == MCHellos \cup MCHeads

MCMuxHeader == <<"K", ":">>

MCExchanges ==
    {<<"offer", "candidate">>, <<"bad", "candidate">>, <<"offer", "empty">>,
     <<"long">>}
============================================================================
