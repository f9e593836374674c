----------------------------- MODULE MCParsers ------------------------------
(***************************************************************************)
(* Messages for Parsers: a request line, headers and what follows, with    *)
(* the line ends as they should be or one of them broken.                  *)
(***************************************************************************)
EXTENDS Parsers

\* With an int of 6 bits: lengths that fit and are one too large for it, negative
\* ones, one that fits but not together with the index of the body.
Short   == 2^5
Lengths == [LEN3 |-> 3, LENWRAP |-> 2 * Short + 3, LENZERO |-> 2 * Short,
            LENBACK |-> -2, LENFAR |-> -Short + 1, LENMAX |-> Short - 1]

CRLF == <<"CR", "LF">>
Good == {<<"GET11">>, <<"GET10">>}
Requests == Good \cup {<<"x">>, <<>>, <<"GET11", "x">>}
Headers  == {<<"KEEP">>, <<"KEEP", "x">>, <<"x">>} \cup {<<sym>> : sym \in DOMAIN Lengths}
Broken   == {<<"CR">>, <<"LF">>, <<"CR", "CR">>, <<"LF", "CR">>}
Tails    == {<<>>, <<"x", "x", "x">>, <<"x">> \o CRLF \o <<"x", "x", "x">>, <<"GET11">> \o CRLF}

Whole == {r \o CRLF \o h \o CRLF \o CRLF \o t : r \in Requests, h \in Headers, t \in Tails}
Bare  == {r \o CRLF \o CRLF \o t : r \in Good, t \in Tails}
Twice == {<<"GET11">> \o CRLF \o g \o CRLF \o h \o CRLF \o CRLF \o <<"x", "x", "x">> :
            g, h \in Headers}
Wrong == UNION {{<<"GET11">> \o b \o h \o CRLF \o CRLF, <<"GET11">> \o CRLF \o h \o b \o CRLF,
                 <<"GET11">> \o CRLF \o h \o CRLF \o b} : b \in Broken, h \in Headers}

MCMessages == Whole \cup Bare \cup Twice \cup Wrong
=============================================================================
