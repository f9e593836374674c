------------------------------ MODULE Parsers -------------------------------
(***************************************************************************)
(* The parsers of notes 17 and 9 behind one connection each, on which the  *)
(* same message arrives in the same pieces, wherever it is cut.            *)
(***************************************************************************)
EXTENDS RequestParser

CONSTANT Messages   \* what a client may send, as sequences of symbols

\* Whatever occurs in them, and the zero the parsers write.
Symbols == {"NUL"} \cup UNION {{m[k] : k \in DOMAIN m} : m \in Messages}

ASSUME MessagesAssumption == Messages \subseteq Seq(Symbols)

VARIABLES message, arrived,
          buffer, checked_index, start_line_9, checkstate, result

Note9 == INSTANCE ReadHttp WITH start_line <- start_line_9

readVars9 == <<buffer, checked_index, start_line_9, checkstate, result>>
vars == <<message, arrived, parserVars, readVars9>>

Init == /\ message \in Messages /\ arrived = 0
        /\ ParserInit /\ Note9!ReadInit

\* The next n bytes; a parser that has its answer reads no more.
Deliver(n) ==
    LET piece == SubSeq(message, arrived + 1, arrived + n) IN
    /\ code # "running" /\ result # "running"
    /\ arrived' = arrived + n
    /\ IF code = "kNoRequest" THEN Take(piece) ELSE UNCHANGED parserVars
    /\ IF result = "NO_REQUEST" THEN Note9!Recv(piece) ELSE UNCHANGED readVars9
    /\ UNCHANGED message

\* The two share nothing: one after the other is as good as any order.
Parse17 == ProcessRead /\ UNCHANGED <<message, arrived, readVars9>>

Parse9 == code # "running" /\ Note9!parse_content /\ UNCHANGED <<message, arrived, parserVars>>

Next == \/ \E n \in 1..(Len(message) - arrived) : Deliver(n)
        \/ Parse17 \/ Parse9

Spec == Init /\ [][Next]_vars

\* The parser is called and runs on a thread of its own.
FairSpec == Spec /\ WF_vars(Parse17) /\ WF_vars(Parse9)
-----------------------------------------------------------------------------
TypeOK ==
    /\ message \in Messages /\ arrived \in 0..Len(message)
    /\ checked_idx \in 1..(read_idx + 1) /\ start_line \in 1..checked_idx
    /\ check_state \in {"kCheckStateRequestLine", "kCheckStateHeader", "kCheckStateContent"}
    /\ content_length \in -Half..(Half - 1) /\ linger \in BOOLEAN
    /\ line_status \in {"kLineOk", "kLineBad", "kLineOpen"}
    /\ code \in {"running", "kNoRequest", "kBadRequest", "kGetRequest", "ruined"}
    /\ checked_index \in 1..(Len(buffer) + 1) /\ start_line_9 \in 1..checked_index
    /\ checkstate \in {"REQUESTLINE", "HEADER"}
    /\ result \in {"running", "NO_REQUEST", "BAD_REQUEST", "GET_REQUEST"}

(***************************************************************************)
(* Neither parser ever steps over a CR whose LF it has not seen.  So the   *)
(* branch for a LF behind a CR (httpconnection.cpp:484, server.c:45) is    *)
(* never taken, and it does not matter that the one in server.c:47 clears  *)
(* the wrong two bytes.                                                    *)
(***************************************************************************)
CRNeverPassed == /\ checked_idx > 1 => read_buff[checked_idx - 1] # "CR"
                 /\ checked_index > 1 => buffer[checked_index - 1] # "CR"

(***************************************************************************)
(* The answer to a request is a matter of its bytes, and not of how they   *)
(* were cut into reads: what a grammar says of all that has arrived, the   *)
(* incremental parser has found out.  For messages without a body.         *)
(***************************************************************************)
Ends(p) == {k \in 1..(Len(p) - 1) : p[k] = "CR" /\ p[k + 1] = "LF"}
Ill(p)  == {k \in 1..Len(p) : \/ p[k] = "CR" /\ k < Len(p) /\ p[k + 1] # "LF"
                              \/ p[k] = "LF" /\ (k = 1 \/ p[k - 1] # "CR")}

Sane(p, k) == \A j \in Ill(p) : j > k

\* The ends of the first line and of the empty one.
FirstEnd(p, k) == k \in Ends(p) /\ \A j \in Ends(p) : k <= j
HeadEnd(p, k)  == {k, k - 2} \subseteq Ends(p) /\ \A j \in Ends(p) : j - 2 \in Ends(p) => k <= j

Answer(p) ==
    IF \E k \in Ends(p) : /\ FirstEnd(p, k) /\ Sane(p, k)
                          /\ SubSeq(p, 1, k - 1) \notin {<<"GET11">>, <<"GET10">>}
      THEN "kBadRequest"
    ELSE IF \E k \in Ends(p) : HeadEnd(p, k) /\ Sane(p, k) THEN "kGetRequest"
    ELSE "kNoRequest"

AsksToKeep(p) == \E k, e \in Ends(p) : /\ k = e + 3 /\ p[e + 2] = "KEEP"
                                       /\ \A b \in Ends(p) : HeadEnd(p, b) => k < b

HasBody(p) == \E k \in DOMAIN p : p[k] \in DOMAIN ContentLength

Prefix == SubSeq(message, 1, arrived)

SplitFree == code # "running" /\ ~HasBody(message) =>
                /\ code = Answer(Prefix)
                /\ code = "kGetRequest" => linger = AsksToKeep(Prefix)

\* The head of p ends in k, and the last line in it that gives a length starts behind e.
LastLength(p, e, k) == /\ HeadEnd(p, k) /\ e + 2 < k /\ p[e + 2] \in DOMAIN ContentLength
                       /\ \A b \in Ends(p) : e < b /\ b + 2 < k => p[b + 2] \notin DOMAIN ContentLength

\* As many bytes behind the head have come as the client says.
BodyThere(e, k) == arrived >= k + 1 + ContentLength[message[e + 2]]

(***************************************************************************)
(* A request with a body is not answered before its body is there, however *)
(* it was cut, if its length is a number that an int can hold: beyond that *)
(* it is, since 4294967296 is taken for 0 and 4294967299 for 3.  (That it  *)
(* is answered at all is not so: ParseLine moves checked_idx over the      *)
(* first part of a body that is cut, and ParseContent counts from there.)  *)
(***************************************************************************)
BodyComplete ==
    code = "kGetRequest" =>
        \A e, k \in Ends(message) :
            LastLength(message, e, k) /\ ContentLength[message[e + 2]] \in -Half..(Half - 1) =>
                BodyThere(e, k)

(***************************************************************************)
(* Note 17 answers what note 9 answers, when note 9 does, apart from a     *)
(* malformed line, which only note 9 answers.                              *)
(***************************************************************************)
AgreesWithNote9 ==
    code # "running" /\ result # "running"
      /\ ~HasBody(message) /\ "GET10" \notin {message[k] : k \in DOMAIN message} =>
        CASE result = "GET_REQUEST" -> code = "kGetRequest"
          [] result = "NO_REQUEST"  -> code = "kNoRequest" /\ line_status # "kLineBad"
          [] result = "BAD_REQUEST" -> \/ code = "kBadRequest"
                                       \/ code = "kNoRequest" /\ line_status = "kLineBad"

(***************************************************************************)
(* ProcessRead always returns: the loop, which in the body does not wait   *)
(* for a line, goes round finitely often.                                  *)
(***************************************************************************)
Settles == []<>(code # "running")
=============================================================================
