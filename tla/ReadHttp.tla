------------------------------ MODULE ReadHttp ------------------------------
(***************************************************************************)
(* The parser of note 9 (server.c), from which the one of note 17 was      *)
(* made: one connection, no bodies, HTTP/1.1 only, and a malformed line is *)
(* answered.  One step is one turn of the loop in parse_content; symbols   *)
(* as in RequestParser.                                                    *)
(***************************************************************************)
EXTENDS Integers, Sequences

VARIABLES buffer, checked_index, start_line, checkstate,
          result         \* of parse_content, "running" inside of it

readVars == <<buffer, checked_index, start_line, checkstate, result>>

read_index == Len(buffer)

ReadInit == /\ buffer = <<>> /\ checked_index = 1 /\ start_line = 1
            /\ checkstate = "REQUESTLINE" /\ result = "NO_REQUEST"

\* recv() of main, which goes on after NO_REQUEST only.
Recv(piece) == /\ result = "NO_REQUEST"
               /\ buffer' = buffer \o piece
               /\ result' = "running"
               /\ UNCHANGED <<checked_index, start_line, checkstate>>

Breaks == {k \in checked_index..read_index : buffer[k] \in {"CR", "LF"}}

Found(status, idx, buff) == [status |-> status, idx |-> idx, buff |-> buff]

\* Behind a LF that follows a CR it is the LF and the next byte that are cleared.
ParseLine ==
    IF Breaks = {} THEN Found("LINE_OPEN", read_index + 1, buffer)
    ELSE LET k == CHOOSE j \in Breaks : \A b \in Breaks : j <= b
             cleared == [j \in 1..read_index |-> IF j \in {k, k + 1} THEN "NUL" ELSE buffer[j]]
         IN  CASE buffer[k] = "CR" /\ k = read_index -> Found("LINE_OPEN", k, buffer)
               [] \/ buffer[k] = "CR" /\ k < read_index /\ buffer[k + 1] = "LF"
                  \/ buffer[k] = "LF" /\ k > 2 /\ buffer[k - 1] = "CR" ->
                    Found("LINE_OK", k + 2, cleared)
               [] OTHER -> Found("LINE_BAD", k, buffer)

Line == SubSeq(buffer, start_line, ParseLine.idx - 3)

InLine(state) == /\ result = "running" /\ checkstate = state
                 /\ ParseLine.status = "LINE_OK"
                 /\ buffer' = ParseLine.buff
                 /\ checked_index' = ParseLine.idx /\ start_line' = ParseLine.idx

parse_requestline ==
    /\ InLine("REQUESTLINE")
    /\ \/ Line = <<"GET11">> /\ checkstate' = "HEADER" /\ result' = result
       \/ Line # <<"GET11">> /\ result' = "BAD_REQUEST" /\ checkstate' = checkstate

parse_headers == /\ InLine("HEADER")
                 /\ result' = IF Line = <<>> THEN "GET_REQUEST" ELSE result
                 /\ UNCHANGED checkstate

\* Defective variant: a malformed line is waited behind, as in note 17.
NoLineWaits == /\ result = "running" /\ ParseLine.status # "LINE_OK"
               /\ checked_index' = ParseLine.idx
               /\ result' = "NO_REQUEST"
               /\ UNCHANGED <<buffer, start_line, checkstate>>

NoLine == /\ result = "running" /\ ParseLine.status # "LINE_OK"
          /\ checked_index' = ParseLine.idx
          /\ result' = IF ParseLine.status = "LINE_OPEN" THEN "NO_REQUEST" ELSE "BAD_REQUEST"
          /\ UNCHANGED <<buffer, start_line, checkstate>>

parse_content == parse_requestline \/ parse_headers \/ NoLine
=============================================================================
