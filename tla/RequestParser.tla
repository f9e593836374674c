--------------------------- MODULE RequestParser ----------------------------
(***************************************************************************)
(* The request parser of note 17 (httpconnection.cpp): ProcessRead and     *)
(* what it calls, on a buffer that Read fills piece by piece.  One step is *)
(* one turn of the loop in ProcessRead.                                    *)
(*                                                                         *)
(* A byte of the buffer is a symbol: CR, LF, the zero the parser writes    *)
(* over them, or one of the texts it tells apart: a request line, a header *)
(* that matters, anything else.  What ends a parse is in `code`: while     *)
(* ProcessRead runs it is "running", when it returned kNoRequest the next  *)
(* Read starts it again, and after anything else there is a reply.  Where  *)
(* the behaviour of the code is undefined it is "ruined".                  *)
(***************************************************************************)
EXTENDS Integers, Sequences

CONSTANTS ContentLength,  \* what atol() makes of a Content-Length header, a long
          Half            \* an int is one of -Half..(Half - 1)

ASSUME ParserAssumption == /\ Half \in Nat \ {0}
                           /\ \A sym \in DOMAIN ContentLength : ContentLength[sym] \in Int

\* A long that is assigned to an int.
ToInt(n) == ((n + Half) % (2 * Half)) - Half

VARIABLES read_buff, checked_idx, start_line, check_state, content_length, linger,
          line_status,   \* of ProcessRead
          code           \* what it returned

parserVars == <<read_buff, checked_idx, start_line, check_state, content_length, linger,
                line_status, code>>

read_idx == Len(read_buff)

ParserInit == /\ read_buff = <<>> /\ checked_idx = 1 /\ start_line = 1
              /\ check_state = "kCheckStateRequestLine"
              /\ content_length = 0 /\ linger = FALSE
              /\ line_status = "kLineOk" /\ code = "kNoRequest"

\* Read(), and ProcessRead() is called.
Take(piece) == /\ code = "kNoRequest"
               /\ read_buff' = read_buff \o piece
               /\ line_status' = "kLineOk" /\ code' = "running"
               /\ UNCHANGED <<checked_idx, start_line, check_state, content_length, linger>>
-----------------------------------------------------------------------------
Breaks == {k \in checked_idx..read_idx : read_buff[k] \in {"CR", "LF"}}

Found(status, idx, buff) == [status |-> status, idx |-> idx, buff |-> buff]

\* Defective variant: one byte more is taken for the end of the line.
LineAtBeyond(k) == Found("kLineOk", k + 3, [read_buff EXCEPT ![k] = "NUL", ![k + 1] = "NUL"])

\* The line that ends in the two bytes from k on.
LineAt(k) == Found("kLineOk", k + 2, [read_buff EXCEPT ![k] = "NUL", ![k + 1] = "NUL"])

\* Defective variant: a CR is stepped over before its LF is there.
ParseLineForgets ==
    IF Breaks = {} THEN Found("kLineOpen", read_idx + 1, read_buff)
    ELSE LET k == CHOOSE j \in Breaks : \A b \in Breaks : j <= b
         IN  CASE read_buff[k] = "CR" /\ k = read_idx -> Found("kLineOpen", k + 1, read_buff)
               [] read_buff[k] = "CR" /\ k < read_idx /\ read_buff[k + 1] = "LF" -> LineAt(k)
               [] read_buff[k] = "LF" /\ k > 2 /\ read_buff[k - 1] = "CR" ->
                    [LineAt(k - 1) EXCEPT !.idx = k + 1]
               [] OTHER -> Found("kLineBad", k, read_buff)

ParseLine ==
    IF Breaks = {} THEN Found("kLineOpen", read_idx + 1, read_buff)
    ELSE LET k == CHOOSE j \in Breaks : \A b \in Breaks : j <= b
         IN  CASE read_buff[k] = "CR" /\ k = read_idx -> Found("kLineOpen", k, read_buff)
               [] read_buff[k] = "CR" /\ k < read_idx /\ read_buff[k + 1] = "LF" -> LineAt(k)
               [] read_buff[k] = "LF" /\ k > 2 /\ read_buff[k - 1] = "CR" ->
                    [LineAt(k - 1) EXCEPT !.idx = k + 1]
               [] OTHER -> Found("kLineBad", k, read_buff)

\* GetLine(), up to the zero that ParseLine wrote.
Line == SubSeq(read_buff, start_line, ParseLine.idx - 3)

\* A turn of the loop that has a line, in the given state.
InLine(state) == /\ code = "running" /\ check_state = state
                 /\ ParseLine.status = "kLineOk"
                 /\ read_buff' = ParseLine.buff
                 /\ checked_idx' = ParseLine.idx /\ start_line' = ParseLine.idx
                 /\ line_status' = "kLineOk"

ParseRequestLine ==
    /\ InLine("kCheckStateRequestLine")
    /\ \/ /\ Line \in {<<"GET11">>, <<"GET10">>}
          /\ check_state' = "kCheckStateHeader"
          /\ linger' = (linger /\ Line = <<"GET11">>)
          /\ code' = code
       \/ /\ Line \notin {<<"GET11">>, <<"GET10">>}
          /\ code' = "kBadRequest"
          /\ UNCHANGED <<check_state, linger>>
    /\ UNCHANGED content_length

ParseHeader ==
    /\ InLine("kCheckStateHeader") /\ Line # <<>>
    /\ linger' = (linger \/ Line = <<"KEEP">>)
    /\ content_length' = IF Line[1] \in DOMAIN ContentLength THEN ToInt(ContentLength[Line[1]])
                                                            ELSE content_length
    /\ UNCHANGED <<check_state, code>>

\* The empty line: DoRequest() if there is no body.
ParseEnd ==
    /\ InLine("kCheckStateHeader") /\ Line = <<>>
    /\ \/ content_length # 0 /\ check_state' = "kCheckStateContent" /\ code' = code
       \/ content_length = 0 /\ code' = "kGetRequest" /\ check_state' = check_state
    /\ UNCHANGED <<linger, content_length>>

\* The sum ParseContent compares read_idx with, which may be too much for an int.
Awaited(idx) == content_length + idx - 1

\* text[content_length] = '\0'; of what is in front of the buffer nothing is said.
Cleared(buff) ==
    LET last == start_line + content_length IN
    /\ read_buff' = IF last \in DOMAIN buff THEN [buff EXCEPT ![last] = "NUL"] ELSE buff
    /\ code' = IF last < 1 THEN "ruined" ELSE "kGetRequest"
    /\ line_status' = line_status

\* Defective variants: line_status is left alone; one byte too few will do.
ContentAgain(buff, idx) ==
    /\ start_line' = idx /\ checked_idx' = idx
    /\ \/ read_idx >= Awaited(idx) /\ Cleared(buff)
       \/ read_idx < Awaited(idx) /\ read_buff' = buff /\ UNCHANGED <<code, line_status>>
    /\ UNCHANGED <<check_state, content_length, linger>>

ContentEarly(buff, idx) ==
    /\ start_line' = idx /\ checked_idx' = idx
    /\ \/ read_idx >= Awaited(idx) - 1 /\ Cleared(buff)
       \/ read_idx < Awaited(idx) - 1 /\ read_buff' = buff /\ code' = code /\ line_status' = "kLineOpen"
    /\ UNCHANGED <<check_state, content_length, linger>>

\* ParseContent, on a buffer and an index that ParseLine may just have moved.
Content(buff, idx) ==
    /\ start_line' = idx /\ checked_idx' = idx
    /\ \/ /\ Awaited(idx) < Half /\ read_idx >= Awaited(idx)
          /\ Cleared(buff)
       \/ /\ Awaited(idx) < Half /\ read_idx < Awaited(idx)
          /\ line_status' = "kLineOpen" /\ read_buff' = buff /\ code' = code
       \/ /\ Awaited(idx) >= Half
          /\ code' = "ruined" /\ read_buff' = buff /\ line_status' = line_status
    /\ UNCHANGED <<check_state, content_length, linger>>

ParseContent ==
    /\ code = "running" /\ check_state = "kCheckStateContent" /\ line_status = "kLineOk"
    /\ Content(read_buff, checked_idx)

\* A body that is not complete is looked through for a line.
ParseContentLine ==
    /\ code = "running" /\ check_state = "kCheckStateContent" /\ line_status # "kLineOk"
    /\ ParseLine.status = "kLineOk"
    /\ Content(ParseLine.buff, ParseLine.idx)

\* Defective variant: what there is of a line is taken for looked at.
NoLineRestarts ==
    /\ code = "running"
    /\ check_state = "kCheckStateContent" => line_status # "kLineOk"
    /\ ParseLine.status # "kLineOk"
    /\ checked_idx' = ParseLine.idx /\ start_line' = ParseLine.idx
    /\ line_status' = ParseLine.status
    /\ code' = "kNoRequest"
    /\ UNCHANGED <<read_buff, check_state, content_length, linger>>

\* Without a line the loop ends; a bad one is no other to it than an open one.
NoLine ==
    /\ code = "running"
    /\ check_state = "kCheckStateContent" => line_status # "kLineOk"
    /\ ParseLine.status # "kLineOk"
    /\ checked_idx' = ParseLine.idx /\ line_status' = ParseLine.status
    /\ code' = "kNoRequest"
    /\ UNCHANGED <<read_buff, start_line, check_state, content_length, linger>>

ProcessRead == \/ ParseRequestLine \/ ParseHeader \/ ParseEnd
               \/ ParseContent \/ ParseContentLine \/ NoLine
=============================================================================
