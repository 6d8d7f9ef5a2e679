----------------------------- MODULE HttpParser -----------------------------
(***************************************************************************)
(* youshuang 8-3httpparser.cpp: a server that reads one request, in        *)
(* whatever pieces recv returns it, and parses what it has got after each. *)
(* A word that the parser compares with is one symbol, so is any other     *)
(* text; comparisons are without case.  The client sends no NUL bytes.     *)
(* The NULs that the parser puts at the end of a line or word are where a  *)
(* sequence ends.                                                          *)
(***************************************************************************)
EXTENDS Integers, Sequences, SequencesExt

CONSTANTS BUFFER_SIZE,
          MaxWire       \* bound: the length of the requests of any form

ASSUME HttpParserAssumption == BUFFER_SIZE \in Nat \ {0} /\ MaxWire \in Nat

VARIABLES wire,      \* what the client sends, to the end
          read_index, checked_index, start_line, checkstate,
          answer     \* what parse_content last returned; "closed" at the end of the connection
hpVars == <<wire, read_index, checked_index, start_line, checkstate, answer>>

Symbols == {"GET", "HTTP/1.1", "http://", "/", "text", "blank", "CR", "LF"}
Proper == <<"GET", "blank", "/", "blank", "HTTP/1.1", "CR", "LF", "text", "CR", "LF", "CR", "LF">>

(* Requests of any form if they are short, and those that differ from a    *)
(* proper one in one place.                                                *)
Requests == SeqOf(Symbols, MaxWire)
            \cup {[Proper EXCEPT ![i] = c] : i \in DOMAIN Proper, c \in Symbols}
            \cup {InsertAt(Proper, i, c) : i \in DOMAIN Proper, c \in Symbols}
            \cup {RemoveAt(Proper, i) : i \in DOMAIN Proper}

HpInit == /\ wire \in Requests
          /\ read_index = 0 /\ checked_index = 0 /\ start_line = 0
          /\ checkstate = "REQUESTLINE" /\ answer = "NO_REQUEST"

-----------------------------------------------------------------------------
(* parse_line: the status, and how much is checked.  Indices count from 0. *)
NextEnd(b, c, r) == SelectInSubSeq(b, c + 1, r, LAMBDA x : x \in {"CR", "LF"}) - 1
ParseLineHasty(b, c, r) ==                                       \* mutant
    LET i == NextEnd(b, c, r)
    IN  IF i < 0 THEN [status |-> "OPEN", checked |-> r]
        ELSE IF b[i + 1] = "CR" /\ i + 1 < r /\ b[i + 2] = "LF" THEN [status |-> "OK", checked |-> i + 2]
        ELSE [status |-> "BAD", checked |-> i]
parse_line(b, c, r) ==
    LET i == NextEnd(b, c, r)
    IN  IF i < 0 THEN [status |-> "OPEN", checked |-> r]
        ELSE IF b[i + 1] = "CR"
        THEN IF i + 1 = r THEN [status |-> "OPEN", checked |-> i]
             ELSE IF b[i + 2] = "LF" THEN [status |-> "OK", checked |-> i + 2]
             ELSE [status |-> "BAD", checked |-> i]
        ELSE IF i > 1 /\ b[i] = "CR" THEN [status |-> "OK", checked |-> i + 1]
        ELSE [status |-> "BAD", checked |-> i]

(* strpbrk and strspn with " \t", strchr with '/'. *)
FirstBlank(t) == SelectInSeq(t, LAMBDA x : x = "blank")
SkipBlanks(t) == LET i == SelectInSeq(t, LAMBDA x : x # "blank")
                 IN  IF i = 0 THEN <<>> ELSE SubSeq(t, i, Len(t))
HasSlash(t) == \E i \in DOMAIN t : t[i] \in {"/", "HTTP/1.1", "http://"}

\* whether the request line is accepted
parse_requestline(t) ==
    LET u == FirstBlank(t)
        rest == SkipBlanks(SubSeq(t, u + 1, Len(t)))
        v == FirstBlank(rest)
        url == SubSeq(rest, 1, v - 1)
    IN  /\ u > 0 /\ SubSeq(t, 1, u - 1) = <<"GET">>
        /\ v > 0 /\ SkipBlanks(SubSeq(rest, v + 1, Len(rest))) = <<"HTTP/1.1">>
        /\ IF Head(url) = "http://" THEN HasSlash(Tail(url)) ELSE Head(url) = "/"

parse_headers(t) == IF t = <<>> THEN "GET_REQUEST" ELSE "NO_REQUEST"

(* parse_content with r bytes read: line after line, from the place at0 on. *)
parse_content(b, r, at0) ==
    LET Lines[at \in [checked : 0 .. r, start : 0 .. r, state : {"REQUESTLINE", "HEADER"}]] ==
            LET p == parse_line(b, at.checked, r)
                line_ == SubSeq(b, at.start + 1, p.checked - 2)
                GoOn(next) == Lines[[checked |-> p.checked, start |-> p.checked, state |-> next]]
                Result(code, begins) == [code |-> code, checked |-> p.checked, start |-> begins, state |-> at.state]
            IN  CASE p.status = "OPEN" -> Result("NO_REQUEST", at.start)
                  [] p.status = "BAD" -> Result("BAD_REQUEST", at.start)
                  [] p.status = "OK" /\ at.state = "REQUESTLINE" ->
                       IF parse_requestline(line_) THEN GoOn("HEADER") ELSE Result("BAD_REQUEST", p.checked)
                  [] p.status = "OK" /\ at.state = "HEADER" ->
                       IF parse_headers(line_) = "GET_REQUEST" THEN Result("GET_REQUEST", p.checked) ELSE GoOn("HEADER")
    IN  Lines[at0]

-----------------------------------------------------------------------------
(* recv returns the next n bytes; what the parser says of them decides     *)
(* whether the server goes on reading or answers and closes.               *)
HpRecv(n) ==
    /\ answer = "NO_REQUEST" /\ read_index + n <= Len(wire) /\ read_index + n <= BUFFER_SIZE
    /\ LET p == parse_content(wire, read_index + n,
                              [checked |-> checked_index, start |-> start_line, state |-> checkstate])
       IN  /\ read_index' = read_index + n /\ checked_index' = p.checked
           /\ start_line' = p.start /\ checkstate' = p.state /\ answer' = p.code
    /\ UNCHANGED wire

(* recv returns 0 or fails: the client is gone, or the buffer is full. *)
HpEnd == /\ answer = "NO_REQUEST" /\ answer' = "closed"
         /\ UNCHANGED <<wire, read_index, checked_index, start_line, checkstate>>

(* The program has ended and is run again. *)
HpAgain == /\ answer # "NO_REQUEST" /\ UNCHANGED wire
           /\ read_index' = 0 /\ checked_index' = 0 /\ start_line' = 0
           /\ checkstate' = "REQUESTLINE" /\ answer' = "NO_REQUEST"

HpNext == HpEnd \/ HpAgain \/ \E n \in 1 .. BUFFER_SIZE : HpRecv(n)
HpSpec == HpInit /\ [][HpNext]_hpVars

-----------------------------------------------------------------------------
(* What the request is, as a whole: a carriage return and a line feed      *)
(* stand only together; the first line names GET, a path and HTTP/1.1 with *)
(* blanks between them, and an empty line after it ends the request.       *)
Stray(b, i) == \/ b[i] = "CR" /\ i < Len(b) /\ b[i + 1] # "LF"
               \/ b[i] = "LF" /\ (i = 1 \/ b[i - 1] # "CR")
Sound(b) == {i \in 0 .. Len(b) : \A j \in 1 .. i : ~Stray(b, j)}
LineEnds(b) == {i \in Sound(b) : i > 1 /\ b[i] = "LF"}
RequestLine(t) ==
    \E j, k \in 3 .. Len(t) - 2 :      \* where the address begins and ends
        /\ j <= k /\ t[1] = "GET" /\ t[Len(t)] = "HTTP/1.1"
        /\ \A x \in 2 .. Len(t) - 1 : (t[x] = "blank") = (x \notin j .. k)
        /\ t[j] = "/" \/ (t[j] = "http://" /\ HasSlash(SubSeq(t, j + 1, k)))
Verdict(b) ==
    LET ends == LineEnds(b)
        first == SelectInSeq([i \in DOMAIN b |-> i \in ends], LAMBDA x : x)
    IN  IF first > 0 /\ ~RequestLine(SubSeq(b, 1, first - 2)) THEN "BAD_REQUEST"
        ELSE IF \E i \in ends : i > first /\ i - 2 \in ends THEN "GET_REQUEST"
        ELSE IF Sound(b) # 0 .. Len(b) THEN "BAD_REQUEST" ELSE "NO_REQUEST"

(* However the request is cut into pieces, in the middle of a line or      *)
(* between a carriage return and its line feed, and whatever state the     *)
(* parser was in between them, its verdict is that on the bytes received   *)
(* as a whole, and it is given with the first piece that allows it.        *)
HttpChunks == answer # "closed" /\ read_index > 0 => answer = Verdict(SubSeq(wire, 1, read_index))
=============================================================================
