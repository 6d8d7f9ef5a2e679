------------------------------ MODULE SdsText ------------------------------
(***************************************************************************)
(* redis-learnning/sds: the functions that make texts from a text, cutting *)
(* at a separator (sdssplitlen, sdsjoinsds) and quoting (sdscatrepr,       *)
(* sdssplitargs).  Their input is a line that somebody types; a byte is    *)
(* its code.  How the strings they build grow is in Sds.                   *)
(***************************************************************************)
EXTENDS Integers, Sequences, SequencesExt

CONSTANTS Keys,       \* the bytes that are typed
          MaxLine,    \* bound: the length of the line
          FirstSlots  \* the slots sdssplitlen begins with

ASSUME SdsTextAssumption == Keys \subseteq 0 .. 255 /\ MaxLine \in Nat /\ FirstSlots \in Nat \ {0}

VARIABLE line

(* Codes of characters, and the classes of ctype.h. *)
Quote == 34
Apostrophe == 39
Backslash == 92
isspace(c) == c \in {9, 10, 11, 12, 13, 32}
isprint(c) == c \in 32 .. 126
is_hex_digit(c) == c \in 48 .. 57 \cup 97 .. 102 \cup 65 .. 70
hex_digit_to_int(c) == IF c \in 48 .. 57 THEN c - 48 ELSE IF c \in 97 .. 102 THEN c - 87 ELSE c - 55
Hex(d) == IF d < 10 THEN 48 + d ELSE 87 + d

-----------------------------------------------------------------------------
(* The letters that stand for control characters behind a backslash. *)
ReadEscape(c) == CASE c = 110 -> 10 [] c = 114 -> 13 [] c = 116 -> 9 [] c = 98 -> 8 [] c = 97 -> 7
                   [] OTHER -> c

ReprUnescaped(c) ==                                              \* mutant
    IF isprint(c) THEN <<c>> ELSE <<Backslash, 120, Hex(c \div 16), Hex(c % 16)>>
ReprOf(c) ==
    CASE c \in {Backslash, Quote} -> <<Backslash, c>>
      [] c \in {10, 13, 9, 7, 8} -> <<Backslash, CHOOSE e \in {110, 114, 116, 97, 98} : ReadEscape(e) = c>>
      [] OTHER -> IF isprint(c) THEN <<c>> ELSE <<Backslash, 120, Hex(c \div 16), Hex(c % 16)>>

sdscatrepr(p) == <<Quote>> \o FlattenSeq([i \in DOMAIN p |-> ReprOf(p[i])]) \o <<Quote>>

(* sdssplitargs.  The line is a C string: what is read behind it is a NUL. *)
Err == [ok |-> FALSE]

SplitArgs(l) ==
    LET at(p) == IF p > Len(l) THEN 0 ELSE l[p]
        HexAt(p) == at(p) = 120 /\ is_hex_digit(at(p + 1)) /\ is_hex_digit(at(p + 2))
        More(bytes, rest) == IF rest.ok THEN [rest EXCEPT !.text = bytes \o @] ELSE Err
        \* a closing quote is followed by a space or nothing at all
        Closing(p) == IF at(p + 1) # 0 /\ ~isspace(at(p + 1)) THEN Err ELSE [ok |-> TRUE, text |-> <<>>, next |-> p + 1]
        \* the rest of a token from p on, in quotes ("inq", "insq") or not, and where it ends
        Token[p \in 1 .. Len(l) + 1, in \in {"plain", "inq", "insq"}] ==
            CASE in = "inq" ->
                   CASE at(p) = 0 -> Err
                     [] at(p) = Backslash /\ HexAt(p + 1) ->
                          More(<<16 * hex_digit_to_int(at(p + 2)) + hex_digit_to_int(at(p + 3))>>, Token[p + 4, in])
                     [] at(p) = Backslash /\ at(p + 1) # 0 /\ ~HexAt(p + 1) ->
                          More(<<ReadEscape(at(p + 1))>>, Token[p + 2, in])
                     [] at(p) = Quote -> Closing(p)
                     [] OTHER -> More(<<at(p)>>, Token[p + 1, in])
              [] in = "insq" ->
                   CASE at(p) = 0 -> Err
                     [] at(p) = Backslash /\ at(p + 1) = Apostrophe -> More(<<Apostrophe>>, Token[p + 2, in])
                     [] at(p) = Apostrophe -> Closing(p)
                     [] OTHER -> More(<<at(p)>>, Token[p + 1, in])
              [] in = "plain" ->
                   CASE at(p) \in {32, 10, 13, 9} -> [ok |-> TRUE, text |-> <<>>, next |-> p + 1]
                     [] at(p) = 0 -> [ok |-> TRUE, text |-> <<>>, next |-> p]
                     [] at(p) = Quote -> Token[p + 1, "inq"]
                     [] at(p) = Apostrophe -> Token[p + 1, "insq"]
                     [] OTHER -> More(<<at(p)>>, Token[p + 1, in])
        \* the arguments from p on
        Args[p \in 1 .. Len(l) + 1] ==
            LET t == Token[p, "plain"]
            IN  IF at(p) = 0 THEN [ok |-> TRUE, argv |-> <<>>]
                ELSE IF isspace(at(p)) THEN Args[p + 1]
                ELSE IF ~t.ok THEN Err
                ELSE LET rest == Args[t.next]
                     IN  IF rest.ok THEN [rest EXCEPT !.argv = <<t.text>> \o @] ELSE Err
    IN  Args[1]

-----------------------------------------------------------------------------
(* sdssplitlen: the tokens, and whether each found a slot of the array that *)
(* begins with FirstSlots of them and is doubled.  No separator and no text *)
(* give no tokens.                                                          *)
DoubledLate(slots, elements) == IF slots < elements + 1 THEN 2 * slots ELSE slots   \* mutant
Doubled(slots, elements) == IF slots < elements + 2 THEN 2 * slots ELSE slots

sdssplitlen(l, sep) ==
    LET \* the loop at j, with the token that begins at start
        From[j \in 1 .. Len(l) + 1, start \in 1 .. Len(l) + 1,
             elements \in 0 .. Len(l), slots \in FirstSlots .. FirstSlots + 2 * (Len(l) + 1)] ==
            LET room == Doubled(slots, elements)
            IN  IF j > Len(l) - (Len(sep) - 1)
                THEN [tokens |-> <<SubSeq(l, start, Len(l))>>, fits |-> elements < slots]
                ELSE IF SubSeq(l, j, j + Len(sep) - 1) = sep
                THEN LET rest == From[j + Len(sep), j + Len(sep), elements + 1, room]
                     IN  [tokens |-> <<SubSeq(l, start, j - 1)>> \o rest.tokens, fits |-> elements < room /\ rest.fits]
                ELSE From[j + 1, start, elements, room]
    IN  IF sep = <<>> \/ l = <<>> THEN [tokens |-> <<>>, fits |-> TRUE] ELSE From[1, 1, 0, FirstSlots]

sdsjoinsds(argv, sep) ==
    FlattenSeq([i \in DOMAIN argv |-> IF i # Len(argv) THEN argv[i] \o sep ELSE argv[i]])

-----------------------------------------------------------------------------
TextInit == line = <<>>
Type(c) == Len(line) < MaxLine /\ line' = Append(line, c)
Enter == line # <<>> /\ line' = <<>>
TextNext == Enter \/ \E c \in Keys : Type(c)
TextSpec == TextInit /\ [][TextNext]_line

Seps == {<<a>> : a \in Keys} \cup {<<a, a>> : a \in Keys}
(* sdssplitargs undoes sdscatrepr: whatever bytes a text has, quoted it is *)
(* read as one argument, the same; and the arguments of any line that can  *)
(* be split, quoted and set apart by spaces, are split into the same.      *)
(* sdsjoinsds undoes sdssplitlen, no separator is left in a token, also    *)
(* where separators touch or overlap, and no token is stored behind the    *)
(* array, which is doubled before it is full.                              *)
SdsSplitJoins ==
    /\ SplitArgs(sdscatrepr(line)) = [ok |-> TRUE, argv |-> <<line>>]
    /\ LET args == SplitArgs(SelectSeq(line, LAMBDA c : c # 0))
       IN  args.ok => SplitArgs(sdsjoinsds([i \in DOMAIN args.argv |-> sdscatrepr(args.argv[i])], <<32>>)) = args
    /\ \A sep \in Seps :
          LET r == sdssplitlen(line, sep)
          IN  line # <<>> => /\ r.fits /\ sdsjoinsds(r.tokens, sep) = line
                             /\ \A i \in DOMAIN r.tokens : \A j \in 1 .. Len(r.tokens[i]) - Len(sep) + 1 :
                                    SubSeq(r.tokens[i], j, j + Len(sep) - 1) # sep
=============================================================================
