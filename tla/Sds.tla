-------------------------------- MODULE Sds --------------------------------
(***************************************************************************)
(* redis-learnning/sds: one string of the Redis string library and every   *)
(* call that changes it.  The widths of the headers are parameters, so     *)
(* that short strings meet all of them.  buf is the memory behind the      *)
(* header; what lies in it behind the terminator is forgotten, no call may *)
(* use it.  wild records a write outside of it.  Allocation succeeds, and  *)
(* lengths stay below SIZE_MAX.  A byte is its code.                       *)
(***************************************************************************)
EXTENDS Integers, Sequences, SequencesExt

CONSTANTS Limit5, Limit8, Limit16, Limit32,  \* 1 << 5, 1 << 8, 1 << 16, 1 << 32
          SDS_MAX_PREALLOC,
          StaticBuf,       \* sizeof(staticbuf) of sdscatvprintf
          LLONG_MAX,
          NoSds, Junk,     \* a NULL sds; an unset byte
          Letters, MaxText, FmtLens,  \* the texts callers pass: from Letters, at most MaxText
                                      \* long; the lengths of the arguments of %s
          MaxEnd, MaxLen   \* bounds: the arguments of sdsrange, either way; the length of the string

ASSUME SdsAssumption ==
    /\ {Limit5, Limit8, Limit16, Limit32, SDS_MAX_PREALLOC, StaticBuf} \subseteq Nat \ {0}
    /\ Limit5 < Limit8 /\ Limit8 < Limit16 /\ Limit16 < Limit32
    /\ Letters \subseteq 0 .. 255 /\ Junk \notin 0 .. 255 /\ MaxText \in Nat
    /\ FmtLens \subseteq Nat /\ MaxEnd \in Nat /\ MaxLen \in Nat /\ LLONG_MAX \in Nat

VARIABLE s      \* NoSds, or [type, len, alloc, buf, wild]; type 0 is SDS_TYPE_5, 4 SDS_TYPE_64

-----------------------------------------------------------------------------
(* The header. *)
sdsReqType(n) == IF n < Limit5 THEN 0 ELSE IF n < Limit8 THEN 1
                 ELSE IF n < Limit16 THEN 2 ELSE IF n < Limit32 THEN 3 ELSE 4

\* what a field of a header of this type keeps of n
Field(type, n) == IF type = 4 THEN n ELSE n % <<Limit5, Limit8, Limit16, Limit32>>[type + 1]

sdsalloc(x) == IF x.type = 0 THEN x.len ELSE x.alloc
sdsavail(x) == IF x.type = 0 THEN 0 ELSE x.alloc - x.len
sdssetlen(x, n) == [x EXCEPT !.len = Field(x.type, n)]
sdsinclen(x, n) == sdssetlen(x, x.len + n)
sdssetalloc(x, n) == [x EXCEPT !.alloc = IF x.type = 0 THEN 0 ELSE Field(x.type, n)]

(* memcpy, memset and memmove to x + at. *)
Put(x, at, bytes) ==
    [x EXCEPT !.buf = [i \in DOMAIN @ |-> IF i - at \in DOMAIN bytes THEN bytes[i - at] ELSE @[i]],
              !.wild = @ \/ at + Len(bytes) > Len(x.buf)]

(* x[n] = '\0'. *)
Close(x, n) == LET y == Put(x, n, <<0>>)
               IN  [y EXCEPT !.buf = [i \in DOMAIN @ |-> IF i > n + 1 THEN Junk ELSE @[i]]]

Content(x) == SubSeq(x.buf, 1, x.len)
Filled(n, c) == [i \in 1 .. n |-> c]
AtLeast0(n) == IF n < 0 THEN 0 ELSE n

-----------------------------------------------------------------------------
(* Creation, growth and shrinking. *)
sdsnewlen(t) ==
    LET need == sdsReqType(Len(t))
        type == IF need = 0 /\ t = <<>> THEN 1 ELSE need
        x == [type |-> type, len |-> 0, alloc |-> 0, buf |-> Filled(Len(t) + 1, Junk), wild |-> FALSE]
    IN  Close(Put(sdssetalloc(sdssetlen(x, Len(t)), Len(t)), 0, t), Len(t))

\* realloc where the type stays, a new block and a copy where it changes
sdsMakeRoomFor(x, addlen) ==
    LET reqlen == x.len + addlen
        newlen == IF reqlen < SDS_MAX_PREALLOC THEN 2 * reqlen ELSE reqlen + SDS_MAX_PREALLOC
        need == sdsReqType(newlen)
        y == [x EXCEPT !.type = IF need = 0 THEN 1 ELSE need,
                       !.buf = [i \in 1 .. newlen + 1 |->
                                   IF i <= x.len + 1 /\ i \in DOMAIN @ THEN @[i] ELSE Junk]]
    IN  IF sdsavail(x) >= addlen THEN x ELSE sdssetalloc(sdssetlen(y, x.len), newlen)

sdsRemoveFreeSpace(x) ==
    LET type == sdsReqType(x.len)
        keeps == type = x.type \/ type > 1
        y == [x EXCEPT !.type = IF keeps THEN @ ELSE type, !.buf = SubSeq(@, 1, x.len + 1)]
    IN  IF sdsavail(x) = 0 THEN x ELSE sdssetalloc(sdssetlen(y, x.len), x.len)

\* the assertions of sdsIncrLen, with the casts to unsigned int
Unsigned(type, n) == IF type = 4 THEN n ELSE n % Limit32
IncrAsserts(x, incr) ==
    \/ incr < 0 /\ x.len >= Unsigned(x.type, -incr)
    \/ CASE x.type = 0 -> incr > 0 /\ x.len + incr < Limit5
         [] x.type = 3 -> incr >= 0 /\ sdsavail(x) >= Unsigned(3, incr)
         [] OTHER -> incr >= 0 /\ sdsavail(x) >= incr
sdsIncrLen(x, incr) == Close(sdsinclen(x, incr), x.len + incr)

-----------------------------------------------------------------------------
(* Text. *)
sdsclear(x) == Close(sdssetlen(x, 0), 0)

GrowWithoutMemset(x, n) ==                                       \* mutant
    IF n <= x.len THEN x ELSE Close(sdssetlen(sdsMakeRoomFor(x, n - x.len), n), n)
sdsgrowzero(x, n) ==
    IF n <= x.len THEN x
    ELSE sdssetlen(Put(sdsMakeRoomFor(x, n - x.len), x.len, Filled(n - x.len + 1, 0)), n)

sdscatlen(x, t) ==
    LET n == x.len + Len(t)
    IN  Close(sdssetlen(Put(sdsMakeRoomFor(x, Len(t)), x.len, t), n), n)

sdscpylen(x, t) ==
    LET y == IF sdsalloc(x) < Len(t) THEN sdsMakeRoomFor(x, Len(t) - x.len) ELSE x
    IN  sdssetlen(Close(Put(y, 0, t), Len(t)), Len(t))

(* The digits are made from the last to the first and then turned round. *)
sdsll2str(value) ==
    LET v == IF value >= 0 THEN value ELSE IF value # -LLONG_MAX - 1 THEN -value ELSE LLONG_MAX + 1
        Low[n \in 0 .. v] == <<48 + (n % 10)>> \o IF n < 10 THEN <<>> ELSE Low[n \div 10]
    IN  Reverse(Low[v] \o IF value < 0 THEN <<45>> ELSE <<>>)

(* vsnprintf wants to write text: a second attempt when the first buffer,   *)
(* whose size comes from the format, has no room for it and its terminator. *)
sdscatvprintf(x, fmtlen, text) ==
    LET first == IF 2 * fmtlen > StaticBuf THEN 2 * fmtlen ELSE StaticBuf
        buflen == IF Len(text) >= first THEN Len(text) + 1 ELSE first
    IN  sdscatlen(x, [i \in DOMAIN text |-> IF i < buflen THEN text[i] ELSE 0])

(* One turn of the loop of sdscatfmt: a character of the format, a %s, %i  *)
(* or %u, whose argument needs room of its own, a %% or a lone % at the    *)
(* end, which adds nothing.  src is how much of the format it takes.       *)
Item(src, text, argument) == [src |-> src, text |-> text, argument |-> argument]
FmtItemUnchecked(x, item) ==                                     \* mutant
    LET l == Len(item.text)
        z == IF item.argument /\ sdsavail(x) < l THEN sdsMakeRoomFor(x, l) ELSE x
    IN  sdsinclen(Put(z, z.len, item.text), l)
FmtItem(x, item) ==
    LET l == Len(item.text)
        y == IF sdsavail(x) = 0 THEN sdsMakeRoomFor(x, 1) ELSE x
        z == IF item.argument /\ sdsavail(y) < l THEN sdsMakeRoomFor(y, l) ELSE y
    IN  sdsinclen(Put(z, z.len, item.text), l)
sdscatfmt(x, fmt) ==
    LET strlen == FoldLeft(LAMBDA n, item : n + item.src, 0, fmt)
        y == FoldLeft(FmtItem, sdsMakeRoomFor(x, x.len + 2 * strlen), fmt)
    IN  Close(y, y.len)

\* strchr finds the terminator of cset too
sdstrim(x, cset) ==
    LET kept == {i \in 1 .. x.len : x.buf[i] \notin cset \cup {0}}
        sp == IF kept = {} THEN x.len + 1 ELSE Min(kept)
        ep == IF kept = {} THEN x.len ELSE Max(kept)
        len == ep - sp + 1
    IN  sdssetlen(Close(Put(x, 0, SubSeq(x.buf, sp, ep)), len), len)

sdsrange(x, start, end) ==
    LET a == IF start < 0 THEN AtLeast0(x.len + start) ELSE start
        b == IF end < 0 THEN AtLeast0(x.len + end) ELSE end
        newlen == IF a > b \/ a >= x.len THEN 0 ELSE IF b >= x.len THEN x.len - a ELSE b - a + 1
    IN  IF x.len = 0 THEN x
        ELSE sdssetlen(Close(Put(x, 0, SubSeq(x.buf, a + 1, a + newlen)), newlen), newlen)

Mapped(x, f(_)) == Put(x, 0, [i \in 1 .. x.len |-> f(x.buf[i])])
sdstoupper(x) == Mapped(x, LAMBDA c : IF c \in 97 .. 122 THEN c - 32 ELSE c)
sdstolower(x) == Mapped(x, LAMBDA c : IF c \in 65 .. 90 THEN c + 32 ELSE c)
sdsmapchars(x, from, to) ==
    Mapped(x, LAMBDA c : LET i == SelectInSeq(from, LAMBDA d : d = c) IN IF i = 0 THEN c ELSE to[i])

-----------------------------------------------------------------------------
(* The program that uses the string. *)
Texts == SeqOf(Letters, MaxText)
Formats == {<<Item(2, Filled(n, 97), TRUE), Item(1, <<97>>, FALSE)>> : n \in FmtLens}
           \cup {<<Item(2, <<97>>, FALSE), Item(1, <<>>, FALSE)>>}
Ends == -MaxEnd .. MaxEnd
Room(n) == s # NoSds /\ s.len + n <= MaxLen

SdsInit == s = NoSds

SdsNew(t) == s = NoSds /\ s' = sdsnewlen(t)
SdsFree == s # NoSds /\ s' = NoSds
SdsDup == s # NoSds /\ s' = sdsnewlen(Content(s))
SdsMakeRoom(n) == Room(n) /\ s' = sdsMakeRoomFor(s, n)
SdsRemoveFreeSpace == s # NoSds /\ s' = sdsRemoveFreeSpace(s)
\* the caller has written t behind the string, into the room there is
SdsFill(t) == /\ Room(Len(t)) /\ Len(t) <= sdsavail(s) /\ IncrAsserts(s, Len(t))
              /\ s' = sdsIncrLen(Put(s, s.len, t), Len(t))
\* of a number of bytes that an unsigned int holds
SdsCut(n) == s # NoSds /\ 0 < n /\ n < Limit32 /\ IncrAsserts(s, -n) /\ s' = sdsIncrLen(s, -n)
SdsClear == s # NoSds /\ s' = sdsclear(s)
SdsGrowZero(n) == s # NoSds /\ s' = sdsgrowzero(s, n)
SdsCat(t) == Room(Len(t)) /\ s' = sdscatlen(s, t)
SdsCpy(t) == s # NoSds /\ s' = sdscpylen(s, t)
SdsPrintf(fmtlen, t) == Room(Len(t)) /\ s' = sdscatvprintf(s, fmtlen, t)
SdsFmt(fmt) == s # NoSds /\ s.len <= 1 /\ s' = sdscatfmt(s, fmt)
SdsTrim(c) == s # NoSds /\ s' = sdstrim(s, {c})
SdsRange(a, b) == s # NoSds /\ s' = sdsrange(s, a, b)
SdsCase == s # NoSds /\ s' \in {sdstoupper(s), sdstolower(s), sdsmapchars(s, <<65, 97>>, <<97, 65>>)}

SdsNext ==
    \/ \E t \in Texts : SdsNew(t) \/ SdsFill(t) \/ SdsCat(t) \/ SdsCpy(t) \/ \E n \in {1, 2} : SdsPrintf(n, t)
    \/ \E n \in 0 .. MaxLen : SdsMakeRoom(n) \/ SdsCut(n) \/ SdsGrowZero(n)
    \/ SdsFree \/ SdsDup \/ SdsRemoveFreeSpace \/ SdsClear \/ SdsCase
    \/ \E fmt \in Formats : SdsFmt(fmt)
    \/ \E c \in Letters : SdsTrim(c)
    \/ \E a, b \in Ends : SdsRange(a, b)

SdsSpec == SdsInit /\ [][SdsNext]_s

-----------------------------------------------------------------------------
(* No sequence of calls writes outside the memory of the string, whatever  *)
(* header it has come to: the length is within the free space recorded,    *)
(* that within the block, and the terminator is where the length says.  A  *)
(* length or size a header cannot hold would break it, so would a test of  *)
(* sdsavail forgotten in the loop of sdscatfmt.                            *)
SdsFits ==
    s # NoSds => /\ ~s.wild /\ s.len <= sdsalloc(s) /\ sdsalloc(s) < Len(s.buf)
                 /\ s.buf[s.len + 1] = 0 /\ \A i \in 1 .. s.len : s.buf[i] # Junk

(* Whatever calls brought the string into its present header, free space   *)
(* and block, each call of the library does to its text what it is for.    *)
(* sdsrange keeps the characters from start to end, counted from the end   *)
(* of the string where negative, with an end before the first character    *)
(* taken for the first; sdstrim takes off characters of the set, and NULs, *)
(* at both ends and only there; sdscatfmt writes a number that reads back. *)
Trimmable(t, cset) == \A i \in DOMAIN t : t[i] \in cset \cup {0}
InRange(i, len, a, b) == /\ i >= IF a < 0 THEN len + a ELSE a
                         /\ i <= IF b < 0 THEN AtLeast0(len + b) ELSE b
Number(t) == LET digits == SelectSeq(t, LAMBDA c : c # 45)
                 v == FoldLeft(LAMBDA n, c : 10 * n + c - 48, 0, digits)
             IN  IF Head(t) = 45 THEN -v ELSE v
SdsKeepsText ==
    s # NoSds =>
    LET str == Content(s)
    IN  /\ \A x \in {sdsnewlen(str), sdsMakeRoomFor(s, MaxText), sdsRemoveFreeSpace(s)} : Content(x) = str
        /\ Content(sdsclear(s)) = <<>>
        /\ \A t \in Texts : /\ Content(sdscatlen(s, t)) = str \o t
                            /\ Content(sdscpylen(s, t)) = t
                            /\ Content(sdscatvprintf(s, 1, t)) = str \o t
        /\ \A n \in 0 .. MaxLen : LET z == Content(sdsgrowzero(s, n))
                                  IN  /\ Len(z) = IF n > Len(str) THEN n ELSE Len(str)
                                      /\ \A i \in DOMAIN z : z[i] = IF i <= Len(str) THEN str[i] ELSE 0
        /\ \A c \in Letters : \E i \in 1 .. Len(str) + 1, j \in 0 .. Len(str) :
               LET t == Content(sdstrim(s, {c}))
               IN  /\ i <= j + 1 /\ t = SubSeq(str, i, j)
                   /\ Trimmable(SubSeq(str, 1, i - 1), {c}) /\ Trimmable(SubSeq(str, j + 1, Len(str)), {c})
                   /\ t # <<>> => ~Trimmable(<<Head(t)>>, {c}) /\ ~Trimmable(<<t[Len(t)]>>, {c})
        /\ \A a, b \in Ends :
               LET kept == {i \in 0 .. Len(str) - 1 : InRange(i, Len(str), a, b)}
               IN  Content(sdsrange(s, a, b)) = IF kept = {} THEN <<>> ELSE SubSeq(str, Min(kept) + 1, Max(kept) + 1)
        /\ \A v \in {-LLONG_MAX - 1, -10, 0, LLONG_MAX} :
               LET t == Content(sdscatfmt(s, <<Item(2, sdsll2str(v), TRUE)>>))
               IN  IsPrefix(str, t) /\ Number(SubSeq(t, Len(str) + 1, Len(t))) = v

(* Both: a string stays within its memory, and its text is what was asked. *)
SdsSound == SdsFits /\ SdsKeepsText
=============================================================================
