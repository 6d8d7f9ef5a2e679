----------------------------- MODULE EpollHttpd -----------------------------
(***************************************************************************)
(* epollhttpd/epoll.c: the pages and paths.  send_dir lists a directory    *)
(* with a link per entry, its name escaped by encode_str; a browser asks   *)
(* for the link, and http_get_request undoes the escapes with decode_str   *)
(* and looks the path up.  (Nothing in the repository calls do_accept and  *)
(* do_read: epoll_run registers the listener and returns.)                 *)
(*                                                                         *)
(* A character is its number, 1 to 255; entries are made up character by   *)
(* character by whoever fills the directory.                               *)
(***************************************************************************)
EXTENDS Integers, Sequences, SequencesExt

CONSTANTS NameChars,      \* bound: the characters of names
          NAME_MAX,       \* of the file system
          tosize          \* sizeof(enstr)

ASSUME EpollHttpdAssumption == /\ NameChars \subseteq 1 .. 255 \ {47}
                               /\ NAME_MAX \in Nat \ {0} /\ tosize \in Nat \ {0}

VARIABLES name, isDir     \* the entry

ehVars == <<name, isDir>>

Digits == 48 .. 57
Upper == 65 .. 90
Lower == 97 .. 122
Plain == Digits \cup Upper \cup Lower \cup {47, 95, 46, 45, 126}    \* isalnum, and / _ . - ~

HexDigit(n) == IF n < 10 THEN 48 + n ELSE 87 + n
isxdigit(c) == c \in Digits \cup (65 .. 70) \cup (97 .. 102)
hexit(c) == CASE c \in Digits -> c - 48 [] c \in 97 .. 102 -> c - 87 [] c \in 65 .. 70 -> c - 55 [] OTHER -> 0

\* one turn of the loop of encode_str, which writes no more once to is nearly full
EscapeUnchecked(to, c) == IF c \in Plain \cup {37} THEN to \o <<c>>   \* mutant
    ELSE IF Len(to) + 4 < tosize THEN to \o <<37, HexDigit(c \div 16), HexDigit(c % 16)>> ELSE to
Escape(to, c) == IF Len(to) + 4 >= tosize THEN to
    ELSE to \o (IF c \in Plain THEN <<c>> ELSE <<37, HexDigit(c \div 16), HexDigit(c % 16)>>)
encode_str(from) == FoldLeft(Escape, <<>>, from)

decode_str(from) ==
    LET at(i) == IF i <= Len(from) THEN from[i] ELSE 0
        rest[i \in 1 .. Len(from) + 2] ==
            CASE i > Len(from) -> <<>>
              [] from[i] = 37 /\ isxdigit(at(i + 1)) /\ isxdigit(at(i + 2)) ->
                    <<hexit(from[i + 1]) * 16 + hexit(from[i + 2])>>
                    \o (IF i + 3 <= Len(from) THEN rest[i + 3] ELSE <<>>)
              [] OTHER -> <<from[i]>> \o rest[i + 1]
    IN rest[1]

(* The entry's link in the page of its directory. *)
send_dir == encode_str(name) \o (IF isDir THEN <<47>> ELSE <<>>)
(* The path that is looked up for what stands after the method: "/" is the *)
(* directory of the server, otherwise the first character is dropped.      *)
Root == <<46, 47>>
http_get_request(res) == IF res = <<47>> THEN Root ELSE Tail(decode_str(res))

-----------------------------------------------------------------------------
EhInit == name = <<>> /\ isDir \in BOOLEAN
Named(c) == Len(name) < NAME_MAX /\ name' = Append(name, c) /\ isDir' = isDir
EhOver == Len(name) = NAME_MAX /\ UNCHANGED ehVars
EhNext == (\E c \in NameChars : Named(c)) \/ EhOver
EhSpec == EhInit /\ [][EhNext]_ehVars

-----------------------------------------------------------------------------
(* A link of a listing leads back to the entry it stands for, whatever     *)
(* characters its name has: names that look like escapes, or with bytes    *)
(* above 127, included.  The escaped name never reaches past its buffer;   *)
(* one too long for it is cut between two characters, never inside an      *)
(* escape, so that its link is the beginning of the name.  (A NAME_MAX of  *)
(* 255 and the 1024 bytes of send_dir cut no name; a smaller buffer would.)*)
LinksLeadBack ==
    LET link == send_dir
        path == http_get_request(<<47>> \o link)
        slash == IF isDir THEN <<47>> ELSE <<>> IN
    /\ Len(encode_str(name)) < tosize
    /\ IF Len(encode_str(name)) + 4 < tosize
       THEN name # <<>> => path = name \o slash
       ELSE IsPrefix(decode_str(encode_str(name)), name)
=============================================================================
