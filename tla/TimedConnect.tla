---------------------------- MODULE TimedConnect ----------------------------
(***************************************************************************)
(* Connecting with a time-out: unblock_connect of 9-5unblockconnect.cpp    *)
(* (a non-blocking connect, select, SO_ERROR) and timeout_connect of       *)
(* 11-1connect_timeout.cpp (a blocking connect under SO_SNDTIMEO).         *)
(*                                                                         *)
(* The handshake, the peer and the clock are external and move between any *)
(* two calls.  unblock_connect clears readfds and uses writefds, whose     *)
(* other bits are whatever was on the stack: select may fail for a         *)
(* descriptor that is not open, or return for another one that is ready.   *)
(***************************************************************************)
EXTENDS Integers

VARIABLES tcVia,       \* "unblock" or "timeout"
          tcPc,        \* where the function is
          hand,        \* the connection: "none", "syn", "up", "refused", "reset"
          wasUp,       \* history: the handshake has been completed
          soError,     \* SO_ERROR of the socket is not 0
          blocking,    \* the file status flags of sockfd
          sockOpen, result,    \* sockfd is open; what was returned: "none", "fd", "-1"
          stackBits    \* the other bits of writefds: "clear", "closed", "ready"

tcVars == <<tcVia, tcPc, hand, wasUp, soError, blocking, sockOpen, result, stackBits>>

TcInit ==
    /\ tcVia \in {"unblock", "timeout"} /\ tcPc = "socket" /\ hand = "none" /\ wasUp = FALSE
    /\ soError = FALSE /\ blocking = TRUE /\ sockOpen = FALSE /\ result = "none"
    /\ stackBits \in IF tcVia = "unblock" THEN {"clear", "closed", "ready"} ELSE {"clear"}

Return(r) == result' = r /\ tcPc' = "returned"
\* close(sockfd); return -1
GiveUp == Return("-1") /\ sockOpen' = FALSE
caller == <<tcVia, stackBits>>

-----------------------------------------------------------------------------
(* The network. *)
Handshake ==
    /\ sockOpen /\ hand = "syn" /\ hand' \in {"up", "refused"}
    /\ wasUp' = (hand' = "up") /\ soError' = (hand' = "refused")
    /\ UNCHANGED <<caller, tcPc, blocking, sockOpen, result>>
PeerResetsIt ==
    /\ sockOpen /\ hand = "up" /\ hand' = "reset" /\ soError' = TRUE
    /\ UNCHANGED <<caller, tcPc, wasUp, blocking, sockOpen, result>>

-----------------------------------------------------------------------------
(* unblock_connect *)
MakeSocket ==
    /\ tcPc = "socket" /\ sockOpen' = TRUE
    /\ blocking' = (tcVia = "timeout")         \* setnonblocking
    /\ tcPc' = "connect"
    /\ UNCHANGED <<caller, hand, wasUp, soError, result>>
\* at once on the own host; an errno other than EINPROGRESS returns without a close
Connects ==
    /\ tcVia = "unblock" /\ tcPc = "connect"
    /\ \/ hand' = "up" /\ wasUp' = TRUE /\ blocking' = TRUE /\ Return("fd")
       \/ hand' = "syn" /\ tcPc' = "select" /\ UNCHANGED <<wasUp, blocking, result>>
       \/ hand' = "refused" /\ Return("-1") /\ UNCHANGED <<wasUp, blocking>>
    /\ UNCHANGED <<caller, soError, sockOpen>>
\* a socket is writable when the handshake is over, well or badly
Selects ==
    /\ tcPc = "select"
    /\ \/ stackBits = "closed" /\ GiveUp                              \* EBADF
       \/ stackBits # "closed" /\ hand = "syn" /\ GiveUp              \* time-out, or !FD_ISSET
       \/ stackBits # "closed" /\ hand # "syn" /\ tcPc' = "getsockopt" /\ UNCHANGED <<sockOpen, result>>
    /\ UNCHANGED <<caller, hand, wasUp, soError, blocking>>
GetErrorTrusts ==                                                \* mutant
    /\ tcPc = "getsockopt" /\ blocking' = TRUE /\ Return("fd") /\ UNCHANGED sockOpen
    /\ soError' = FALSE
    /\ UNCHANGED <<caller, hand, wasUp>>
GetError ==
    /\ tcPc = "getsockopt"
    /\ IF soError THEN GiveUp /\ UNCHANGED blocking
                  ELSE blocking' = TRUE /\ Return("fd") /\ UNCHANGED sockOpen
    /\ soError' = FALSE                        \* reading it clears it
    /\ UNCHANGED <<caller, hand, wasUp>>

(* timeout_connect: connect starts the handshake and sleeps; neither way   *)
(* of failing closes the socket.                                           *)
StartsConnect ==
    /\ tcVia = "timeout" /\ tcPc = "connect" /\ hand' = "syn" /\ tcPc' = "asleep"
    /\ UNCHANGED <<caller, wasUp, soError, blocking, sockOpen, result>>
WakesUp ==
    /\ tcPc = "asleep"
    /\ IF hand = "up" THEN Return("fd") ELSE Return("-1")
    /\ soError' = FALSE
    /\ UNCHANGED <<caller, hand, wasUp, blocking, sockOpen>>

TcOver == tcPc = "returned" /\ UNCHANGED tcVars
TcNext == \/ Handshake \/ PeerResetsIt \/ MakeSocket \/ Connects \/ Selects \/ GetError
          \/ StartsConnect \/ WakesUp \/ TcOver
TcSpec == TcInit /\ [][TcNext]_tcVars

-----------------------------------------------------------------------------
(* "Returns a socket that is connected, -1 if it fails" (9-5, line 24),    *)
(* whatever the stack held and whenever the answer comes: a descriptor is  *)
(* returned only for a handshake that was completed, open and in blocking  *)
(* mode again, and an error that was due by then is not swallowed.  After  *)
(* a failure the socket is closed, unless connect itself failed.           *)
ConnectHonest ==
    /\ result = "fd" => wasUp /\ sockOpen /\ blocking /\ (hand = "reset" => soError)
    /\ result = "-1" /\ tcVia = "unblock" /\ sockOpen => hand = "refused" /\ ~soError
=============================================================================
