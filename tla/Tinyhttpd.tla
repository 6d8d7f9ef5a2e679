------------------------------ MODULE Tinyhttpd ------------------------------
(***************************************************************************)
(* network-programming/http/tinyhttpd/httpd.c: a thread for every client,  *)
(* and for a CGI request a child process and two pipes.  No descriptor is  *)
(* close-on-exec, so a child inherits what all the threads have open at    *)
(* the time of its fork.  SIGPIPE is not ignored: it ends the server.  A   *)
(* client is known by its connection, the head of a request arrives as a   *)
(* whole and its body byte by byte; an answer is its status lines.  The    *)
(* script reads the body it is told of and then writes (external).         *)
(***************************************************************************)
EXTENDS Integers, Sequences, FiniteSets

CONSTANTS Clients,
          Httpd,      \* the server process; a child is known by its client
          Asked,      \* the requests: method, query, file and content_length
          PipeCap,    \* the bytes a pipe holds
          OutBytes    \* the bytes a script writes

ASSUME HttpdAssumption == /\ IsFiniteSet(Clients) /\ Httpd \notin Clients
                          /\ PipeCap \in Nat \ {0} /\ OutBytes \in Nat

VARIABLES alive, req,
          client,     \* "out", "head" (sent), "body" (sent as well), "gone"
          stage,         \* where the client's thread is
          reply,      \* the status lines sent
          fdtab,      \* the descriptors: process, client, and "sock" or the end of one of its pipes
          pin, pout,  \* the bytes in cgi_input and in cgi_output
          passed,          \* the bytes of the body passed on
          child,      \* the client's child: "none", "forked", "reads", "writes", "zombie", "reaped"
          got, wrote, relayed
serverVars == <<alive, req, stage, reply>>
pipeVars == <<fdtab, pin, pout>>
cgiVars == <<passed, child, got, wrote, relayed>>
httpdVars == <<serverVars, client, pipeVars, cgiVars>>

Zeros == [c \in Clients |-> 0]
HttpdInit ==
    /\ alive = TRUE /\ req \in [Clients -> Asked]
    /\ client = [c \in Clients |-> "out"] /\ stage = [c \in Clients |-> "none"]
    /\ reply = [c \in Clients |-> <<>>] /\ child = [c \in Clients |-> "none"]
    /\ fdtab = {} /\ pin = Zeros /\ pout = Zeros
    /\ passed = Zeros /\ got = Zeros /\ wrote = Zeros /\ relayed = Zeros

HeldEnd(c, end) == \E p \in Clients \cup {Httpd} : <<p, c, end>> \in fdtab
ToStage(c, step) == stage' = [stage EXCEPT ![c] = step]
Open(c, ends) == fdtab \cup {<<Httpd, c, e>> : e \in ends}
Close(c, ends) == fdtab \ {<<Httpd, c, e>> : e \in ends}

(* To send to a client that has gone may raise SIGPIPE. *)
SendTo(c, lines) ==
    /\ reply' = [reply EXCEPT ![c] = @ \o lines]
    /\ alive' \in IF client[c] = "gone" THEN BOOLEAN ELSE {TRUE}

-----------------------------------------------------------------------------
(* A client sends the head of its request, then the body; or it goes. *)
ClientSends(c) ==
    /\ \/ client[c] = "out" /\ client' = [client EXCEPT ![c] = "head"]
       \/ client[c] = "head" /\ client' = [client EXCEPT ![c] = "body"]
    /\ UNCHANGED <<serverVars, pipeVars, cgiVars>>
ClientGoes(c) ==
    /\ client[c] \in {"head", "body"} /\ stage[c] # "closed" /\ client' = [client EXCEPT ![c] = "gone"]
    /\ UNCHANGED <<serverVars, pipeVars, cgiVars>>

(* main: accept and pthread_create, each of which may fail. *)
Accept(c) ==
    /\ stage[c] = "none" /\ client[c] # "out"
    /\ ToStage(c, "head") /\ fdtab' = Open(c, {"sock"})
    /\ UNCHANGED <<alive, req, client, reply, pin, pout, cgiVars>>
NoThread(c) ==
    /\ stage[c] = "none" /\ client[c] # "out"
    /\ ToStage(c, "lost") /\ fdtab' = Open(c, {"sock"})
    /\ UNCHANGED <<alive, req, client, reply, pin, pout, cgiVars>>
error_die ==
    /\ \E c \in Clients : stage[c] = "none" /\ client[c] # "out"
    /\ alive' = FALSE
    /\ UNCHANGED <<req, client, stage, reply, pipeVars, cgiVars>>

-----------------------------------------------------------------------------
Unimplemented(r) == IF r.method \in {"GET", "POST"} THEN <<>> ELSE <<501>>
Cgi(r) == \/ r.method = "POST" \/ (r.method = "GET" /\ r.query)
          \/ r.file \in {"script", "directory"}            \* executable by someone
(* execute_cgi before its pipes: only GET does without a Content-Length. *)
Lacking(r) == r.method # "GET" /\ r.content_length = -1

(* get_line: the lines of the head are there when the connection is. *)
HeadRead(c) == stage[c] = "head"
(* accept_request: the head is read, the method and the file looked at.    *)
(* What follows an unimplemented method is as for any other.               *)
NotFound(c) ==
    /\ HeadRead(c) /\ req[c].file = "none"
    /\ SendTo(c, Unimplemented(req[c]) \o <<404>>) /\ ToStage(c, "close")
    /\ UNCHANGED <<req, client, pipeVars, cgiVars>>
serve_file(c) ==
    /\ HeadRead(c) /\ req[c].file # "none" /\ ~Cgi(req[c])
    /\ SendTo(c, Unimplemented(req[c]) \o <<200>>) /\ ToStage(c, "close")
    /\ UNCHANGED <<req, client, pipeVars, cgiVars>>
(* The file does not open: fclose(NULL) after the answer. *)
ServeFails(c) ==
    /\ HeadRead(c) /\ req[c].file # "none" /\ ~Cgi(req[c])
    /\ reply' = [reply EXCEPT ![c] = @ \o Unimplemented(req[c]) \o <<404>>] /\ alive' = FALSE
    /\ UNCHANGED <<req, client, stage, pipeVars, cgiVars>>
bad_request(c) ==
    /\ HeadRead(c) /\ req[c].file # "none" /\ Cgi(req[c]) /\ Lacking(req[c])
    /\ SendTo(c, Unimplemented(req[c]) \o <<400>>) /\ ToStage(c, "close")
    /\ UNCHANGED <<req, client, pipeVars, cgiVars>>
BeginCgi(c) ==
    /\ HeadRead(c) /\ req[c].file # "none" /\ Cgi(req[c]) /\ ~Lacking(req[c])
    /\ SendTo(c, Unimplemented(req[c]) \o <<200>>) /\ ToStage(c, "output")
    /\ UNCHANGED <<req, client, pipeVars, cgiVars>>

(* pipe(cgi_output), pipe(cgi_input), fork; each may fail, and then what   *)
(* was opened before stays open.                                           *)
CgiOutput(c) ==
    /\ stage[c] = "output" /\ ToStage(c, "input") /\ fdtab' = Open(c, {"or", "ow"})
    /\ UNCHANGED <<alive, req, client, reply, pin, pout, cgiVars>>
CgiInput(c) ==
    /\ stage[c] = "input" /\ ToStage(c, "fork") /\ fdtab' = Open(c, {"ir", "iw"})
    /\ UNCHANGED <<alive, req, client, reply, pin, pout, cgiVars>>
cannot_execute(c) ==
    /\ stage[c] \in {"output", "input", "fork"} /\ ToStage(c, "close") /\ SendTo(c, <<500>>)
    /\ UNCHANGED <<req, client, pipeVars, cgiVars>>
ForkCgi(c) ==
    /\ stage[c] = "fork" /\ ToStage(c, "parent")
    /\ child' = [child EXCEPT ![c] = "forked"]
    /\ fdtab' = fdtab \cup {<<c, d[2], d[3]>> : d \in {x \in fdtab : x[1] = Httpd}}
    /\ UNCHANGED <<alive, req, client, reply, pin, pout, passed, got, wrote, relayed>>

(* The parent: closes its copies of the child's ends, ... *)
ParentKeeps(c) ==                                                \* mutant
    /\ stage[c] = "parent"
    /\ fdtab' = Close(c, {"ir"}) /\ ToStage(c, "post")
    /\ UNCHANGED <<alive, req, client, reply, pin, pout, cgiVars>>
ParentCloses(c) ==
    /\ stage[c] = "parent"
    /\ fdtab' = Close(c, {"ow", "ir"}) /\ ToStage(c, "post")
    /\ UNCHANGED <<alive, req, client, reply, pin, pout, cgiVars>>

(* ... passes on content_length bytes of a POST, whatever recv returns for *)
(* them, blocking on a full pipe and dying of one without readers, ...     *)
Posting(c) == stage[c] = "post" /\ req[c].method = "POST" /\ passed[c] < req[c].content_length
PostByte(c) ==
    /\ Posting(c) /\ client[c] \in {"body", "gone"}
    /\ IF HeldEnd(c, "ir") THEN pin[c] < PipeCap /\ alive' = TRUE ELSE alive' = FALSE
    /\ pin' = [pin EXCEPT ![c] = @ + 1] /\ passed' = [passed EXCEPT ![c] = @ + 1]
    /\ UNCHANGED <<req, client, stage, reply, fdtab, pout, child, got, wrote, relayed>>
PostEnds(c) ==
    /\ stage[c] = "post" /\ ~Posting(c) /\ ToStage(c, "relay")
    /\ UNCHANGED <<alive, req, reply, client, pipeVars, cgiVars>>

(* ... passes back what the script writes until nobody can write any more, *)
Relay(c) ==
    /\ stage[c] = "relay" /\ pout[c] > 0
    /\ pout' = [pout EXCEPT ![c] = @ - 1] /\ relayed' = [relayed EXCEPT ![c] = @ + 1]
    /\ SendTo(c, <<>>)
    /\ UNCHANGED <<req, client, stage, fdtab, pin, passed, child, got, wrote>>
RelayHasty(c) ==                                                 \* mutant
    /\ stage[c] = "relay" /\ pout[c] = 0
    /\ fdtab' = Close(c, {"or", "iw"}) /\ ToStage(c, "wait")
    /\ UNCHANGED <<alive, req, client, reply, pin, pout, cgiVars>>
RelayEnds(c) ==
    /\ stage[c] = "relay" /\ pout[c] = 0 /\ ~HeldEnd(c, "ow")
    /\ fdtab' = Close(c, {"or", "iw"}) /\ ToStage(c, "wait")
    /\ UNCHANGED <<alive, req, client, reply, pin, pout, cgiVars>>
(* and waits for its child.                                                *)
Waitpid(c) ==
    /\ stage[c] = "wait" /\ child[c] = "zombie"
    /\ child' = [child EXCEPT ![c] = "reaped"] /\ ToStage(c, "close")
    /\ UNCHANGED <<alive, req, client, reply, pipeVars, passed, got, wrote, relayed>>
CloseClient(c) ==
    /\ stage[c] = "close" /\ fdtab' = Close(c, {"sock"}) /\ ToStage(c, "closed")
    /\ UNCHANGED <<alive, req, client, reply, pin, pout, cgiVars>>

-----------------------------------------------------------------------------
Exits(c) == fdtab' = {d \in fdtab : d[1] # c}
ToRead(r) == IF r.method = "POST" THEN r.content_length ELSE 0

(* The child redirects, closes the parent's ends of its pipes and becomes  *)
(* the script; if there is nothing to execute, it exits.                   *)
Execl(c) ==
    /\ child[c] = "forked"
    /\ \/ /\ req[c].file = "script" /\ child' = [child EXCEPT ![c] = "reads"]
          /\ fdtab' = fdtab \ {<<c, c, "or">>, <<c, c, "iw">>}
       \/ req[c].file # "script" /\ child' = [child EXCEPT ![c] = "zombie"] /\ Exits(c)
    /\ UNCHANGED <<serverVars, client, pin, pout, passed, got, wrote, relayed>>
ScriptReads(c) ==
    /\ child[c] = "reads"
    /\ \/ /\ got[c] < ToRead(req[c]) /\ pin[c] > 0
          /\ pin' = [pin EXCEPT ![c] = @ - 1] /\ got' = [got EXCEPT ![c] = @ + 1] /\ UNCHANGED child
       \/ /\ got[c] = ToRead(req[c]) \/ (pin[c] = 0 /\ ~HeldEnd(c, "iw"))
          /\ child' = [child EXCEPT ![c] = "writes"] /\ UNCHANGED <<pin, got>>
    /\ UNCHANGED <<serverVars, client, fdtab, pout, passed, wrote, relayed>>
ScriptWrites(c) ==
    /\ child[c] = "writes" /\ wrote[c] < OutBytes /\ pout[c] < PipeCap /\ HeldEnd(c, "or")
    /\ pout' = [pout EXCEPT ![c] = @ + 1] /\ wrote' = [wrote EXCEPT ![c] = @ + 1]
    /\ UNCHANGED <<serverVars, client, fdtab, pin, passed, child, got, relayed>>
ScriptEnds(c) ==
    /\ child[c] = "writes" /\ (wrote[c] = OutBytes \/ ~HeldEnd(c, "or"))
    /\ child' = [child EXCEPT ![c] = "zombie"] /\ Exits(c)
    /\ UNCHANGED <<serverVars, client, pin, pout, passed, got, wrote, relayed>>

-----------------------------------------------------------------------------
Thread(c) == \/ NotFound(c) \/ serve_file(c) \/ bad_request(c) \/ BeginCgi(c) \/ CgiOutput(c) \/ CgiInput(c)
             \/ ForkCgi(c) \/ ParentCloses(c) \/ PostByte(c) \/ PostEnds(c) \/ Relay(c) \/ RelayEnds(c)
             \/ Waitpid(c) \/ CloseClient(c)
Script(c) == Execl(c) \/ ScriptReads(c) \/ ScriptWrites(c) \/ ScriptEnds(c)

HttpdNext == alive /\ (error_die \/ \E c \in Clients :
                 \/ ClientSends(c) \/ ClientGoes(c) \/ Accept(c) \/ NoThread(c)
                 \/ ServeFails(c) \/ cannot_execute(c) \/ Thread(c) \/ Script(c))

(* Threads and scripts that can go on do; a client sends all of its request *)
(* or goes.                                                                 *)
HttpdFairness == \A c \in Clients : /\ WF_httpdVars(alive /\ Thread(c))
                                    /\ WF_httpdVars(alive /\ Script(c))
                                    /\ WF_httpdVars(alive /\ client[c] = "head" /\ ClientSends(c))
HttpdSpec == HttpdInit /\ [][HttpdNext]_httpdVars /\ HttpdFairness

-----------------------------------------------------------------------------
(* When a connection is closed its child was waited for, all that the      *)
(* script wrote was passed on although the children of other threads hold  *)
(* ends of the pipes, the script had the whole body, and the server holds  *)
(* no descriptor of the request, unless a pipe or a fork failed.           *)
HttpdTidy ==
    alive => \A c \in Clients : stage[c] = "closed" =>
        /\ child[c] \in {"none", "reaped"} /\ relayed[c] = wrote[c] /\ pout[c] = 0
        /\ wrote[c] > 0 => got[c] = ToRead(req[c]) /\ wrote[c] = OutBytes
        /\ 500 \notin {reply[c][k] : k \in DOMAIN reply[c]} =>
               \A d \in fdtab : d[1] = Httpd => d[2] # c

(* Clients that have a thread are answered and see the end of the answer:  *)
(* no thread waits for ever on an end of a pipe that it, its child or the  *)
(* child of another thread holds, and no process keeps the connection.     *)
HttpdCloses ==
    LET Unfinished == \E c \in Clients : /\ stage[c] \notin {"none", "lost"}
                                         /\ stage[c] = "closed" => HeldEnd(c, "sock")
    IN Unfinished ~> (~Unfinished \/ ~alive)
=============================================================================
