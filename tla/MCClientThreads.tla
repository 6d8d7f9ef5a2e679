-------------------------- MODULE MCClientThreads --------------------------
(***************************************************************************)
(* The model-checking instance of the servers that start a thread for each *)
(* client: a run is a run of the chat server, or of tinyhttpd with two     *)
(* clients, one of them of a script.                                       *)
(***************************************************************************)
EXTENDS ChatServer, Tinyhttpd

(* The requests of the two clients of tinyhttpd. *)
Ask(method, query, kind, length) ==
    [method |-> method, query |-> query, file |-> kind, content_length |-> length]
GetScript  == Ask("GET", TRUE, "script", -1)
PostScript == Ask("POST", FALSE, "script", 2)
Besides    == {Ask("GET", FALSE, "none", -1), Ask("HEAD", FALSE, "plain", -1),
               Ask("POST", FALSE, "script", -1)}
Pairs == {<<r, GetScript>> : r \in Besides}
         \cup {<<r, PostScript>> : r \in {Ask("POST", FALSE, "plain", 1), GetScript}}
MCAsked == {p[1] : p \in Pairs} \cup {p[2] : p \in Pairs}

VARIABLE server
vars == <<server, chatVars, httpdVars>>

Init == /\ server \in {"chat", "httpd"} /\ ChatInit
        /\ HttpdInit /\ req \in Pairs
        /\ server # "httpd" => req = <<GetScript, PostScript>>

Next == /\ server' = server
        /\ \/ server = "chat" /\ ChatNext /\ UNCHANGED httpdVars
           \/ server = "httpd" /\ HttpdNext /\ UNCHANGED chatVars

(* The fairness of each server, while it is the one that runs. *)
Spec == /\ Init /\ [][Next]_vars
        /\ WF_chatVars(server = "chat" /\ ChatMain)
        /\ \A c \in ChatClients :
              /\ WF_chatVars(server = "chat" /\ ChatThread(c))
              /\ WF_chatVars(server = "chat" /\ Runs /\ receive_message(c))
              /\ WF_chatVars(server = "chat" /\ Runs /\ gone[c] /\ HostResets(c))
        /\ \A c \in Clients :
              /\ WF_httpdVars(server = "httpd" /\ alive /\ Thread(c))
              /\ WF_httpdVars(server = "httpd" /\ alive /\ Script(c))
              /\ WF_httpdVars(server = "httpd" /\ alive /\ client[c] = "head" /\ ClientSends(c))
=============================================================================
