---------------------------- MODULE StreamServer ----------------------------
(***************************************************************************)
(* FileStreamPlugin: the loop that accepts connections and the workers     *)
(* that serve them run in one thread pool, which close() shuts down.       *)
(* StreamHandler.handle is one step here; FileStream has its steps.        *)
(***************************************************************************)
EXTENDS FiniteSets, Naturals

CONSTANT Connection

VARIABLES
    server,     \* not there yet, off, running, and how far close() has come
    acceptor,   \* stage of the accept loop
    client,     \* the connection that it has accepted last, in a set
    conn        \* "queued" is in the backlog, "waiting" for a thread of the pool

vars == <<server, acceptor, client, conn>>

TypeOK ==
    /\ server \in {"none", "off", "running", "stopping", "closed", "shut"}
    /\ acceptor \in {"none", "check", "accept", "submit", "ended"}
    /\ client \subseteq Connection /\ Cardinality(client) <= 1
    /\ conn \in [Connection -> {"none", "queued", "accepted", "waiting", "served", "closed", "refused"}]

Init ==
    /\ server = "none"
    /\ acceptor = "none"
    /\ client = {}
    /\ conn = [c \in Connection |-> "none"]

Listening == server \in {"running", "stopping"}

\* The server socket is bound, and the accept loop is the pool's first task.  Without
\* FILE_STREAM_KEY, or when the port cannot be bound, nothing listens.
Initialize ==
    /\ server = "none"
    /\ \/ server' = "running" /\ acceptor' = "check"
       \/ server' = "off" /\ UNCHANGED acceptor
    /\ UNCHANGED <<client, conn>>

Connect(c) ==
    /\ conn[c] = "none"
    /\ conn' = [conn EXCEPT ![c] = IF Listening THEN "queued" ELSE "refused"]
    /\ UNCHANGED <<server, acceptor, client>>

\* running is reset, the socket is closed (what is left in the backlog is refused),
\* and the pool is shut down.
CloseStep ==
    \/ /\ server = "running" /\ server' = "stopping"
       /\ UNCHANGED conn
    \/ /\ server = "stopping" /\ server' = "closed"
       /\ conn' = [c \in Connection |-> IF conn[c] = "queued" THEN "refused" ELSE conn[c]]
    \/ /\ server \in {"none", "off"} /\ server' = "closed"
       /\ UNCHANGED conn
    \/ /\ server = "closed" /\ server' = "shut"
       /\ UNCHANGED conn

Close == CloseStep /\ UNCHANGED <<acceptor, client>>

-----------------------------------------------------------------------------
(* acceptLoop *)

\* (Mutant: the loop does not look.)
AlwaysOn == TRUE
StillOn == server = "running"

CheckRunning ==
    /\ acceptor = "check"
    /\ acceptor' = IF StillOn THEN "accept" ELSE "ended"
    /\ UNCHANGED <<server, client, conn>>

Accept(c) ==
    /\ acceptor = "accept" /\ Listening /\ conn[c] = "queued"
    /\ client' = {c}
    /\ conn' = [conn EXCEPT ![c] = "accepted"]
    /\ acceptor' = "submit"
    /\ UNCHANGED server

\* The server socket was closed, or there is no file handle left.
AcceptFails ==
    /\ acceptor = "accept"
    /\ ~Listening \/ \E c \in Connection : conn[c] = "queued"
    /\ acceptor' = "check"
    /\ UNCHANGED <<server, client, conn>>

\* After the shutdown the pool rejects the task, and the exception ends the loop.
Submit ==
    /\ acceptor = "submit"
    /\ IF server = "shut"
       THEN acceptor' = "ended" /\ UNCHANGED conn
       ELSE acceptor' = "check" /\ conn' = [c \in Connection |-> IF c \in client THEN "waiting" ELSE conn[c]]
    /\ UNCHANGED <<server, client>>

-----------------------------------------------------------------------------
(* The workers *)

\* The pool makes a thread for every task.  (Mutant: it has one, which runs the
\* accept loop.)
OneThread == acceptor \in {"none", "ended"} /\ \A c \in Connection : conn[c] # "served"
ThreadForEach == TRUE

\* The handler returns or raises, and the socket is closed in any case.
Work(c) ==
    /\ \/ conn[c] = "waiting" /\ ThreadForEach /\ conn' = [conn EXCEPT ![c] = "served"]
       \/ conn[c] = "served" /\ conn' = [conn EXCEPT ![c] = "closed"]
    /\ UNCHANGED <<server, acceptor, client>>

-----------------------------------------------------------------------------
Acceptor == CheckRunning \/ AcceptFails \/ Submit \/ \E c \in Connection : Accept(c)

Next == Initialize \/ Close \/ Acceptor \/ \E c \in Connection : Connect(c) \/ Work(c)

Spec == Init /\ [][Next]_vars

\* Threads run, file handles come free again and again, a handler returns or
\* raises, and close() goes on once it has begun.
FairSpec ==
    /\ Spec
    /\ WF_vars(Acceptor) /\ WF_vars(server \in {"stopping", "closed"} /\ Close)
    /\ \A c \in Connection : WF_vars(Work(c)) /\ SF_vars(Accept(c))

-----------------------------------------------------------------------------
(* Properties *)

\* A connection that was made is served and closed, or refused, while others come
\* and handlers fail.  Only one that close() has caught between accept() and
\* submit() (FileStreamPlugin.java:85, 92, 121) is left hanging.
ConnectionsEnd ==
    \A c \in Connection :
        conn[c] # "none" ~> conn[c] \in {"closed", "refused"} \/ (conn[c] = "accepted" /\ server = "shut")

\* The accept loop ends after close(), and never by itself: as long as the server
\* runs, one task of the pool accepts connections.
LoopFollowsServer ==
    /\ [](server = "running" => acceptor # "ended")
    /\ server = "shut" ~> acceptor \in {"none", "ended"}
=============================================================================
