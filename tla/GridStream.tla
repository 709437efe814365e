----------------------------- MODULE GridStream -----------------------------
(***************************************************************************)
(* FileStream composed with StreamServer: each attempt of the backup is a  *)
(* connection that has to get past the accept loop and into a thread of    *)
(* the pool before its handler runs, while the plugin may be closed.       *)
(***************************************************************************)
EXTENDS FileStream

VARIABLES server, acceptor, accepted, conn

Server == INSTANCE StreamServer WITH Connection <- 1..max_retries, client <- accepted

pool == <<server, acceptor, accepted, conn>>
gridVars == <<vars, pool>>

GridInit == Init /\ Server!Init

\* The attempt connects.  The session exists, so that the plugin was initialized.
GridRequest == server # "none" /\ Request /\ Server!Connect(attempt)

Apart(Step) == Step /\ UNCHANGED pool
Serving == conn[attempt] = "served"

GridHandler == Serving /\ Apart(Handler)
GridFault == \/ Serving /\ Apart(LookupFails \/ ReadFails)
             \/ Apart(DeleteDirectory \/ SessionClosed \/ Break)
GridClient == GridRequest \/ Apart(pc # "request" /\ Client)

\* A connection that was refused, or that nobody serves when the process has
\* ended, breaks.
Unserved == (conn[attempt] = "refused" \/ server = "shut") /\ Apart(Break)

\* A thread closes its socket when its handler has returned.
GridWork(c) ==
    /\ c = attempt /\ Serving => handler = "idle"
    /\ Server!Work(c)
    /\ UNCHANGED vars

GridAcceptor == Server!Acceptor /\ UNCHANGED vars
GridLifecycle == (Server!Initialize \/ Server!Close) /\ UNCHANGED vars

GridNext ==
    \/ GridHandler \/ GridFault \/ GridClient
    \/ GridAcceptor \/ GridLifecycle
    \/ \E c \in 1..max_retries : GridWork(c)

\* The fairness of FileStream and of StreamServer.
GridSpec ==
    /\ GridInit /\ [][GridNext]_gridVars
    /\ WF_gridVars(GridHandler) /\ WF_gridVars(GridClient) /\ WF_gridVars(Unserved)
    /\ WF_gridVars(GridAcceptor) /\ WF_gridVars(server \in {"none", "stopping", "closed"} /\ GridLifecycle)
    /\ \A c \in 1..max_retries :
        WF_gridVars(GridWork(c)) /\ SF_gridVars(Server!Accept(c) /\ UNCHANGED vars)

-----------------------------------------------------------------------------
(* Properties; AcceptedIsWhole, SkippedIsGone and StreamEnds are FileStream's *)

\* The states of both parts are well typed: no more attempts than max_retries, one
\* connection in the accept loop's hands.
GridTypeOK == TypeOK /\ Server!TypeOK

\* FileStreamPlugin.java:81-104: each connection is served and closed, or refused,
\* but for one that close() catches between accept() and submit().
ConnectionsEnd == Server!ConnectionsEnd

\* FileStreamPlugin.java:82, 115-122: the accept loop ends after close(), and only then.
LoopFollowsServer == Server!LoopFollowsServer
=============================================================================
