------------------------- MODULE SecureChannelProofs -------------------------
(* Whose answer a command returns, which sockets a client has, and what is left of a session. *)
EXTENDS SecureChannel, TLAPS

(***************************************************************************)
(* The inductive invariant.                                                *)
(***************************************************************************)

\* A thread works with a client, and holds its monitor in parts of its way.
Working == {"ensure", "connect", "assign", "send", "write", "wait", "enter", "shut", "fail", "clear"}
Holding(t) ==
    \/ pc[t] \in {"connect", "assign", "shut", "fail", "clear"}
    \/ t \in Closer /\ pc[t] \in {"send", "write", "wait"}

Clients ==
    /\ \A t \in Thread : pc[t] \in Working => my[t] \in Command
    /\ \A t \in Closer : pc[t] \notin {"connect", "assign", "returned", "raised"}
    /\ \A s \in Command : socket[s] # "none" =>
        /\ my[s] \in Command
        /\ pc[s] \notin {"idle", "absent", "lookup", "compute", "ensure", "connect"}
    /\ \A s \in Command : pc[s] = "assign" => socket[s] # "none"
    /\ \A k \in Command : ws[k] # None => socket[ws[k]] # "none" /\ my[ws[k]] = k

\* While a socket is made its client has none.
Locks ==
    \A t \in Thread :
        /\ Holding(t) => lock[my[t]] = t
        /\ pc[t] \in {"connect", "assign"} => ws[my[t]] = None

\* An id that has been used belongs to one thread, or to none any more.
Mine(k, i, owners) == i < nextId[k] /\ (i \in DOMAIN pending[k] => pending[k][i] \in owners)

Ids ==
    /\ \A k \in Command : \A i \in DOMAIN pending[k] : i < nextId[k]
    /\ \A t \in Thread : pc[t] = "write" => Mine(my[t], id[t], {t})
    /\ \A r \in request : socket[r[1]] # "none" /\ Mine(my[r[1]], r[2], {r[3]})
    /\ \A a \in answer :
        socket[a[1]] # "none" /\ (a[3] # "failed" => Mine(my[a[1]], a[2], {a[3]}))

OwnAnswer ==
    /\ \A t \in Thread : future[t] \in Thread => future[t] = t
    /\ \A t \in Thread : pc[t] = "returned" => future[t] = t

\* Before the first closing there is one client; when commands and closings keep
\* apart, a socket is left only to a closing that has not come to it yet.
Begun(c) == pc[c] \notin {"idle", "absent"}
Closing ==
    /\ \A c \in Closer : pc[c] = "done" => ~url
    /\ (\A c \in Closer : ~Begun(c)) =>
        /\ \A t \in Command : my[t] \in {None, map}
        /\ \A k \in Command : ws[k] # None => map = k
    /\ ~overlap /\ (\E c \in Closer : Begun(c)) =>
        /\ map = None
        /\ \A t \in Command : Active(t) => pc[t] = "lookup" /\ ~url
        /\ \A k \in Command : ws[k] # None =>
            \E c \in Closer : my[c] = k /\ pc[c] \in {"enter", "send", "write", "wait", "shut"}

IInv == TypeOK /\ Clients /\ Locks /\ Ids /\ OwnAnswer /\ Closing

-----------------------------------------------------------------------------
(* The types *)

LEMMA TypeStep == TypeOK /\ Clients /\ [Next]_vars => TypeOK'
<1> SUFFICES ASSUME TypeOK, Clients, [Next]_vars PROVE TypeOK'
    OBVIOUS
<1> USE ChannelAssumption DEF registry, client, browser, thread, Thread
<1>1. CASE SessionCreated \/ SessionEnds \/ UNCHANGED vars
    BY <1>1 DEF TypeOK, SessionCreated, SessionEnds, vars
<1>2. ASSUME NEW r \in request, Execute(r) PROVE TypeOK'
    BY <1>2 DEF TypeOK, Execute
<1>3. ASSUME NEW a \in answer, OnText(a) PROVE TypeOK'
    BY <1>3 DEF TypeOK, OnText, Without, Clients, Completed, Future
<1>4. ASSUME NEW s \in Command, OnError(s) PROVE TypeOK'
    BY <1>4 DEF TypeOK, OnError, LoseTraffic, SocketState
<1>5. ASSUME NEW s \in Command, OnClose(s) PROVE TypeOK'
    BY <1>5 DEF TypeOK, OnClose, LoseTraffic, SocketState
<1>6. ASSUME NEW s \in Command, OnCloseFail(s) PROVE TypeOK'
    BY <1>6 DEF TypeOK, OnCloseFail, FailAll, SocketState, Future
<1>7. ASSUME NEW s \in Command, OnCloseClear(s) PROVE TypeOK'
    BY <1>7 DEF TypeOK, OnCloseClear, ClearAll, SocketState
\* A step of a thread in its own program.
<1>8. ASSUME NEW t \in Command, Start(t) PROVE TypeOK'
    BY <1>8 DEF TypeOK, Start, Goto, Active, Stage
<1>9. ASSUME NEW t \in Command, LookupUrl(t) PROVE TypeOK'
    BY <1>9 DEF TypeOK, LookupUrl, Goto, Stage, End
<1>10. ASSUME NEW t \in Command, ComputeIfAbsent(t) PROVE TypeOK'
    BY <1>10 DEF TypeOK, ComputeIfAbsent, Goto, Stage
<1>11. ASSUME NEW t \in Command, EnsureSession(t) PROVE TypeOK'
    BY <1>11 DEF TypeOK, EnsureSession, HasNoSocket, Goto, Stage
<1>12. ASSUME NEW t \in Command, Connect(t) PROVE TypeOK'
    BY <1>12 DEF TypeOK, Connect, Goto, Stage, SocketState
<1>13. ASSUME NEW t \in Command, ConnectFails(t) PROVE TypeOK'
    BY <1>13 DEF TypeOK, ConnectFails, Goto, End
<1>14. ASSUME NEW t \in Command, AssignSocket(t) PROVE TypeOK'
    BY <1>14 DEF TypeOK, AssignSocket, Goto, Stage
<1>15. ASSUME NEW t \in Thread, Send(t) PROVE TypeOK'
    BY <1>15 DEF TypeOK, Clients, Working, Send, TakeId, Put, Goto, Stage
<1>16. ASSUME NEW t \in Thread, Write(t) PROVE TypeOK'
    BY <1>16 DEF TypeOK, Clients, Working, Write, Goto, Stage, End, Completed, Future
<1>17. ASSUME NEW t \in Command, Join(t) PROVE TypeOK'
    BY <1>17 DEF TypeOK, Join, Goto, End
<1>18. ASSUME NEW t \in Thread, FutureTimeout(t) PROVE TypeOK'
    BY <1>18 DEF TypeOK, FutureTimeout, Without, Future
<1>19. ASSUME NEW t \in Closer, CloseClient(t) PROVE TypeOK'
    BY <1>19 DEF TypeOK, CloseClient, RemoveEntry, Active, Goto, Stage
<1>20. ASSUME NEW t \in Closer, Enter(t) PROVE TypeOK'
    BY <1>20 DEF TypeOK, Enter, Goto, Stage
<1>21. ASSUME NEW t \in Closer, EndOfWait(t) PROVE TypeOK'
    BY <1>21 DEF TypeOK, EndOfWait, Goto, Stage
<1>22. ASSUME NEW t \in Closer, Shut(t) PROVE TypeOK'
    BY <1>22 DEF TypeOK, Shut, Goto, Stage, SocketState
<1>23. ASSUME NEW t \in Closer, CloseFail(t) PROVE TypeOK'
    BY <1>23 DEF TypeOK, CloseFail, FailAll, Goto, Stage, Future
<1>24. ASSUME NEW t \in Closer, CloseClear(t) PROVE TypeOK'
    BY <1>24 DEF TypeOK, CloseClear, ClearAll, Goto, Stage
<1>25. ASSUME NEW t \in Closer, Forget(t) PROVE TypeOK'
    BY <1>25 DEF TypeOK, Forget, Goto, End
<1> QED
    BY <1>1, <1>2, <1>3, <1>4, <1>5, <1>6, <1>7, <1>8, <1>9, <1>10, <1>11, <1>12, <1>13, <1>14, <1>15, <1>16,
        <1>17, <1>18, <1>19, <1>20, <1>21, <1>22, <1>23, <1>24, <1>25
    DEF Next, Listener, Intercept, Close

-----------------------------------------------------------------------------
(* The clients and their sockets *)

LEMMA ClientsStep == TypeOK /\ Clients /\ [Next]_vars => Clients'
<1> SUFFICES ASSUME TypeOK, Clients, [Next]_vars PROVE Clients'
    OBVIOUS
<1> USE ChannelAssumption DEF registry, client, browser, thread, Thread
\* Steps that leave alone what this is about.
<1>1. CASE UNCHANGED <<my, pc, socket, ws>>
    BY <1>1 DEF TypeOK, Clients, Working
<1>2. CASE SessionCreated \/ SessionEnds \/ UNCHANGED vars
    BY <1>1, <1>2 DEF SessionCreated, SessionEnds, vars
<1>3. ASSUME NEW r \in request, Execute(r) PROVE Clients'
    BY <1>1, <1>3 DEF Execute
<1>4. ASSUME NEW a \in answer, OnText(a) PROVE Clients'
    BY <1>1, <1>4 DEF OnText
<1>5. ASSUME NEW t \in Thread, FutureTimeout(t) PROVE Clients'
    BY <1>1, <1>5 DEF FutureTimeout
\* The others.
<1>6. ASSUME NEW s \in Command, OnError(s) PROVE Clients'
    BY <1>6 DEF TypeOK, Clients, Working, OnError
<1>7. ASSUME NEW s \in Command, OnClose(s) PROVE Clients'
    BY <1>7 DEF TypeOK, Clients, Working, OnClose
<1>8. ASSUME NEW s \in Command, OnCloseFail(s) PROVE Clients'
    BY <1>8 DEF TypeOK, Clients, Working, OnCloseFail
<1>9. ASSUME NEW s \in Command, OnCloseClear(s) PROVE Clients'
    BY <1>9 DEF TypeOK, Clients, Working, OnCloseClear
<1>10. ASSUME NEW t \in Command, Start(t) PROVE Clients'
    BY <1>10 DEF TypeOK, Clients, Working, Start, Goto
<1>11. ASSUME NEW t \in Command, LookupUrl(t) PROVE Clients'
    BY <1>11 DEF TypeOK, Clients, Working, LookupUrl, Goto
<1>12. ASSUME NEW t \in Command, ComputeIfAbsent(t) PROVE Clients'
    BY <1>12 DEF TypeOK, Clients, Working, ComputeIfAbsent, Goto
<1>13. ASSUME NEW t \in Command, EnsureSession(t) PROVE Clients'
    BY <1>13 DEF TypeOK, Clients, Working, EnsureSession, HasNoSocket, Goto
<1>14. ASSUME NEW t \in Command, Connect(t) PROVE Clients'
    BY <1>14 DEF TypeOK, Clients, Working, Connect, Goto
<1>15. ASSUME NEW t \in Command, ConnectFails(t) PROVE Clients'
    BY <1>15 DEF TypeOK, Clients, Working, ConnectFails, Goto
<1>16. ASSUME NEW t \in Command, AssignSocket(t) PROVE Clients'
    BY <1>16 DEF TypeOK, Clients, Working, AssignSocket, Goto
<1>17. ASSUME NEW t \in Thread, Send(t) PROVE Clients'
    BY <1>17 DEF TypeOK, Clients, Working, Send, Goto
<1>18. ASSUME NEW t \in Thread, Write(t) PROVE Clients'
    BY <1>18 DEF TypeOK, Clients, Working, Write, Goto
<1>19. ASSUME NEW t \in Command, Join(t) PROVE Clients'
    BY <1>19 DEF TypeOK, Clients, Working, Join, Goto
<1>20. ASSUME NEW t \in Closer, CloseClient(t) PROVE Clients'
    BY <1>20 DEF TypeOK, Clients, Working, CloseClient, Goto
<1>21. ASSUME NEW t \in Closer, Enter(t) PROVE Clients'
    BY <1>21 DEF TypeOK, Clients, Working, Enter, Goto
<1>22. ASSUME NEW t \in Closer, EndOfWait(t) PROVE Clients'
    BY <1>22 DEF TypeOK, Clients, Working, EndOfWait, Goto
<1>23. ASSUME NEW t \in Closer, Shut(t) PROVE Clients'
  <2>1. /\ pc[t] = "shut" /\ pc' = [pc EXCEPT ![t] = IF ws[my[t]] = None THEN "forget" ELSE "fail"]
        /\ UNCHANGED my
      BY <1>23 DEF Shut, Goto
  <2>2. my[t] \in Command
      BY <2>1 DEF Clients, Working
  <2>3. /\ \A s \in Command : socket'[s] = "none" <=> socket[s] = "none"
        /\ \A k \in Command : ws'[k] \in {ws[k], None}
      BY <1>23, <2>2 DEF TypeOK, Shut
  <2>4. \A u \in Thread \ {t} : pc'[u] = pc[u]
      BY <2>1 DEF TypeOK
  <2>5. pc'[t] \in {"forget", "fail"}
      BY <2>1 DEF TypeOK
  <2>6. \A s \in Command : s # t
      OBVIOUS
  <2> QED
      BY <2>1, <2>2, <2>3, <2>4, <2>5, <2>6 DEF TypeOK, Clients, Working
<1>24. ASSUME NEW t \in Closer, CloseFail(t) PROVE Clients'
    BY <1>24 DEF TypeOK, Clients, Working, CloseFail, Goto
<1>25. ASSUME NEW t \in Closer, CloseClear(t) PROVE Clients'
    BY <1>25 DEF TypeOK, Clients, Working, CloseClear, Goto
<1>26. ASSUME NEW t \in Closer, Forget(t) PROVE Clients'
    BY <1>26 DEF TypeOK, Clients, Working, Forget, Goto
<1> QED
    BY <1>1, <1>2, <1>3, <1>4, <1>5, <1>6, <1>7, <1>8, <1>9, <1>10, <1>11, <1>12, <1>13, <1>14,
        <1>15, <1>16, <1>17, <1>18, <1>19, <1>20, <1>21, <1>22, <1>23, <1>24, <1>25, <1>26
    DEF Next, Listener, Intercept, Close

LEMMA LocksStep == TypeOK /\ Clients /\ Locks /\ [Next]_vars => Locks'
<1> SUFFICES ASSUME TypeOK, Clients, Locks, [Next]_vars PROVE Locks'
    OBVIOUS
<1> USE ChannelAssumption DEF registry, client, browser, thread, Thread
\* Steps that leave alone what this is about.
<1>1. CASE UNCHANGED <<lock, my, pc, ws>>
    BY <1>1 DEF TypeOK, Clients, Working, Locks, Holding
<1>2. CASE SessionCreated \/ SessionEnds \/ UNCHANGED vars
    BY <1>1, <1>2 DEF SessionCreated, SessionEnds, vars
<1>3. ASSUME NEW r \in request, Execute(r) PROVE Locks'
    BY <1>1, <1>3 DEF Execute
<1>4. ASSUME NEW a \in answer, OnText(a) PROVE Locks'
    BY <1>1, <1>4 DEF OnText
<1>5. ASSUME NEW s \in Command, OnError(s) \/ OnCloseFail(s) \/ OnCloseClear(s) PROVE Locks'
    BY <1>1, <1>5 DEF OnError, OnCloseFail, OnCloseClear
<1>6. ASSUME NEW t \in Thread, FutureTimeout(t) PROVE Locks'
    BY <1>1, <1>6 DEF FutureTimeout
\* The others.
<1>7. ASSUME NEW s \in Command, OnClose(s) PROVE Locks'
    BY <1>7 DEF TypeOK, Clients, Working, Locks, Holding, OnClose
<1>8. ASSUME NEW t \in Command, Start(t) PROVE Locks'
    BY <1>8 DEF TypeOK, Clients, Working, Locks, Holding, Start, Goto
<1>9. ASSUME NEW t \in Command, LookupUrl(t) PROVE Locks'
    BY <1>9 DEF TypeOK, Clients, Working, Locks, Holding, LookupUrl, Goto
<1>10. ASSUME NEW t \in Command, ComputeIfAbsent(t) PROVE Locks'
    BY <1>10 DEF TypeOK, Clients, Working, Locks, Holding, ComputeIfAbsent, Goto
<1>11. ASSUME NEW t \in Command, EnsureSession(t) PROVE Locks'
    BY <1>11 DEF TypeOK, Clients, Working, Locks, Holding, EnsureSession, HasNoSocket, Goto
<1>12. ASSUME NEW t \in Command, Connect(t) PROVE Locks'
    BY <1>12 DEF TypeOK, Clients, Working, Locks, Holding, Connect, Goto
<1>13. ASSUME NEW t \in Command, ConnectFails(t) PROVE Locks'
    BY <1>13 DEF TypeOK, Clients, Working, Locks, Holding, ConnectFails, Goto
<1>14. ASSUME NEW t \in Command, AssignSocket(t) PROVE Locks'
    BY <1>14 DEF TypeOK, Clients, Working, Locks, Holding, AssignSocket, Goto
<1>15. ASSUME NEW t \in Thread, Send(t) PROVE Locks'
    BY <1>15 DEF TypeOK, Clients, Working, Locks, Holding, Send, Goto
<1>16. ASSUME NEW t \in Thread, Write(t) PROVE Locks'
    BY <1>16 DEF TypeOK, Clients, Working, Locks, Holding, Write, Goto
<1>17. ASSUME NEW t \in Command, Join(t) PROVE Locks'
    BY <1>17 DEF TypeOK, Clients, Working, Locks, Holding, Join, Goto
<1>18. ASSUME NEW t \in Closer, CloseClient(t) PROVE Locks'
    BY <1>18 DEF TypeOK, Clients, Working, Locks, Holding, CloseClient, Goto
<1>19. ASSUME NEW t \in Closer, Enter(t) PROVE Locks'
    BY <1>19 DEF TypeOK, Clients, Working, Locks, Holding, Enter, Goto
<1>20. ASSUME NEW t \in Closer, EndOfWait(t) PROVE Locks'
    BY <1>20 DEF TypeOK, Clients, Working, Locks, Holding, EndOfWait, Goto
<1>21. ASSUME NEW t \in Closer, Shut(t) PROVE Locks'
    BY <1>21 DEF TypeOK, Clients, Working, Locks, Holding, Shut, Goto
<1>22. ASSUME NEW t \in Closer, CloseFail(t) PROVE Locks'
    BY <1>22 DEF TypeOK, Clients, Working, Locks, Holding, CloseFail, Goto
<1>23. ASSUME NEW t \in Closer, CloseClear(t) PROVE Locks'
    BY <1>23 DEF TypeOK, Clients, Working, Locks, Holding, CloseClear, Goto
<1>24. ASSUME NEW t \in Closer, Forget(t) PROVE Locks'
    BY <1>24 DEF TypeOK, Clients, Working, Locks, Holding, Forget, Goto
<1> QED
    BY <1>1, <1>2, <1>3, <1>4, <1>5, <1>6, <1>7, <1>8, <1>9, <1>10, <1>11, <1>12, <1>13, <1>14,
        <1>15, <1>16, <1>17, <1>18, <1>19, <1>20, <1>21, <1>22, <1>23, <1>24
    DEF Next, Listener, Intercept, Close

-----------------------------------------------------------------------------
(* The answers *)

LEMMA IdsStep == TypeOK /\ Clients /\ Ids /\ [Next]_vars => Ids'
<1> SUFFICES ASSUME TypeOK, Clients, Ids, [Next]_vars PROVE Ids'
    OBVIOUS
<1> USE ChannelAssumption DEF registry, client, browser, thread, Thread
\* Steps that leave alone what this is about.
<1>1. CASE UNCHANGED <<answer, id, my, nextId, pc, pending, request, socket>>
    BY <1>1 DEF TypeOK, Clients, Working, Ids, Mine
<1>2. CASE SessionCreated \/ SessionEnds \/ UNCHANGED vars
    BY <1>1, <1>2 DEF SessionCreated, SessionEnds, vars
\* The others.
<1>3. ASSUME NEW r \in request, Execute(r) PROVE Ids'
    BY <1>3 DEF TypeOK, Clients, Working, Ids, Mine, Execute
<1>4. ASSUME NEW a \in answer, OnText(a) PROVE Ids'
  <2> DEFINE k == my[a[1]]
  <2>1. k \in Command
      BY DEF TypeOK, Clients, Ids
  <2>2. /\ answer' \subseteq answer
        /\ \A c \in Command : DOMAIN pending'[c] \subseteq DOMAIN pending[c]
        /\ \A c \in Command : \A i \in DOMAIN pending'[c] : pending'[c][i] = pending[c][i]
        /\ UNCHANGED <<pc, my, id, nextId, request, socket>>
      BY <1>4, <2>1 DEF TypeOK, OnText, Without
  <2>3. ASSUME NEW c \in Command, NEW i, NEW owners, Mine(c, i, owners) PROVE Mine(c, i, owners)'
      BY <2>2, <2>3 DEF Mine
  <2>4. \A t \in Thread : pc[t] = "write" => my[t] \in Command
      BY DEF Clients, Working
  <2>5. /\ \A r \in request : socket[r[1]] # "none" => my[r[1]] \in Command
        /\ \A b \in answer : socket[b[1]] # "none" => my[b[1]] \in Command
      BY DEF Clients, TypeOK
  <2> QED
      BY <2>2, <2>3, <2>4, <2>5 DEF Ids
<1>5. ASSUME NEW s \in Command, OnError(s) PROVE Ids'
    BY <1>5 DEF TypeOK, Clients, Working, Ids, Mine, OnError, LoseTraffic
<1>6. ASSUME NEW s \in Command, OnClose(s) PROVE Ids'
    BY <1>6 DEF TypeOK, Clients, Working, Ids, Mine, OnClose, LoseTraffic
<1>7. ASSUME NEW s \in Command, OnCloseFail(s) PROVE Ids'
    BY <1>7 DEF TypeOK, Clients, Working, Ids, Mine, OnCloseFail
<1>8. ASSUME NEW s \in Command, OnCloseClear(s) PROVE Ids'
    BY <1>8 DEF TypeOK, Clients, Working, Ids, Mine, OnCloseClear, ClearAll
<1>9. ASSUME NEW t \in Command, Start(t) PROVE Ids'
    BY <1>9 DEF TypeOK, Clients, Working, Ids, Mine, Start, Goto
<1>10. ASSUME NEW t \in Command, LookupUrl(t) PROVE Ids'
    BY <1>10 DEF TypeOK, Clients, Working, Ids, Mine, LookupUrl, Goto
<1>11. ASSUME NEW t \in Command, ComputeIfAbsent(t) PROVE Ids'
    BY <1>11 DEF TypeOK, Clients, Working, Ids, Mine, ComputeIfAbsent, Goto
<1>12. ASSUME NEW t \in Command, EnsureSession(t) PROVE Ids'
    BY <1>12 DEF TypeOK, Clients, Working, Ids, Mine, EnsureSession, HasNoSocket, Goto
<1>13. ASSUME NEW t \in Command, Connect(t) PROVE Ids'
    BY <1>13 DEF TypeOK, Clients, Working, Ids, Mine, Connect, Goto
<1>14. ASSUME NEW t \in Command, ConnectFails(t) PROVE Ids'
    BY <1>14 DEF TypeOK, Clients, Working, Ids, Mine, ConnectFails, Goto
<1>15. ASSUME NEW t \in Command, AssignSocket(t) PROVE Ids'
    BY <1>15 DEF TypeOK, Clients, Working, Ids, Mine, AssignSocket, Goto
<1>16. ASSUME NEW t \in Thread, Send(t) PROVE Ids'
    BY <1>16 DEF TypeOK, Clients, Working, Ids, Mine, Send, TakeId, Put, Goto
<1>17. ASSUME NEW t \in Thread, Write(t) PROVE Ids'
    BY <1>17 DEF TypeOK, Clients, Working, Ids, Mine, Write, Goto
<1>18. ASSUME NEW t \in Command, Join(t) PROVE Ids'
    BY <1>18 DEF TypeOK, Clients, Working, Ids, Mine, Join, Goto
<1>19. ASSUME NEW t \in Thread, FutureTimeout(t) PROVE Ids'
    BY <1>19 DEF TypeOK, Clients, Working, Ids, Mine, FutureTimeout, Without
<1>20. ASSUME NEW t \in Closer, CloseClient(t) PROVE Ids'
    BY <1>20 DEF TypeOK, Clients, Working, Ids, Mine, CloseClient, Goto
<1>21. ASSUME NEW t \in Closer, Enter(t) PROVE Ids'
    BY <1>21 DEF TypeOK, Clients, Working, Ids, Mine, Enter, Goto
<1>22. ASSUME NEW t \in Closer, EndOfWait(t) PROVE Ids'
    BY <1>22 DEF TypeOK, Clients, Working, Ids, Mine, EndOfWait, Goto
<1>23. ASSUME NEW t \in Closer, Shut(t) PROVE Ids'
    BY <1>23 DEF TypeOK, Clients, Working, Ids, Mine, Shut, Goto
<1>24. ASSUME NEW t \in Closer, CloseFail(t) PROVE Ids'
    BY <1>24 DEF TypeOK, Clients, Working, Ids, Mine, CloseFail, Goto
<1>25. ASSUME NEW t \in Closer, CloseClear(t) PROVE Ids'
    BY <1>25 DEF TypeOK, Clients, Working, Ids, Mine, CloseClear, ClearAll, Goto
<1>26. ASSUME NEW t \in Closer, Forget(t) PROVE Ids'
    BY <1>26 DEF TypeOK, Clients, Working, Ids, Mine, Forget, Goto
<1> QED
    BY <1>1, <1>2, <1>3, <1>4, <1>5, <1>6, <1>7, <1>8, <1>9, <1>10, <1>11, <1>12, <1>13, <1>14,
        <1>15, <1>16, <1>17, <1>18, <1>19, <1>20, <1>21, <1>22, <1>23, <1>24, <1>25, <1>26
    DEF Next, Listener, Intercept, Close

LEMMA OwnAnswerStep == TypeOK /\ Clients /\ Ids /\ OwnAnswer /\ [Next]_vars => OwnAnswer'
<1> SUFFICES ASSUME TypeOK, Clients, Ids, OwnAnswer, [Next]_vars PROVE OwnAnswer'
    OBVIOUS
<1> USE ChannelAssumption DEF registry, client, browser, thread, Thread
\* Steps that leave alone what this is about.
<1>1. CASE UNCHANGED <<future, pc>>
    BY <1>1 DEF TypeOK, Ids, Mine, OwnAnswer, Completed
<1>2. CASE SessionCreated \/ SessionEnds \/ UNCHANGED vars
    BY <1>1, <1>2 DEF SessionCreated, SessionEnds, vars
<1>3. ASSUME NEW r \in request, Execute(r) PROVE OwnAnswer'
    BY <1>1, <1>3 DEF Execute
<1>4. ASSUME NEW s \in Command, OnError(s) \/ OnClose(s) \/ OnCloseClear(s) PROVE OwnAnswer'
    BY <1>1, <1>4 DEF OnError, OnClose, OnCloseClear
\* The others.
<1>5. ASSUME NEW a \in answer, OnText(a) PROVE OwnAnswer'
    BY <1>5 DEF TypeOK, Ids, Mine, OwnAnswer, Completed, OnText
<1>6. ASSUME NEW s \in Command, OnCloseFail(s) PROVE OwnAnswer'
    BY <1>6 DEF TypeOK, Ids, Mine, OwnAnswer, Completed, OnCloseFail, FailAll
<1>7. ASSUME NEW t \in Command, Start(t) PROVE OwnAnswer'
    BY <1>7 DEF TypeOK, Ids, Mine, OwnAnswer, Completed, Start, Goto
<1>8. ASSUME NEW t \in Command, LookupUrl(t) PROVE OwnAnswer'
    BY <1>8 DEF TypeOK, Ids, Mine, OwnAnswer, Completed, LookupUrl, Goto
<1>9. ASSUME NEW t \in Command, ComputeIfAbsent(t) PROVE OwnAnswer'
    BY <1>9 DEF TypeOK, Ids, Mine, OwnAnswer, Completed, ComputeIfAbsent, Goto
<1>10. ASSUME NEW t \in Command, EnsureSession(t) PROVE OwnAnswer'
    BY <1>10 DEF TypeOK, Ids, Mine, OwnAnswer, Completed, EnsureSession, HasNoSocket, Goto
<1>11. ASSUME NEW t \in Command, Connect(t) PROVE OwnAnswer'
    BY <1>11 DEF TypeOK, Ids, Mine, OwnAnswer, Completed, Connect, Goto
<1>12. ASSUME NEW t \in Command, ConnectFails(t) PROVE OwnAnswer'
    BY <1>12 DEF TypeOK, Ids, Mine, OwnAnswer, Completed, ConnectFails, Goto
<1>13. ASSUME NEW t \in Command, AssignSocket(t) PROVE OwnAnswer'
    BY <1>13 DEF TypeOK, Ids, Mine, OwnAnswer, Completed, AssignSocket, Goto
<1>14. ASSUME NEW t \in Thread, Send(t) PROVE OwnAnswer'
    BY <1>14 DEF TypeOK, Ids, Mine, OwnAnswer, Completed, Send, Goto
<1>15. ASSUME NEW t \in Thread, Write(t) PROVE OwnAnswer'
    BY <1>15 DEF TypeOK, Ids, Mine, OwnAnswer, Completed, Write, Goto
<1>16. ASSUME NEW t \in Command, Join(t) PROVE OwnAnswer'
    BY <1>16 DEF TypeOK, Ids, Mine, OwnAnswer, Completed, Join, Goto
<1>17. ASSUME NEW t \in Thread, FutureTimeout(t) PROVE OwnAnswer'
    BY <1>17 DEF TypeOK, OwnAnswer, FutureTimeout, Expires
<1>18. ASSUME NEW t \in Closer, CloseClient(t) PROVE OwnAnswer'
    BY <1>18 DEF TypeOK, Ids, Mine, OwnAnswer, Completed, CloseClient, Goto
<1>19. ASSUME NEW t \in Closer, Enter(t) PROVE OwnAnswer'
    BY <1>19 DEF TypeOK, Ids, Mine, OwnAnswer, Completed, Enter, Goto
<1>20. ASSUME NEW t \in Closer, EndOfWait(t) PROVE OwnAnswer'
    BY <1>20 DEF TypeOK, Ids, Mine, OwnAnswer, Completed, EndOfWait, Goto
<1>21. ASSUME NEW t \in Closer, Shut(t) PROVE OwnAnswer'
    BY <1>21 DEF TypeOK, Ids, Mine, OwnAnswer, Completed, Shut, Goto
<1>22. ASSUME NEW t \in Closer, CloseFail(t) PROVE OwnAnswer'
    BY <1>22 DEF TypeOK, Ids, Mine, OwnAnswer, Completed, CloseFail, FailAll, Goto
<1>23. ASSUME NEW t \in Closer, CloseClear(t) PROVE OwnAnswer'
    BY <1>23 DEF TypeOK, Ids, Mine, OwnAnswer, Completed, CloseClear, Goto
<1>24. ASSUME NEW t \in Closer, Forget(t) PROVE OwnAnswer'
    BY <1>24 DEF TypeOK, Ids, Mine, OwnAnswer, Completed, Forget, Goto
<1> QED
    BY <1>1, <1>2, <1>3, <1>4, <1>5, <1>6, <1>7, <1>8, <1>9, <1>10, <1>11, <1>12, <1>13, <1>14,
        <1>15, <1>16, <1>17, <1>18, <1>19, <1>20, <1>21, <1>22, <1>23, <1>24
    DEF Next, Listener, Intercept, Close

-----------------------------------------------------------------------------
(* The end of a session *)

LEMMA ClosingStep == TypeOK /\ Clients /\ Closing /\ [Next]_vars => Closing'
<1> SUFFICES ASSUME TypeOK, Clients, Closing, [Next]_vars PROVE Closing'
    OBVIOUS
<1> USE ChannelAssumption DEF registry, client, browser, thread, Thread
\* Steps that leave alone what this is about.
<1>1. CASE UNCHANGED <<map, my, overlap, pc, url, ws>>
    BY <1>1 DEF TypeOK, Clients, Working, Closing, Begun, Active, Stage
<1>2. CASE SessionEnds \/ UNCHANGED vars
    BY <1>1, <1>2 DEF SessionEnds, vars
<1>3. ASSUME NEW r \in request, Execute(r) PROVE Closing'
    BY <1>1, <1>3 DEF Execute
<1>4. ASSUME NEW a \in answer, OnText(a) PROVE Closing'
    BY <1>1, <1>4 DEF OnText
<1>5. ASSUME NEW s \in Command, OnError(s) \/ OnCloseFail(s) \/ OnCloseClear(s) PROVE Closing'
    BY <1>1, <1>5 DEF OnError, OnCloseFail, OnCloseClear
<1>6. ASSUME NEW t \in Thread, FutureTimeout(t) PROVE Closing'
    BY <1>1, <1>6 DEF FutureTimeout
\* The others.
<1>7. CASE SessionCreated
    BY <1>7 DEF TypeOK, Clients, Working, Closing, Begun, Active, Stage, SessionCreated
<1>8. ASSUME NEW s \in Command, OnClose(s) PROVE Closing'
    BY <1>8 DEF TypeOK, Clients, Working, Closing, Begun, Active, Stage, OnClose
<1>9. ASSUME NEW t \in Command, Start(t) PROVE Closing'
  <2>1. /\ pc[t] = "idle" /\ pc' = [pc EXCEPT ![t] = "lookup"]
        /\ overlap' = (overlap \/ \E c \in Closer : Active(c))
        /\ UNCHANGED <<url, map, ws, my>>
      BY <1>9 DEF Start, Goto
  <2>2. \A c \in Closer : pc'[c] = pc[c] /\ (Begun(c)' <=> Begun(c))
      BY <2>1 DEF TypeOK, Begun
  <2>3. \A u \in Command \ {t} : pc'[u] = pc[u]
      BY <2>1 DEF TypeOK
  <2>4. \A c \in Closer : Begun(c) /\ ~Active(c) => pc[c] = "done"
      BY DEF TypeOK, Clients, Begun, Active, Stage, End
  <2>5. ASSUME ~overlap', NEW c \in Closer, Begun(c) PROVE ~url /\ \A u \in Command : Active(u) => pc[u] = "lookup"
    <3>1. ~overlap /\ pc[c] = "done"
        BY <2>1, <2>4, <2>5
    <3> QED
        BY <2>5, <3>1 DEF Closing
  <2>6. pc'[t] = "lookup"
      BY <2>1 DEF TypeOK
  <2>7. \A u \in Command \ {t} : Active(u)' => Active(u)
      BY <2>3 DEF Active
  <2>8. ASSUME ~overlap', NEW c \in Closer, Begun(c)
        PROVE  \A u \in Command : Active(u)' => pc'[u] = "lookup" /\ ~url'
      BY <2>1, <2>3, <2>5, <2>6, <2>7, <2>8
  <2>9. /\ \A c \in Closer : pc'[c] = "done" => ~url'
        /\ ~overlap' => ~overlap
      BY <2>1, <2>2 DEF Closing
  <2>10. CASE \A c \in Closer : ~Begun(c)
      BY <2>1, <2>2, <2>9, <2>10 DEF Closing
  <2>11. CASE \E c \in Closer : Begun(c)
    <3>1. ASSUME ~overlap', NEW k \in Command, ws'[k] # None
          PROVE  \E c \in Closer : my'[c] = k /\ pc'[c] \in {"enter", "send", "write", "wait", "shut"}
        BY <2>1, <2>2, <2>9, <2>11, <3>1 DEF Closing
    <3>2. ~overlap' => map' = None
        BY <2>1, <2>9, <2>11 DEF Closing
    <3> QED
        BY <2>2, <2>8, <2>9, <2>11, <3>1, <3>2 DEF Closing
  <2> QED
      BY <2>10, <2>11
<1>10. ASSUME NEW t \in Command, LookupUrl(t) PROVE Closing'
    BY <1>10 DEF TypeOK, Clients, Working, Closing, Begun, Active, Stage, LookupUrl, Goto
<1>11. ASSUME NEW t \in Command, ComputeIfAbsent(t) PROVE Closing'
    BY <1>11 DEF TypeOK, Clients, Working, Closing, Begun, Active, Stage, ComputeIfAbsent, Goto
<1>12. ASSUME NEW t \in Command, EnsureSession(t) PROVE Closing'
    BY <1>12 DEF TypeOK, Clients, Working, Closing, Begun, Active, Stage, EnsureSession, HasNoSocket, Goto
<1>13. ASSUME NEW t \in Command, Connect(t) PROVE Closing'
    BY <1>13 DEF TypeOK, Clients, Working, Closing, Begun, Active, Stage, Connect, Goto
<1>14. ASSUME NEW t \in Command, ConnectFails(t) PROVE Closing'
    BY <1>14 DEF TypeOK, Clients, Working, Closing, Begun, Active, Stage, ConnectFails, Goto
<1>15. ASSUME NEW t \in Command, AssignSocket(t) PROVE Closing'
    BY <1>15 DEF TypeOK, Clients, Working, Closing, Begun, Active, Stage, AssignSocket, Goto
<1>16. ASSUME NEW t \in Thread, Send(t) PROVE Closing'
    BY <1>16 DEF TypeOK, Clients, Working, Closing, Begun, Active, Stage, Send, Goto
<1>17. ASSUME NEW t \in Thread, Write(t) PROVE Closing'
    BY <1>17 DEF TypeOK, Clients, Working, Closing, Begun, Active, Stage, Write, Goto
<1>18. ASSUME NEW t \in Command, Join(t) PROVE Closing'
    BY <1>18 DEF TypeOK, Clients, Working, Closing, Begun, Active, Stage, Join, Goto
<1>19. ASSUME NEW t \in Closer, CloseClient(t) PROVE Closing'
  <2>1. /\ pc[t] = "idle" /\ pc' = [pc EXCEPT ![t] = IF map = None THEN "forget" ELSE "enter"]
        /\ overlap' = (overlap \/ \E c \in Command : Active(c))
        /\ my' = [my EXCEPT ![t] = map] /\ map' = None
        /\ UNCHANGED <<url, ws>>
      BY <1>19 DEF CloseClient, RemoveEntry, Goto
  <2>2. Begun(t)'
      BY <2>1 DEF TypeOK, Begun
  <2>3. \A c \in Command : pc'[c] = pc[c]
      BY <2>1 DEF TypeOK
  <2>4. \A c \in Closer \ {t} : pc'[c] = pc[c] /\ my'[c] = my[c] /\ (Begun(c)' <=> Begun(c))
      BY <2>1 DEF TypeOK, Begun
  <2>5. pc'[t] # "done" /\ my'[t] = map /\ (map # None => pc'[t] = "enter")
      BY <2>1 DEF TypeOK
  <2>6. ~overlap' => ~overlap /\ \A c \in Command : ~Active(c)
      BY <2>1
  <2>7. \A c \in Closer : pc'[c] = "done" => ~url'
      BY <2>1, <2>4, <2>5 DEF Closing
  <2>8. ASSUME ~overlap', NEW k \in Command, ws'[k] # None
        PROVE  \E c \in Closer : my'[c] = k /\ pc'[c] \in {"enter", "send", "write", "wait", "shut"}
    <3>1. CASE \E c \in Closer : Begun(c)
      <4>1. PICK c \in Closer : my[c] = k /\ pc[c] \in {"enter", "send", "write", "wait", "shut"}
          BY <2>1, <2>6, <2>8, <3>1 DEF Closing
      <4> QED
          BY <2>1, <2>4, <4>1
    <3>2. CASE \A c \in Closer : ~Begun(c)
      <4>1. map = k /\ map # None
          BY <2>1, <2>8, <3>2 DEF Closing
      <4> QED
          BY <2>5, <4>1
    <3> QED
        BY <3>1, <3>2
  <2>9. ~overlap' => \A c \in Command : ~Active(c)'
      BY <2>3, <2>6 DEF Active
  <2> QED
      BY <2>1, <2>2, <2>7, <2>8, <2>9 DEF Closing
<1>20. ASSUME NEW t \in Closer, Enter(t) PROVE Closing'
    BY <1>20 DEF TypeOK, Clients, Working, Closing, Begun, Active, Stage, Enter, Goto
<1>21. ASSUME NEW t \in Closer, EndOfWait(t) PROVE Closing'
    BY <1>21 DEF TypeOK, Clients, Working, Closing, Begun, Active, Stage, EndOfWait, Goto
<1>22. ASSUME NEW t \in Closer, Shut(t) PROVE Closing'
    BY <1>22 DEF TypeOK, Clients, Working, Closing, Begun, Active, Stage, Shut, Goto
<1>23. ASSUME NEW t \in Closer, CloseFail(t) PROVE Closing'
    BY <1>23 DEF TypeOK, Clients, Working, Closing, Begun, Active, Stage, CloseFail, Goto
<1>24. ASSUME NEW t \in Closer, CloseClear(t) PROVE Closing'
    BY <1>24 DEF TypeOK, Clients, Working, Closing, Begun, Active, Stage, CloseClear, Goto
<1>25. ASSUME NEW t \in Closer, Forget(t) PROVE Closing'
    BY <1>25 DEF TypeOK, Clients, Working, Closing, Begun, Active, Stage, Forget, Goto
<1> QED
    BY <1>1, <1>2, <1>3, <1>4, <1>5, <1>6, <1>7, <1>8, <1>9, <1>10, <1>11, <1>12, <1>13, <1>14,
        <1>15, <1>16, <1>17, <1>18, <1>19, <1>20, <1>21, <1>22, <1>23, <1>24, <1>25
    DEF Next, Listener, Intercept, Close

-----------------------------------------------------------------------------
(* The theorems *)

LEMMA InvInit == Init => IInv
<1> SUFFICES ASSUME Init PROVE IInv
    OBVIOUS
<1> USE ChannelAssumption DEF Thread
<1>1. \A t \in Thread : pc[t] \in {"idle", "absent"}
    BY DEF Init
<1>2. TypeOK
    BY DEF Init, TypeOK, SocketState, Future
<1>3. Clients
    BY <1>1 DEF Init, Clients, Working
<1>4. Locks
    BY <1>1 DEF Locks, Holding
<1>5. Ids
    BY <1>1 DEF Init, Ids
<1>6. OwnAnswer
    BY <1>1 DEF Init, OwnAnswer
<1>7. Closing
    BY <1>1 DEF Init, Closing, Begun
<1> QED
    BY <1>2, <1>3, <1>4, <1>5, <1>6, <1>7 DEF IInv

LEMMA InvAlways == Spec => []IInv
<1>1. Init => IInv
    BY InvInit
<1>2. IInv /\ [Next]_vars => IInv'
    BY TypeStep, ClientsStep, LocksStep, IdsStep, OwnAnswerStep, ClosingStep DEF IInv
<1> QED
    BY <1>1, <1>2, PTL DEF Spec

\* Every variable of the interceptor, its clients and the browser has its type.
THEOREM ChannelTyped == Spec => []TypeOK
<1>1. IInv => TypeOK
    BY DEF IInv
<1> QED
    BY <1>1, InvAlways, PTL

\* A command that returns, returns its own answer (sendCommand, onText).
THEOREM AnswersFit == Spec => []AnswerFits
<1>1. IInv => AnswerFits
    BY DEF IInv, OwnAnswer, AnswerFits, Thread
<1> QED
    BY <1>1, InvAlways, PTL

\* A client makes one socket at a time, and none while it has one (ensureSession).
THEOREM SocketsAreSingle == Spec => []OneSocket
<1>1. IInv => OneSocket
  <2> SUFFICES ASSUME IInv, NEW s \in Command, NEW t \in Command, s # t, pc[s] = "assign", my[s] = my[t]
               PROVE  pc[t] # "assign" /\ ws[my[s]] # t
      BY DEF OneSocket
  <2>1. lock[my[s]] = s /\ ws[my[s]] = None
      BY DEF IInv, Locks, Holding, Thread
  <2>2. pc[t] = "assign" => lock[my[t]] = t
      BY DEF IInv, Locks, Holding, Thread
  <2> QED
      BY <2>1, <2>2, ChannelAssumption
<1> QED
    BY <1>1, InvAlways, PTL

\* A session that is closed while no command runs leaves no client and no socket (closeBiDiClient).
THEOREM SessionsAreForgotten == Spec => []ClosedIsForgotten
<1>1. IInv => ClosedIsForgotten
  <2> SUFFICES ASSUME IInv, NEW t \in Closer, pc[t] = "done", \A c \in Closer : ~Active(c), ~overlap
               PROVE  map = None /\ \A k \in Command : ws[k] = None
      BY DEF ClosedIsForgotten
  <2>1. \E c \in Closer : Begun(c)
      BY DEF Begun
  <2>2. ASSUME NEW k \in Command, ws[k] # None PROVE FALSE
    <3>1. PICK c \in Closer : my[c] = k /\ pc[c] \in {"enter", "send", "write", "wait", "shut"}
        BY <2>1, <2>2 DEF IInv, Closing
    <3> QED
        BY <3>1 DEF Active, Stage
  <2> QED
      BY <2>1, <2>2 DEF IInv, Closing
<1> QED
    BY <1>1, InvAlways, PTL
=============================================================================
