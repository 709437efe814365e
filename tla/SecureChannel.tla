--------------------------- MODULE SecureChannel ---------------------------
(***************************************************************************)
(* The Grid's interceptor and its BiDi clients for one session:            *)
(* EncryptionInterceptor.intercept on the threads of commands that need    *)
(* BiDi, closeBiDiClient on the thread of the session closed event and on  *)
(* that of the shutdown, and the listener of each WebSocket on a thread of *)
(* its own.  (The maps' entries for other sessions have no part in this.)  *)
(*                                                                         *)
(* A client and a WebSocket are named after the command whose thread has   *)
(* created them, of which a thread creates one at most.  A message that is *)
(* put together wrongly from fragments is dropped (BiDiClient.java:124),   *)
(* which is as if the browser had not answered; the browser need not.      *)
(***************************************************************************)
EXTENDS Naturals

CONSTANTS
    Command,    \* commands that need BiDi
    Closer,     \* "event": the session closed event, "shutdown": close()
    Scenario,   \* sets of threads that may come to run
    None

ASSUME ChannelAssumption ==
    /\ Closer \subseteq {"event", "shutdown"}
    /\ Command \cap Closer = {}
    /\ Scenario \subseteq SUBSET (Command \cup Closer)
    /\ None \notin Command \cup Closer
    /\ Command \cap {"new", "waiting", "failed"} = {}

Thread == Command \cup Closer

VARIABLES
    \* the interceptor
    url,        \* the session is in sessionBidiUrls
    map,        \* its client in bidiClients
    \* the clients
    ws, lock, nextId, pending,
    \* the browser
    alive,
    socket,     \* state of each WebSocket and of its listener
    request,    \* commands that were sent: <<socket, id, thread>>
    answer,     \* on the way back: <<socket, id, thread whose command was executed>>,
                \* or "failed" instead of the thread when the browser has refused it
    \* the threads
    pc,
    my,         \* the client that the thread works with
    id, future, \* of the command it has sent
    overlap     \* history: a command and a closer were in progress together

registry == <<url, map>>
client == <<ws, lock, nextId, pending>>
browser == <<alive, socket, request, answer>>
thread == <<pc, my, id, future, overlap>>
vars == <<registry, client, browser, thread>>

\* "sent_close" is between sendClose and the peer's answer; onClose goes from
\* "reset" (ws is null) over "failed" to "closed".
SocketState == {"none", "open", "errored", "sent_close", "reset", "failed", "closed"}
Stage == {"lookup", "compute", "ensure", "connect", "assign", "send", "write", "wait",
          "remove", "enter", "shut", "fail", "clear", "forget"}
End == {"returned", "raised", "done"}
\* A future is new, waits (with a timeout), has failed, or holds the answer to
\* the command of a thread.
Future == {"new", "waiting", "failed"} \cup Thread

TypeOK ==
    /\ url \in BOOLEAN
    /\ map \in Command \cup {None}
    /\ ws \in [Command -> Command \cup {None}]
    /\ lock \in [Command -> Thread \cup {None}]
    /\ nextId \in [Command -> Nat]
    /\ DOMAIN pending = Command
    /\ \A k \in Command : pending[k] \in [DOMAIN pending[k] -> Thread] /\ DOMAIN pending[k] \subseteq Nat
    /\ alive \in BOOLEAN
    /\ socket \in [Command -> SocketState]
    /\ request \subseteq Command \X Nat \X Thread
    /\ answer \subseteq Command \X Nat \X (Thread \cup {"failed"})
    /\ pc \in [Thread -> {"idle", "absent"} \cup Stage \cup End]
    /\ my \in [Thread -> Command \cup {None}]
    /\ id \in [Thread -> Nat]
    /\ future \in [Thread -> Future]
    /\ overlap \in BOOLEAN

Init ==
    /\ url = FALSE
    /\ map = None
    /\ ws = [k \in Command |-> None]
    /\ lock = [k \in Command |-> None]
    /\ nextId = [k \in Command |-> 1]
    /\ pending = [k \in Command |-> [i \in {} |-> None]]
    /\ alive = TRUE
    /\ socket = [s \in Command |-> "none"]
    /\ request = {}
    /\ answer = {}
    /\ \E present \in Scenario : pc = [t \in Thread |-> IF t \in present THEN "idle" ELSE "absent"]
    /\ my = [t \in Thread |-> None]
    /\ id = [t \in Thread |-> 0]
    /\ future = [t \in Thread |-> "new"]
    /\ overlap = FALSE

-----------------------------------------------------------------------------
(* Helpers *)

Goto(t, stage) == pc' = [pc EXCEPT ![t] = stage]
Active(t) == pc[t] \in Stage

Put(f, i, t) == [j \in DOMAIN f \cup {i} |-> IF j = i THEN t ELSE f[j]]
\* (Mutant: the entry is emptied instead of removed.)
Emptied(f, i) == [f EXCEPT ![i] = None]
Without(f, i) == [j \in DOMAIN f \ {i} |-> f[j]]

Completed(f) == f \notin {"new", "waiting"}

\* Every future in the client's map of pending commands fails that has not been completed.
FailAll(k) ==
    future' = [t \in Thread |-> IF ~Completed(future[t]) /\ \E i \in DOMAIN pending[k] : pending[k][i] = t
                                THEN "failed" ELSE future[t]]
ClearAll(k) == pending' = [pending EXCEPT ![k] = [i \in {} |-> None]]

-----------------------------------------------------------------------------
(* The browser and the listeners *)

\* The session created event is handled, perhaps after the first command.
SessionCreated ==
    /\ alive /\ ~url
    /\ \A t \in Closer : pc[t] \in {"idle", "absent"}
    /\ url' = TRUE
    /\ UNCHANGED <<map, client, browser, thread>>

SessionEnds ==
    /\ alive
    /\ alive' = FALSE
    /\ UNCHANGED <<registry, client, socket, request, answer, thread>>

\* The browser executes a command or refuses it, and answers.
Execute(r) ==
    /\ alive
    /\ request' = request \ {r}
    /\ \E outcome \in {r[3], "failed"} : answer' = answer \cup {<<r[1], r[2], outcome>>}
    /\ UNCHANGED <<registry, client, alive, socket, thread>>

\* An answer is known by its id.
OnText(a) ==
    /\ socket[a[1]] \in {"open", "sent_close"}
    /\ answer' = answer \ {a}
    /\ LET k == my[a[1]] IN
        IF a[2] \in DOMAIN pending[k]
        THEN /\ pending' = [pending EXCEPT ![k] = Without(@, a[2])]
             /\ future' = [future EXCEPT ![pending[k][a[2]]] =
                               IF Completed(@) THEN @ ELSE a[3]]
        ELSE UNCHANGED <<pending, future>>
    /\ UNCHANGED <<registry, ws, lock, nextId, alive, socket, request, pc, my, id, overlap>>

\* A socket goes down, with what is on the way.
LoseTraffic(s) ==
    /\ request' = {r \in request : r[1] # s}
    /\ answer' = {a \in answer : a[1] # s}

\* onError is only logged: the client keeps the dead socket.
OnError(s) ==
    /\ socket[s] \in {"open", "sent_close"}
    /\ socket' = [socket EXCEPT ![s] = "errored"]
    /\ LoseTraffic(s)
    /\ UNCHANGED <<registry, client, alive, thread>>

\* onClose resets the client, whatever socket it has now.
OnClose(s) ==
    /\ socket[s] \in {"open", "sent_close"}
    /\ socket' = [socket EXCEPT ![s] = "reset"]
    /\ ws' = [ws EXCEPT ![my[s]] = None]
    /\ LoseTraffic(s)
    /\ UNCHANGED <<registry, lock, nextId, pending, alive, thread>>

OnCloseFail(s) ==
    /\ socket[s] = "reset"
    /\ socket' = [socket EXCEPT ![s] = "failed"]
    /\ FailAll(my[s])
    /\ UNCHANGED <<registry, client, alive, request, answer, pc, my, id, overlap>>

OnCloseClear(s) ==
    /\ socket[s] = "failed"
    /\ socket' = [socket EXCEPT ![s] = "closed"]
    /\ ClearAll(my[s])
    /\ UNCHANGED <<registry, ws, lock, nextId, alive, request, answer, thread>>

Listener(s) == OnError(s) \/ OnClose(s) \/ OnCloseFail(s) \/ OnCloseClear(s)

-----------------------------------------------------------------------------
(* BiDiClient.sendCommand, on the thread of a command or a closer *)

\* (Mutant: the counter is not advanced.)
SameId(k) == UNCHANGED nextId
TakeId(k) == nextId' = [nextId EXCEPT ![k] = @ + 1]

Send(t) ==
    /\ pc[t] = "send"
    /\ id' = [id EXCEPT ![t] = nextId[my[t]]]
    /\ TakeId(my[t])
    /\ pending' = [pending EXCEPT ![my[t]] = Put(@, nextId[my[t]], t)]
    /\ Goto(t, "write")
    /\ UNCHANGED <<registry, ws, lock, browser, my, future, overlap>>

\* ws is null by now if onClose has come in between: a NullPointerException,
\* which close() catches.  The outcome of sendText is not looked at: what is
\* written to a dead socket, or while another text is being sent, is lost.
Write(t) ==
    /\ pc[t] = "write"
    /\ LET s == ws[my[t]] IN
        IF s = None
        THEN /\ Goto(t, IF t \in Closer THEN "shut" ELSE "raised")
             /\ UNCHANGED <<request, future>>
        ELSE /\ \/ UNCHANGED request
                \/ socket[s] = "open" /\ request' = request \cup {<<s, id[t], t>>}
             /\ future' = [future EXCEPT ![t] = IF Completed(@) THEN @ ELSE "waiting"]
             /\ Goto(t, "wait")
    /\ UNCHANGED <<registry, client, alive, socket, answer, my, id, overlap>>

\* orTimeout: the future fails after ten seconds, and its entry is removed.
\* (Mutant: there is no timeout.)
NeverExpires(t) == FALSE
Expires(t) == future[t] = "waiting"

FutureTimeout(t) ==
    /\ Expires(t)
    /\ future' = [future EXCEPT ![t] = "failed"]
    /\ pending' = [pending EXCEPT ![my[t]] = Without(@, id[t])]
    /\ UNCHANGED <<registry, ws, lock, nextId, browser, pc, my, id, overlap>>

-----------------------------------------------------------------------------
(* EncryptionInterceptor.intercept and BiDiClient.ensureSession *)

\* The classic command has been forwarded, and BiDi is needed.
Start(t) ==
    /\ pc[t] = "idle"
    /\ Goto(t, "lookup")
    /\ overlap' = (overlap \/ \E c \in Closer : Active(c))
    /\ UNCHANGED <<registry, client, browser, my, id, future>>

LookupUrl(t) ==
    /\ pc[t] = "lookup"
    /\ Goto(t, IF url THEN "compute" ELSE "raised")
    /\ UNCHANGED <<registry, client, browser, my, id, future, overlap>>

\* computeIfAbsent is atomic.
ComputeIfAbsent(t) ==
    /\ pc[t] = "compute"
    /\ map' = IF map = None THEN t ELSE map
    /\ my' = [my EXCEPT ![t] = map']
    /\ Goto(t, "ensure")
    /\ UNCHANGED <<url, client, browser, id, future, overlap>>

\* (Mutant: a socket that is there is not asked for.)
NoSocket(k) == TRUE
HasNoSocket(k) == ws[k] = None

EnsureSession(t) ==
    /\ pc[t] = "ensure"
    /\ lock[my[t]] = None
    /\ IF HasNoSocket(my[t])
       THEN lock' = [lock EXCEPT ![my[t]] = t] /\ Goto(t, "connect")
       ELSE UNCHANGED lock /\ Goto(t, "send")
    /\ UNCHANGED <<registry, ws, nextId, pending, browser, my, id, future, overlap>>

\* The socket opens; from here its listener may be called, though join() has
\* not returned yet.
Connect(t) ==
    /\ pc[t] = "connect"
    /\ alive
    /\ socket' = [socket EXCEPT ![t] = "open"]
    /\ Goto(t, "assign")
    /\ UNCHANGED <<registry, client, alive, request, answer, my, id, future, overlap>>

ConnectFails(t) ==
    /\ pc[t] = "connect"
    /\ lock' = [lock EXCEPT ![my[t]] = None]
    /\ Goto(t, "raised")
    /\ UNCHANGED <<registry, ws, nextId, pending, browser, my, id, future, overlap>>

AssignSocket(t) ==
    /\ pc[t] = "assign"
    /\ ws' = [ws EXCEPT ![my[t]] = t]
    /\ lock' = [lock EXCEPT ![my[t]] = None]
    /\ Goto(t, "send")
    /\ UNCHANGED <<registry, nextId, pending, browser, my, id, future, overlap>>

Join(t) ==
    /\ pc[t] = "wait"
    /\ t \in Command
    /\ Completed(future[t])
    /\ Goto(t, IF future[t] \in Thread THEN "returned" ELSE "raised")
    /\ UNCHANGED <<registry, client, browser, my, id, future, overlap>>

-----------------------------------------------------------------------------
(* EncryptionInterceptor.closeBiDiClient and BiDiClient.close *)

\* The entry is removed in one step.  (Mutant: it is left in the map.)
LeaveEntry == UNCHANGED map
RemoveEntry == map' = None

CloseClient(t) ==
    /\ pc[t] = "idle"
    /\ t = "event" => ~alive
    /\ overlap' = (overlap \/ \E c \in Command : Active(c))
    /\ my' = [my EXCEPT ![t] = map]
    /\ RemoveEntry
    /\ Goto(t, IF map = None THEN "forget" ELSE "enter")
    /\ UNCHANGED <<url, client, browser, id, future>>

Enter(t) ==
    /\ pc[t] = "enter"
    /\ lock[my[t]] = None
    /\ lock' = [lock EXCEPT ![my[t]] = t]
    /\ Goto(t, IF ws[my[t]] # None THEN "send" ELSE "fail")
    /\ UNCHANGED <<registry, ws, nextId, pending, browser, my, id, future, overlap>>

\* session.end is answered, has failed, or the second is over.
EndOfWait(t) ==
    /\ pc[t] = "wait"
    /\ t \in Closer
    /\ Goto(t, "shut")
    /\ UNCHANGED <<registry, client, browser, my, id, future, overlap>>

\* Without a socket sendClose raises a NullPointerException, which leaves close().
Shut(t) ==
    /\ pc[t] = "shut"
    /\ LET s == ws[my[t]] IN
        IF s = None
        THEN /\ lock' = [lock EXCEPT ![my[t]] = None]
             /\ Goto(t, "forget")
             /\ UNCHANGED <<ws, socket>>
        ELSE /\ socket' = [socket EXCEPT ![s] = IF @ = "open" THEN "sent_close" ELSE @]
             /\ ws' = [ws EXCEPT ![my[t]] = None]
             /\ Goto(t, "fail")
             /\ UNCHANGED lock
    /\ UNCHANGED <<registry, nextId, pending, alive, request, answer, my, id, future, overlap>>

CloseFail(t) ==
    /\ pc[t] = "fail"
    /\ FailAll(my[t])
    /\ Goto(t, "clear")
    /\ UNCHANGED <<registry, client, browser, my, id, overlap>>

CloseClear(t) ==
    /\ pc[t] = "clear"
    /\ ClearAll(my[t])
    /\ lock' = [lock EXCEPT ![my[t]] = None]
    /\ Goto(t, "forget")
    /\ UNCHANGED <<registry, ws, nextId, browser, my, id, future, overlap>>

Forget(t) ==
    /\ pc[t] = "forget"
    /\ map' = IF t = "shutdown" THEN None ELSE map
    /\ url' = FALSE
    /\ Goto(t, "done")
    /\ UNCHANGED <<client, browser, my, id, future, overlap>>

-----------------------------------------------------------------------------
Intercept(t) ==
    \/ LookupUrl(t) \/ ComputeIfAbsent(t) \/ EnsureSession(t)
    \/ Connect(t) \/ ConnectFails(t) \/ AssignSocket(t) \/ Send(t) \/ Write(t) \/ Join(t)

Close(t) ==
    \/ Enter(t) \/ Send(t) \/ Write(t) \/ EndOfWait(t)
    \/ Shut(t) \/ CloseFail(t) \/ CloseClear(t) \/ Forget(t)

Next ==
    \/ SessionCreated \/ SessionEnds
    \/ \E r \in request : Execute(r)
    \/ \E a \in answer : OnText(a)
    \/ \E s \in Command : Listener(s)
    \/ \E t \in Command : Start(t) \/ Intercept(t)
    \/ \E t \in Closer : CloseClient(t) \/ Close(t)
    \/ \E t \in Thread : FutureTimeout(t)

Spec == Init /\ [][Next]_vars

\* Threads run, timeouts fire, and the attempt to connect ends one way or the
\* other.  Neither the browser nor the network is fair.
FairSpec ==
    /\ Spec
    /\ \A t \in Command : WF_vars(Intercept(t)) /\ WF_vars(FutureTimeout(t))
    /\ \A t \in Closer : WF_vars(Close(t))

-----------------------------------------------------------------------------
(* Properties *)

\* A command that returns has been executed, and returns its own answer: never
\* that of another command of its client, of session.end, or of one that has
\* timed out (BiDiClient.java:106-120, EncryptionInterceptor.java:137-143).
AnswerFits == \A t \in Command : pc[t] = "returned" => future[t] = t

\* Two threads never build a socket for one client at the same time, and none is
\* built while another one is in use: a client has one socket that it writes to.
OneSocket ==
    \A s, t \in Command :
        /\ s # t
        /\ pc[s] = "assign"
        /\ my[s] = my[t]
        => pc[t] # "assign" /\ ws[my[s]] # t

\* When a session is closed while no command is in progress, nothing of it is
\* left: no client in the map, and no socket that the client would write to.
ClosedIsForgotten ==
    /\ \E t \in Closer : pc[t] = "done"
    /\ \A t \in Closer : ~Active(t)
    /\ ~overlap
    => map = None /\ \A k \in Command : ws[k] = None

\* Every command and every closing comes to an end, though the browser may not
\* answer, the socket may die unnoticed, and all of them share one monitor.
AllEnd == <>[](\A t \in Thread : ~Active(t))
=============================================================================
