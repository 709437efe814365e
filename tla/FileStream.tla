----------------------------- MODULE FileStream -----------------------------
(***************************************************************************)
(* The stream of one finished download from the Grid to the backup:        *)
(* _stream_download of backup.py with the retries that                     *)
(* _take_completed_download makes, against StreamHandler.serve of the      *)
(* file-stream plugin, while the Grid may close the session (which the     *)
(* stream does not keep alive), a read of the file may fail and the        *)
(* connection may break.                                                   *)
(*                                                                         *)
(* A file is a sequence of blocks, of which each frame carries one.  The   *)
(* cipher is abstracted to what it tells the receiver: whether the bytes   *)
(* it takes for a frame are the frame with the number it expects.  The     *)
(* lengths that the code counts in bytes are counted in blocks.            *)
(***************************************************************************)
EXTENDS Naturals, Sequences

CONSTANTS
    Blocks,         \* the file's contents, a sequence of blocks
    max_retries     \* attempts at the file

ASSUME StreamAssumption ==
    /\ Blocks \in Seq(Nat)
    /\ Blocks # <<>>
    /\ max_retries \in Nat \ {0}

VARIABLES
    \* the Grid's node
    known,      \* the session is in sessionDirs
    disk,       \* what is stored under the file's name, by directory
    \* the connection and its handler
    handler,    \* what the handler does next
    filePath,   \* the directory of the file that findFile has found
    rest,       \* what the open input stream has still to return
    status,     \* of the response, 0 before there is one
    plainLength,
    wire,       \* frames and other text sent and not received yet
    \* the client
    pc,
    attempt,
    total,      \* blocks received in this attempt, and the counter of the next frame
    dest        \* the contents of the destination file

node == <<known, disk>>
connection == <<handler, filePath, rest, status, plainLength, wire>>
client == <<pc, attempt, total, dest>>
vars == <<node, connection, client>>

\* The directory of the session, and one that a node left when it was killed: it
\* may hold the empty file with which Firefox reserves a name.
Dir == {"session", "leftover"}
Stored == {"none", "empty", "full"}

HandlerStage == {"idle", "check", "find", "size", "length", "open", "read"}
Outcome == {"accepted", "skipped", "raised"}

Frames == [counter : 0..Len(Blocks), block : Nat]
ErrorText == [counter |-> Len(Blocks), block |-> 0]

TypeOK ==
    /\ known \in BOOLEAN
    /\ disk \in [Dir -> Stored]
    /\ handler \in HandlerStage
    /\ filePath \in Dir
    /\ rest \in Seq(Nat)
    /\ status \in {0, 200, 403, 404, 500}
    /\ plainLength \in {0, Len(Blocks)}
    /\ wire \in Seq(Frames)
    /\ pc \in {"request", "response", "frames", "failed"} \cup Outcome
    /\ attempt \in 1..max_retries
    /\ total \in 0..Len(Blocks)
    /\ dest \in Seq(Nat)

Init ==
    /\ known = TRUE
    /\ disk \in [Dir -> Stored]
    /\ disk["session"] = "full" /\ disk["leftover"] # "full"
    /\ handler = "idle"
    /\ filePath = "session"
    /\ rest = <<>>
    /\ status = 0
    /\ plainLength = 0
    /\ wire = <<>>
    /\ pc = "request"
    /\ attempt = 1
    /\ total = 0
    /\ dest = <<>>

-----------------------------------------------------------------------------
(* The node *)

\* The Grid closes a session that has been without a command for too long: its
\* directory is deleted, and an event tells the plugin.
DeleteDirectory ==
    /\ disk["session"] # "none"
    /\ disk' = [disk EXCEPT !["session"] = "none"]
    /\ UNCHANGED <<known, connection, client>>

SessionClosed ==
    /\ known
    /\ known' = FALSE
    /\ UNCHANGED <<disk, connection, client>>

-----------------------------------------------------------------------------
(* StreamHandler *)

Proceed(stage) == handler' = stage
Answer(code) == status' = code /\ handler' = "idle"

CheckSession ==
    /\ handler = "check"
    /\ IF known THEN Proceed("find") /\ UNCHANGED status ELSE Answer(403)
    /\ UNCHANGED <<node, filePath, rest, plainLength, wire, client>>

\* The files of this name, in the order in which the file system lists directories.
FindFile ==
    /\ handler = "find"
    /\ \/ /\ \E d \in Dir : disk[d] # "none" /\ filePath' = d
          /\ Proceed("size")
          /\ UNCHANGED status
       \/ /\ \A d \in Dir : disk[d] = "none"
          /\ Answer(404)
          /\ UNCHANGED filePath
    /\ UNCHANGED <<node, rest, plainLength, wire, client>>

\* The file exists and is not empty.  (Mutant: an empty one will do.)
ExistsAtAll == disk[filePath] # "none"
IsServable == disk[filePath] = "full"

CheckSize ==
    /\ handler = "size"
    /\ IF IsServable THEN Proceed("length") /\ UNCHANGED status ELSE Answer(404)
    /\ UNCHANGED <<node, filePath, rest, plainLength, wire, client>>

\* File.length() looks the path up again, and is 0 for a file that is gone.
SendHeaders ==
    /\ handler = "length"
    /\ plainLength' = IF disk[filePath] = "full" THEN Len(Blocks) ELSE 0
    /\ status' = 200
    /\ Proceed("open")
    /\ UNCHANGED <<node, filePath, rest, wire, client>>

\* An exception is answered with status 500 ...
LookupFails ==
    /\ handler \in {"find", "size", "length"}
    /\ Answer(500)
    /\ UNCHANGED <<node, filePath, rest, plainLength, wire, client>>

\* ... wherever the response has got to: after the headers that is text where a
\* frame should be.
SendError ==
    /\ wire' = Append(wire, ErrorText)
    /\ Proceed("idle")

\* newInputStream fails for a file that is gone.  Once the file is open, it can
\* be read though its directory is deleted.
Open ==
    /\ handler = "open"
    /\ IF disk[filePath] = "none"
       THEN SendError /\ UNCHANGED rest
       ELSE /\ rest' = IF disk[filePath] = "full" THEN Blocks ELSE <<>>
            /\ Proceed("read")
            /\ UNCHANGED wire
    /\ UNCHANGED <<node, filePath, status, plainLength, client>>

SendFrame ==
    /\ handler = "read"
    /\ rest # <<>>
    /\ wire' = Append(wire, [counter |-> Len(Blocks) - Len(rest), block |-> Head(rest)])
    /\ rest' = Tail(rest)
    /\ UNCHANGED <<node, handler, filePath, status, plainLength, client>>

ReadFails ==
    /\ handler = "read"
    /\ rest # <<>>
    /\ SendError
    /\ UNCHANGED <<node, filePath, rest, status, plainLength, client>>

Finish ==
    /\ handler = "read"
    /\ rest = <<>>
    /\ Proceed("idle")
    /\ UNCHANGED <<node, filePath, rest, status, plainLength, wire, client>>

\* The connection breaks, and some of what was sent and not read is lost.
Break ==
    /\ handler # "idle"
    /\ \E n \in 0..Len(wire) : wire' = SubSeq(wire, 1, n)
    /\ status' \in IF pc = "response" THEN {status, 0} ELSE {status}
    /\ Proceed("idle")
    /\ UNCHANGED <<node, filePath, rest, plainLength, client>>

-----------------------------------------------------------------------------
(* _stream_download and _take_completed_download *)

Goto(stage) == pc' = stage

\* urllib3 repeats a request that gets no response; one that is repeated is one
\* whose handler begins late.
Request ==
    /\ pc = "request"
    /\ Goto("response")
    /\ Proceed("check")
    /\ status' = 0
    /\ wire' = <<>>
    /\ UNCHANGED <<node, filePath, rest, plainLength, attempt, total, dest>>

\* The destination is opened anew in each attempt.  (Mutant: appended to.)
OpenAppending == dest
OpenTruncating == <<>>

\* No response at all in the end (MaxRetryError) raises like one that is not OK:
\* neither is retried.
Response ==
    /\ pc = "response"
    /\ status # 0 \/ handler = "idle"
    /\ IF status = 200
       THEN Goto("frames") /\ dest' = OpenTruncating
       ELSE Goto("raised") /\ UNCHANGED dest
    /\ total' = 0
    /\ UNCHANGED <<node, connection, attempt>>

\* The tag is right: these are the bytes of the frame with this number.
Decrypts(frame) == frame.counter = total

ReceiveFrame ==
    /\ pc = "frames"
    /\ total < plainLength
    /\ wire # <<>>
    /\ Decrypts(Head(wire))
    /\ dest' = Append(dest, Head(wire).block)
    /\ total' = total + 1
    /\ wire' = Tail(wire)
    /\ UNCHANGED <<node, handler, filePath, rest, status, plainLength, pc, attempt>>

\* The text of an error is taken for a length of more than a gigabyte and the
\* bytes of a frame: either the response ends before its Content-Length, which
\* raises a ProtocolError, or it is cut there and the tag is wrong, which raises.
ReceiveText ==
    /\ pc = "frames"
    /\ total < plainLength
    /\ wire # <<>>
    /\ ~Decrypts(Head(wire))
    /\ pc' \in {"failed", "raised"}
    /\ UNCHANGED <<node, connection, attempt, total, dest>>

\* ProtocolError or ConnectionResetError: the response ends too early.
EndOfStream ==
    /\ pc = "frames"
    /\ total < plainLength
    /\ wire = <<>>
    /\ handler = "idle"
    /\ Goto("failed")
    /\ UNCHANGED <<node, connection, attempt, total, dest>>

\* The file is taken if it is not empty.
Complete ==
    /\ pc = "frames"
    /\ total >= plainLength
    /\ Goto(IF dest # <<>> THEN "accepted" ELSE "skipped")
    /\ UNCHANGED <<node, connection, attempt, total, dest>>

\* (Mutants: one attempt too many; attempts are not counted.)
AttemptTooMany == attempt <= max_retries
AttemptLeft == attempt < max_retries
SameAttempt == attempt
NextAttempt == attempt + 1

\* What the old handler still does goes to a connection that nobody reads.
Retry ==
    /\ pc = "failed"
    /\ IF AttemptLeft
       THEN Goto("request") /\ attempt' = NextAttempt
       ELSE Goto("raised") /\ UNCHANGED attempt
    /\ Proceed("idle")
    /\ UNCHANGED <<node, filePath, rest, status, plainLength, wire, total, dest>>

-----------------------------------------------------------------------------
Handler == CheckSession \/ FindFile \/ CheckSize \/ SendHeaders \/ Open \/ SendFrame \/ Finish
Client == Request \/ Response \/ ReceiveFrame \/ ReceiveText \/ EndOfStream \/ Complete \/ Retry

Next == DeleteDirectory \/ SessionClosed \/ Handler \/ LookupFails \/ ReadFails \/ Break \/ Client

Spec == Init /\ [][Next]_vars

\* A connection that has not broken delivers.
FairSpec == Spec /\ WF_vars(Handler) /\ WF_vars(Client)

-----------------------------------------------------------------------------
(* Properties *)

\* What the backup accepts is the whole file, block for block, after any number
\* of attempts: no text of an error, no leftover of an earlier attempt, no
\* stream that was cut off.
AcceptedIsWhole == pc = "accepted" => dest = Blocks

\* A file is skipped as empty (backup.py:305-308) only if the session has lost
\* it, never because another directory has an empty file of its name.
SkippedIsGone == pc = "skipped" => disk["session"] = "none"

\* The stream ends, with the file or an exception.
StreamEnds == <>(pc \in Outcome)
=============================================================================
