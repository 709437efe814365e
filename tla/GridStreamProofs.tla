-------------------------- MODULE GridStreamProofs --------------------------
(***************************************************************************)
(* What is proved of FileStream for every file and every number of         *)
(* attempts: what the backup accepts is the whole file, and it skips only  *)
(* a file that is gone; that both also hold behind the plugin's accept     *)
(* loop and thread pool (GridStream), and that GridStream implements       *)
(* StreamServer.                                                           *)
(***************************************************************************)
EXTENDS GridStream, FiniteSetTheorems, TLAPS


\* The input stream still has the file's last blocks to return.
RestIsSuffix ==
    /\ Len(rest) <= Len(Blocks)
    /\ \A i \in 1..Len(rest) : rest[i] = Blocks[Len(Blocks) - Len(rest) + i]

\* A frame that can be decrypted as the frame with its number carries the block of it.
WireIsRight ==
    \A i \in 1..Len(wire) :
        wire[i].counter < Len(Blocks) => wire[i].block = Blocks[wire[i].counter + 1]

\* While frames are received, the destination holds the first blocks of the file.
DestIsPrefix ==
    pc = "frames" =>
        /\ status = 200
        /\ total <= plainLength
        /\ Len(dest) = total
        /\ \A i \in 1..total : dest[i] = Blocks[i]

\* The length that has been announced stays as it is: the handler is past it.
Announced == status = 200 => handler \in {"open", "read", "idle"}

\* TypeOK, in the parts that the argument needs.
StreamType ==
    /\ disk \in [Dir -> Stored]
    /\ filePath \in Dir
    /\ handler \in HandlerStage
    /\ rest \in Seq(Nat)
    /\ plainLength \in {0, Len(Blocks)}
    /\ wire \in Seq(Frames)
    /\ total \in Nat
    /\ dest \in Seq(Nat)

\* The inductive invariant behind AcceptedIsWhole.
StreamInv ==
    /\ StreamType
    /\ handler = "read" => RestIsSuffix
    /\ WireIsRight
    /\ DestIsPrefix
    /\ Announced
    /\ AcceptedIsWhole

-----------------------------------------------------------------------------
LEMMA StreamInit == Init => StreamInv
BY StreamAssumption
DEF Init, StreamInv, StreamType, WireIsRight, DestIsPrefix, Announced, AcceptedIsWhole, HandlerStage, Dir, Frames

\* The steps that send or receive nothing, on the way to the answer.
Looking == CheckSession \/ FindFile \/ CheckSize \/ SendHeaders \/ LookupFails

LEMMA LookingKeeps == StreamInv /\ Looking => StreamInv'
<1> SUFFICES ASSUME StreamInv, Looking PROVE StreamInv'
  OBVIOUS
<1> USE DEF node, connection, client
<1>1. handler \in {"check", "find", "size", "length"} /\ status # 200 /\ pc # "frames"
  BY DEF StreamInv, Looking, CheckSession, FindFile, CheckSize, SendHeaders, LookupFails, Announced, DestIsPrefix
<1>2. UNCHANGED <<pc, rest, wire, total, dest, disk>> /\ handler' # "read"
  BY DEF Looking, CheckSession, FindFile, CheckSize, SendHeaders, LookupFails, Proceed, Answer
<1>3. StreamType'
  BY DEF StreamInv, StreamType, Looking, CheckSession, FindFile, CheckSize, SendHeaders, LookupFails,
         Proceed, Answer, HandlerStage, Dir
<1>4. Announced'
  BY <1>1 DEF Announced, Looking, CheckSession, FindFile, CheckSize, SendHeaders, LookupFails, Proceed, Answer
<1> QED
  BY <1>1, <1>2, <1>3, <1>4 DEF StreamInv, WireIsRight, DestIsPrefix, AcceptedIsWhole

\* What is appended to the wire is a right frame or the text of an error.
LEMMA AppendKeeps ==
    ASSUME WireIsRight, wire \in Seq(Frames), NEW frame \in Frames, wire' = Append(wire, frame),
           frame.counter < Len(Blocks) => frame.block = Blocks[frame.counter + 1]
    PROVE  WireIsRight' /\ wire' \in Seq(Frames)
<1>1. \A i \in 1..Len(wire') : wire'[i] = frame \/ (i \in 1..Len(wire) /\ wire'[i] = wire[i])
  OBVIOUS
<1> QED
  BY <1>1 DEF WireIsRight

\* Taking frames away keeps the others right.
LEMMA RemoveKeeps ==
    ASSUME WireIsRight, \A i \in 1..Len(wire') : \E j \in 1..Len(wire) : wire'[i] = wire[j]
    PROVE  WireIsRight'
<1> SUFFICES ASSUME NEW i \in 1..Len(wire'), wire'[i].counter < Len(Blocks)
             PROVE  wire'[i].block = Blocks[wire'[i].counter + 1]
  BY DEF WireIsRight
<1>1. PICK j \in 1..Len(wire) : wire'[i] = wire[j]
  OBVIOUS
<1> QED
  BY <1>1 DEF WireIsRight

\* The text of an error is no frame that anybody waits for.
LEMMA ErrorTextIsText == ErrorText \in Frames /\ ErrorText.counter = Len(Blocks)
BY StreamAssumption DEF ErrorText, Frames

LEMMA StreamStep == StreamInv /\ [Next]_vars => StreamInv'
<1> SUFFICES ASSUME StreamInv, [Next]_vars PROVE StreamInv'
  OBVIOUS
<1> USE DEF node, connection, client
<1>a. StreamType /\ WireIsRight /\ DestIsPrefix /\ Announced /\ AcceptedIsWhole
  BY DEF StreamInv
<1>1. CASE DeleteDirectory \/ SessionClosed
  <2>1. UNCHANGED <<connection, client>>
    BY <1>1 DEF DeleteDirectory, SessionClosed
  <2>2. disk' \in [Dir -> Stored]
    BY <1>1, <1>a DEF DeleteDirectory, SessionClosed, StreamType, Stored
  <2> QED
    BY <1>a, <2>1, <2>2 DEF StreamInv, StreamType, RestIsSuffix, WireIsRight, DestIsPrefix, Announced, AcceptedIsWhole
<1>2. CASE Looking
  BY <1>2, LookingKeeps
<1>3. CASE Open
  <2>1. UNCHANGED <<disk, filePath, status, plainLength, pc, total, dest>> /\ handler' \in {"read", "idle"}
    BY <1>3 DEF Open, SendError, Proceed
  <2>2. WireIsRight' /\ wire' \in Seq(Frames)
    <3>1. CASE disk[filePath] = "none"
      BY <1>3, <1>a, <3>1, AppendKeeps, ErrorTextIsText, StreamAssumption DEF Open, SendError, StreamType
    <3>2. CASE disk[filePath] # "none"
      BY <1>3, <1>a, <3>2 DEF Open, StreamType, WireIsRight
    <3> QED
      BY <3>1, <3>2
  <2>3. rest' \in Seq(Nat) /\ (handler' = "read" => RestIsSuffix')
    <3>1. CASE disk[filePath] = "none"
      BY <1>3, <1>a, <3>1 DEF Open, StreamType, SendError, Proceed
    <3>2. CASE disk[filePath] # "none"
      <4>1. rest' = Blocks \/ rest' = <<>>
        BY <1>3, <3>2 DEF Open
      <4>2. CASE rest' = Blocks
        BY <4>2, StreamAssumption DEF RestIsSuffix
      <4>3. CASE rest' = <<>>
        BY <4>3, StreamAssumption DEF RestIsSuffix
      <4> QED
        BY <4>1, <4>2, <4>3
    <3> QED
      BY <3>1, <3>2
  <2>4. StreamType'
    BY <1>a, <2>1, <2>2, <2>3 DEF StreamType, HandlerStage
  <2> QED
    BY <1>a, <2>1, <2>2, <2>3, <2>4 DEF StreamInv, DestIsPrefix, Announced, AcceptedIsWhole
<1>4. CASE SendFrame
  <2> DEFINE frame == [counter |-> Len(Blocks) - Len(rest), block |-> Head(rest)]
  <2>1. RestIsSuffix /\ rest \in Seq(Nat) /\ rest # <<>>
    BY <1>4, <1>a DEF StreamInv, SendFrame, StreamType
  <2>2. /\ Head(rest) = rest[1] /\ Len(rest) \in 1..Len(Blocks) /\ Head(rest) \in Nat
        /\ Head(rest) = Blocks[Len(Blocks) - Len(rest) + 1]
    BY <2>1, StreamAssumption DEF RestIsSuffix
  <2>3. frame \in Frames /\ frame.block = Blocks[frame.counter + 1]
    BY <2>2, StreamAssumption DEF Frames
  <2>4. WireIsRight' /\ wire' \in Seq(Frames)
    BY <1>4, <1>a, <2>3, AppendKeeps DEF SendFrame, StreamType
  <2>5. rest' \in Seq(Nat) /\ Len(rest') = Len(rest) - 1 /\ \A i \in 1..Len(rest') : rest'[i] = rest[i + 1]
    BY <1>4, <2>1 DEF SendFrame
  <2>6. RestIsSuffix'
    <3>1. ASSUME NEW i \in 1..Len(rest') PROVE rest'[i] = Blocks[Len(Blocks) - Len(rest') + i]
      <4>1. i + 1 \in 1..Len(rest) /\ rest'[i] = rest[i + 1]
        BY <2>2, <2>5
      <4>2. Len(Blocks) - Len(rest') + i = Len(Blocks) - Len(rest) + (i + 1)
        BY <2>2, <2>5, StreamAssumption
      <4>3. rest[i + 1] = Blocks[Len(Blocks) - Len(rest) + (i + 1)]
        BY <2>1, <4>1 DEF RestIsSuffix
      <4> QED
        BY <4>1, <4>2, <4>3
    <3>2. Len(rest') <= Len(Blocks)
      BY <2>2, <2>5, StreamAssumption
    <3> QED
      BY <3>1, <3>2 DEF RestIsSuffix
  <2>7. UNCHANGED <<disk, handler, filePath, status, plainLength, pc, total, dest>>
    BY <1>4 DEF SendFrame
  <2> QED
    BY <1>a, <2>4, <2>5, <2>6, <2>7 DEF StreamInv, StreamType, DestIsPrefix, Announced, AcceptedIsWhole
<1>5. CASE ReadFails
  <2>1. WireIsRight' /\ wire' \in Seq(Frames)
    BY <1>5, <1>a, AppendKeeps, ErrorTextIsText, StreamAssumption DEF ReadFails, SendError, StreamType
  <2>2. UNCHANGED <<disk, filePath, rest, status, plainLength, pc, total, dest>> /\ handler' = "idle"
    BY <1>5 DEF ReadFails, SendError, Proceed
  <2> QED
    BY <1>a, <2>1, <2>2 DEF StreamInv, StreamType, HandlerStage, DestIsPrefix, Announced, AcceptedIsWhole
<1>6. CASE Finish
  BY <1>6 DEF Finish, Proceed, StreamInv, StreamType, HandlerStage, WireIsRight, DestIsPrefix, Announced,
              AcceptedIsWhole
<1>7. CASE Break
  <2>1. PICK n \in 0..Len(wire) : wire' = SubSeq(wire, 1, n)
    BY <1>7 DEF Break
  <2>2. wire' \in Seq(Frames) /\ Len(wire') = n /\ \A i \in 1..n : wire'[i] = wire[i]
    BY <1>a, <2>1 DEF StreamType
  <2>3. WireIsRight'
    BY <1>a, <2>1, <2>2, RemoveKeeps DEF StreamType
  <2>4. UNCHANGED <<disk, filePath, rest, plainLength, pc, total, dest>> /\ handler' = "idle"
    BY <1>7 DEF Break, Proceed
  <2>5. pc = "frames" => status' = status
    BY <1>7 DEF Break
  <2> QED
    BY <1>a, <2>2, <2>3, <2>4, <2>5 DEF StreamInv, StreamType, HandlerStage, DestIsPrefix, Announced, AcceptedIsWhole
<1>8. CASE Request
  <2>1. wire' = <<>> /\ status' = 0 /\ pc' = "response" /\ handler' = "check"
        /\ UNCHANGED <<disk, filePath, rest, plainLength, total, dest>>
    BY <1>8 DEF Request, Goto, Proceed
  <2> QED
    BY <1>a, <2>1 DEF StreamInv, StreamType, HandlerStage, WireIsRight, DestIsPrefix, Announced, AcceptedIsWhole
<1>9. CASE Response
  <2>1. total' = 0 /\ UNCHANGED <<disk, filePath, rest, plainLength, handler, wire, status>>
    BY <1>9 DEF Response
  <2>2. CASE status = 200
    <3>1. pc' = "frames" /\ dest' = <<>>
      BY <1>9, <2>2 DEF Response, Goto, OpenTruncating
    <3> QED
      BY <1>a, <2>1, <2>2, <3>1, StreamAssumption
      DEF StreamInv, StreamType, RestIsSuffix, WireIsRight, DestIsPrefix, Announced, AcceptedIsWhole
  <2>3. CASE status # 200
    <3>1. pc' = "raised" /\ dest' = dest
      BY <1>9, <2>3 DEF Response, Goto
    <3> QED
      BY <1>a, <2>1, <3>1 DEF StreamInv, StreamType, RestIsSuffix, WireIsRight, DestIsPrefix, Announced, AcceptedIsWhole
  <2> QED
    BY <2>2, <2>3
<1>10. CASE ReceiveFrame
  <2>1. /\ pc = "frames" /\ total < plainLength /\ wire # <<>> /\ Head(wire).counter = total
        /\ dest' = Append(dest, Head(wire).block) /\ total' = total + 1 /\ wire' = Tail(wire)
        /\ UNCHANGED <<disk, handler, filePath, rest, status, plainLength, pc>>
    BY <1>10 DEF ReceiveFrame, Decrypts
  <2>2. Head(wire) = wire[1] /\ Head(wire) \in Frames /\ 1 \in 1..Len(wire)
    BY <1>a, <2>1 DEF StreamType
  <2>3. total \in Nat /\ plainLength \in {0, Len(Blocks)} /\ Len(Blocks) \in Nat
    BY <1>a, StreamAssumption DEF StreamType
  <2>4. Head(wire).block = Blocks[total + 1] /\ Head(wire).block \in Nat
    BY <1>a, <2>1, <2>2, <2>3 DEF WireIsRight, Frames
  <2>5. wire' \in Seq(Frames) /\ WireIsRight'
    <3>1. wire' \in Seq(Frames) /\ Len(wire') = Len(wire) - 1 /\ \A i \in 1..Len(wire') : wire'[i] = wire[i + 1]
      BY <1>a, <2>1 DEF StreamType
    <3>2. \A i \in 1..Len(wire') : i + 1 \in 1..Len(wire)
      BY <1>a, <2>1, <3>1 DEF StreamType
    <3> QED
      BY <1>a, <3>1, <3>2, RemoveKeeps
  <2>6. dest \in Seq(Nat) /\ Len(dest) = total /\ \A i \in 1..total : dest[i] = Blocks[i]
    BY <1>a, <2>1 DEF StreamType, DestIsPrefix
  <2>7. /\ dest' \in Seq(Nat) /\ Len(dest') = total'
        /\ \A i \in 1..total' : dest'[i] = Blocks[i]
    BY <2>1, <2>3, <2>4, <2>6
  <2>8. DestIsPrefix'
    BY <1>a, <2>1, <2>3, <2>7 DEF DestIsPrefix
  <2> QED
    BY <1>a, <2>1, <2>3, <2>5, <2>7, <2>8 DEF StreamInv, StreamType, RestIsSuffix, Announced, AcceptedIsWhole
<1>11. CASE ReceiveText \/ EndOfStream
  <2>1. pc' \in {"failed", "raised"} /\ UNCHANGED <<disk, handler, filePath, rest, status, plainLength, wire, total, dest>>
    BY <1>11 DEF ReceiveText, EndOfStream, Goto
  <2> QED
    BY <1>a, <2>1 DEF StreamInv, StreamType, RestIsSuffix, WireIsRight, DestIsPrefix, Announced, AcceptedIsWhole
<1>12. CASE Complete
  <2>1. /\ pc = "frames" /\ total >= plainLength /\ pc' = (IF dest # <<>> THEN "accepted" ELSE "skipped")
        /\ UNCHANGED <<disk, handler, filePath, rest, status, plainLength, wire, total, dest>>
    BY <1>12 DEF Complete, Goto
  <2>2. dest # <<>> => dest = Blocks
    <3>1. /\ dest \in Seq(Nat) /\ Blocks \in Seq(Nat) /\ Len(dest) = total /\ total = plainLength
          /\ \A i \in 1..total : dest[i] = Blocks[i]
      BY <1>a, <2>1, StreamAssumption DEF DestIsPrefix, StreamType
    <3>2. plainLength = 0 => dest = <<>>
      BY <3>1
    <3>3. plainLength = Len(Blocks) => dest = Blocks
      BY <3>1
    <3> QED
      BY <1>a, <3>2, <3>3 DEF StreamType
  <2>3. AcceptedIsWhole'
    BY <2>1, <2>2 DEF AcceptedIsWhole
  <2> QED
    BY <1>a, <2>1, <2>3 DEF StreamInv, StreamType, RestIsSuffix, WireIsRight, DestIsPrefix, Announced
<1>13. CASE Retry
  <2>1. /\ pc' \in {"request", "raised"} /\ handler' = "idle"
        /\ UNCHANGED <<disk, filePath, rest, status, plainLength, wire, total, dest>>
    BY <1>13 DEF Retry, Goto, Proceed
  <2> QED
    BY <1>a, <2>1 DEF StreamInv, StreamType, HandlerStage, WireIsRight, DestIsPrefix, Announced, AcceptedIsWhole
<1>14. CASE UNCHANGED vars
  BY <1>14 DEF vars, StreamInv, StreamType, RestIsSuffix, WireIsRight, DestIsPrefix, Announced, AcceptedIsWhole
<1> QED
  BY <1>1, <1>2, <1>3, <1>4, <1>5, <1>6, <1>7, <1>8, <1>9, <1>10, <1>11, <1>12, <1>13, <1>14
  DEF Next, Handler, Client, Looking

\* What the backup accepts is the whole file (backup.py:283-311), whatever its
\* length, however many attempts are made, and wherever the connection breaks,
\* a read fails or the session is closed.
THEOREM StreamIsWhole == Spec => []AcceptedIsWhole
<1>1. StreamInv => AcceptedIsWhole
  BY DEF StreamInv
<1> QED
  BY StreamInit, StreamStep, <1>1, PTL DEF Spec

-----------------------------------------------------------------------------
(* TypeOK: what StreamInv leaves to be said *)

\* The variables that StreamType does not mention, and the bound of total.
RestTyped ==
    /\ known \in BOOLEAN
    /\ status \in {0, 200, 403, 404, 500}
    /\ pc \in {"request", "response", "frames", "failed"} \cup Outcome
    /\ attempt \in 1..max_retries
    /\ total \in 0..Len(Blocks)

LEMMA RestTypedInit == Init => RestTyped
BY StreamAssumption DEF Init, RestTyped

LEMMA RestTypedStep == StreamInv /\ RestTyped /\ [Next]_vars => RestTyped'
<1> SUFFICES ASSUME StreamInv, RestTyped, [Next]_vars PROVE RestTyped'
  OBVIOUS
<1> USE DEF node, connection, client
<1>1. CASE DeleteDirectory \/ SessionClosed
  <2>1. known' \in BOOLEAN
    BY <1>1, Zenon DEF DeleteDirectory, SessionClosed, RestTyped
  <2>2. UNCHANGED <<status, pc, attempt, total>>
    BY <1>1 DEF DeleteDirectory, SessionClosed
  <2> QED
    BY <2>1, <2>2, Zenon DEF RestTyped
<1>2. CASE Looking
  BY <1>2 DEF Looking, CheckSession, FindFile, CheckSize, SendHeaders, LookupFails, Answer, RestTyped
<1>3. CASE Open \/ SendFrame \/ ReadFails \/ Finish
  BY <1>3 DEF Open, SendFrame, ReadFails, Finish, RestTyped
<1>4. CASE Break
  BY <1>4 DEF Break, RestTyped
<1>5. CASE Request \/ ReceiveText \/ EndOfStream \/ Complete
  BY <1>5 DEF Request, ReceiveText, EndOfStream, Complete, Goto, Outcome, RestTyped
<1>6. CASE Response
  BY <1>6, StreamAssumption DEF Response, Goto, Outcome, RestTyped
<1>7. CASE ReceiveFrame
  <2>1. total < plainLength /\ total' = total + 1 /\ UNCHANGED <<known, status, pc, attempt>>
    BY <1>7 DEF ReceiveFrame
  <2>2. total \in Nat /\ plainLength \in {0, Len(Blocks)} /\ Len(Blocks) \in Nat
    BY StreamAssumption DEF StreamInv, StreamType
  <2> QED
    BY <2>1, <2>2 DEF RestTyped
<1>8. CASE Retry
  BY <1>8, StreamAssumption DEF Retry, AttemptLeft, NextAttempt, Goto, Outcome, RestTyped
<1>9. CASE UNCHANGED vars
  BY <1>9 DEF vars, RestTyped
<1> QED
  BY <1>1, <1>2, <1>3, <1>4, <1>5, <1>6, <1>7, <1>8, <1>9 DEF Next, Handler, Client, Looking

\* Every reachable state of _stream_download, its retries and StreamHandler.serve is
\* well typed: no more blocks than the file has, no attempt past max_retries.
THEOREM StreamTyped == Spec => []TypeOK
<1>1. StreamInv /\ RestTyped => TypeOK
  BY DEF StreamInv, StreamType, RestTyped, TypeOK
<1> QED
  BY StreamInit, StreamStep, RestTypedInit, RestTypedStep, <1>1, PTL DEF Spec

-----------------------------------------------------------------------------
(* SkippedIsGone *)

\* Only the session's directory has ever held the file with its contents, and a
\* length of zero was announced only because the file has gone from there.
Gone ==
    /\ disk["session"] \in {"full", "none"}
    /\ disk["leftover"] # "full"
    /\ handler = "length" => filePath = "session"
    /\ status = 200 /\ plainLength = 0 => disk["session"] = "none"
    /\ SkippedIsGone

LEMMA GoneInit == Init => Gone
BY DEF Init, Gone, SkippedIsGone

LEMMA GoneStep == StreamInv /\ Gone /\ [Next]_vars => Gone'
<1> SUFFICES ASSUME StreamInv, Gone, [Next]_vars PROVE Gone'
  OBVIOUS
<1> USE DEF node, connection, client
<1>a. disk \in [Dir -> Stored] /\ filePath \in Dir /\ plainLength \in {0, Len(Blocks)} /\ Blocks \in Seq(Nat) /\ Len(Blocks) > 0
  BY StreamAssumption DEF StreamInv, StreamType
<1>1. CASE DeleteDirectory
  <2>1. disk' = [disk EXCEPT !["session"] = "none"] /\ UNCHANGED <<handler, filePath, status, plainLength, pc>>
    BY <1>1 DEF DeleteDirectory
  <2>2. disk'["session"] = "none" /\ disk'["leftover"] = disk["leftover"]
    BY <1>a, <2>1 DEF Dir
  <2> QED
    BY <2>1, <2>2 DEF Gone, SkippedIsGone
<1>2. CASE CheckSize
  <2>1. handler' = "length" => disk[filePath] = "full"
    BY <1>2 DEF CheckSize, IsServable, Proceed, Answer
  <2>2. disk[filePath] = "full" => filePath = "session"
    BY <1>a DEF Gone, Dir
  <2>3. /\ UNCHANGED <<disk, filePath, plainLength, pc>>
        /\ status' = 200 => status = 200
    BY <1>2 DEF CheckSize, Proceed, Answer
  <2> QED
    BY <2>1, <2>2, <2>3 DEF Gone, SkippedIsGone
<1>3. CASE SendHeaders
  <2>1. /\ filePath = "session" /\ plainLength' = (IF disk[filePath] = "full" THEN Len(Blocks) ELSE 0)
        /\ handler' = "open" /\ UNCHANGED <<disk, filePath, pc>>
    BY <1>3 DEF SendHeaders, Proceed, Gone
  <2>2. plainLength' = 0 => disk["session"] # "full"
    BY <1>a, <2>1
  <2> QED
    BY <2>1, <2>2 DEF Gone, SkippedIsGone
<1>4. CASE CheckSession \/ FindFile \/ LookupFails
  <2>1. /\ handler' # "length" /\ UNCHANGED <<disk, plainLength, pc>>
        /\ status' = 200 => status = 200
    BY <1>4 DEF CheckSession, FindFile, LookupFails, Proceed, Answer
  <2> QED
    BY <2>1 DEF Gone, SkippedIsGone
<1>5. CASE Open \/ SendFrame \/ ReadFails \/ Finish
  <2>1. handler' # "length" /\ UNCHANGED <<disk, status, plainLength, pc>>
    BY <1>5 DEF Open, SendFrame, ReadFails, Finish, SendError, Proceed
  <2> QED
    BY <2>1 DEF Gone, SkippedIsGone
<1>6. CASE Break
  <2>1. /\ handler' # "length" /\ UNCHANGED <<disk, plainLength, pc>>
        /\ status' = 200 => status = 200
    BY <1>6 DEF Break, Proceed
  <2> QED
    BY <2>1 DEF Gone, SkippedIsGone
<1>7. CASE Request \/ Response \/ ReceiveText \/ EndOfStream \/ Retry
  <2>1. /\ handler' = "length" => handler = "length"
        /\ UNCHANGED <<disk, filePath, plainLength>>
        /\ status' = 200 => status = 200
        /\ pc' # "skipped"
    BY <1>7 DEF Request, Response, ReceiveText, EndOfStream, Retry, Goto, Proceed
  <2> QED
    BY <2>1 DEF Gone, SkippedIsGone
<1>8. CASE Complete
  <2>1. /\ pc = "frames" /\ total >= plainLength /\ (pc' = "skipped" => dest = <<>>)
        /\ UNCHANGED <<disk, handler, filePath, status, plainLength>>
    BY <1>8 DEF Complete, Goto
  <2>2. status = 200 /\ Len(dest) = total
    BY <2>1 DEF StreamInv, DestIsPrefix
  <2>3. dest = <<>> => plainLength = 0
    BY <1>a, <2>1, <2>2
  <2> QED
    BY <2>1, <2>2, <2>3 DEF Gone, SkippedIsGone
<1>9. CASE SessionClosed \/ ReceiveFrame \/ UNCHANGED vars
  <2>1. UNCHANGED <<disk, handler, filePath, status, plainLength, pc>>
    BY <1>9 DEF SessionClosed, ReceiveFrame, vars
  <2> QED
    BY <2>1 DEF Gone, SkippedIsGone
<1> QED
  BY <1>1, <1>2, <1>3, <1>4, <1>5, <1>6, <1>7, <1>8, <1>9 DEF Next, Handler, Client

\* backup.py:305-308 against StreamHandler's two looks at the file: whatever else
\* lies on the node under its name, a file is skipped only when it is gone.
THEOREM SkippedWasGone == Spec => []SkippedIsGone
<1>1. Gone => SkippedIsGone
  BY DEF Gone
<1> QED
  BY StreamInit, StreamStep, GoneInit, GoneStep, <1>1, PTL DEF Spec

-----------------------------------------------------------------------------
(* GridStream: the same behind the accept loop *)

\* Each step of the composition is a step of the stream, or leaves it alone.
LEMMA GridStep == [GridNext]_gridVars => [Next]_vars
<1> SUFFICES ASSUME [GridNext]_gridVars PROVE [Next]_vars
    OBVIOUS
<1>1. CASE GridHandler
    BY <1>1 DEF GridHandler, Apart, Next
<1>2. CASE GridFault
    BY <1>2 DEF GridFault, Apart, Next
<1>3. CASE GridClient
    BY <1>3 DEF GridClient, GridRequest, Apart, Next, Client
<1>4. CASE GridAcceptor
    BY <1>4 DEF GridAcceptor
<1>5. CASE GridLifecycle
    BY <1>5 DEF GridLifecycle
<1>6. CASE \E c \in 1..max_retries : GridWork(c)
    BY <1>6 DEF GridWork
<1>7. CASE UNCHANGED gridVars
    BY <1>7 DEF gridVars
<1> QED
    BY <1>1, <1>2, <1>3, <1>4, <1>5, <1>6, <1>7 DEF GridNext

\* backup.py:232-311 against StreamHandler and FileStreamPlugin: what the backup
\* accepts is the whole file, though an attempt may be refused, wait for a thread,
\* or be caught in the accept loop when the plugin is closed.
THEOREM GridStreamIsWhole == GridSpec => []AcceptedIsWhole
<1>1. GridInit => Init
    BY DEF GridInit
<1>2. QED
    BY <1>1, GridStep, StreamIsWhole, PTL DEF GridSpec, Spec

\* backup.py:305-308: nor is a file skipped behind the accept loop unless it is gone.
THEOREM GridSkippedWasGone == GridSpec => []SkippedIsGone
<1>1. GridInit => Init
    BY DEF GridInit
<1>2. QED
    BY <1>1, GridStep, SkippedWasGone, PTL DEF GridSpec, Spec

-----------------------------------------------------------------------------
(* The plugin behind the attempts is StreamServer. *)

\* The attempts are numbered from 1 to max_retries, so that each is a connection.
AttemptInRange == attempt \in 1..max_retries

LEMMA AttemptInit == Init => AttemptInRange
BY StreamAssumption DEF Init, AttemptInRange

LEMMA AttemptKeeps == AttemptInRange /\ [Next]_vars => AttemptInRange'
<1> SUFFICES ASSUME AttemptInRange, [Next]_vars PROVE AttemptInRange'
    OBVIOUS
<1>1. CASE Retry
    BY <1>1, StreamAssumption DEF Retry, AttemptLeft, NextAttempt, AttemptInRange
<1>2. CASE UNCHANGED attempt
    BY <1>2 DEF AttemptInRange
<1>3. CASE DeleteDirectory \/ SessionClosed \/ Handler \/ LookupFails \/ ReadFails \/ Break
  <2>1. UNCHANGED attempt
      BY <1>3 DEF DeleteDirectory, SessionClosed, Handler, LookupFails, ReadFails, Break, client,
          CheckSession, FindFile, CheckSize, SendHeaders, Open, SendFrame, Finish
  <2> QED
      BY <2>1, <1>2
<1>4. CASE Request \/ Response \/ ReceiveFrame \/ ReceiveText \/ EndOfStream \/ Complete
  <2>1. UNCHANGED attempt
      BY <1>4 DEF Request, Response, ReceiveFrame, ReceiveText, EndOfStream, Complete
  <2> QED
      BY <2>1, <1>2
<1>5. CASE UNCHANGED vars
    BY <1>5, <1>2 DEF vars, client
<1> QED
    BY <1>1, <1>3, <1>4, <1>5 DEF Next, Client

\* Each step of the composition is a step of the plugin, or leaves it alone.
LEMMA ServerStep == AttemptInRange /\ [GridNext]_gridVars => [Server!Next]_(Server!vars)
<1> SUFFICES ASSUME AttemptInRange, [GridNext]_gridVars PROVE [Server!Next]_(Server!vars)
    OBVIOUS
<1>1. CASE UNCHANGED pool
    BY <1>1 DEF pool, Server!vars
<1>2. CASE GridHandler \/ GridFault
    BY <1>1, <1>2 DEF GridHandler, GridFault, Apart
<1>3. CASE GridClient
  <2>1. CASE GridRequest
      BY <2>1 DEF GridRequest, AttemptInRange, Server!Next
  <2> QED
      BY <1>1, <1>3, <2>1 DEF GridClient, Apart
<1>4. CASE GridAcceptor
    BY <1>4 DEF GridAcceptor, Server!Next
<1>5. CASE GridLifecycle
    BY <1>5 DEF GridLifecycle, Server!Next
<1>6. CASE \E c \in 1..max_retries : GridWork(c)
    BY <1>6 DEF GridWork, Server!Next
<1>7. CASE UNCHANGED gridVars
    BY <1>1, <1>7 DEF gridVars
<1> QED
    BY <1>2, <1>3, <1>4, <1>5, <1>6, <1>7 DEF GridNext

\* FileStreamPlugin.java:81-122: the composition implements StreamServer, so that
\* its connections and accept loop take no step that the plugin does not have.
THEOREM PluginIsStreamServer == GridSpec => Server!Spec
<1>1. GridInit => Server!Init /\ AttemptInRange
    BY AttemptInit DEF GridInit
<1>2. QED
    BY <1>1, AttemptKeeps, GridStep, ServerStep, PTL DEF GridSpec, Server!Spec

-----------------------------------------------------------------------------
(* The plugin's own state *)

LEMMA ServerCardinality == \A S : Server!Cardinality(S) = Cardinality(S)
BY Zenon DEF Server!Cardinality, Cardinality

LEMMA ServerInitTyped == Server!Init => Server!TypeOK
BY FS_EmptySet, ServerCardinality DEF Server!Init, Server!TypeOK

LEMMA ServerStepTyped == Server!TypeOK /\ [Server!Next]_(Server!vars) => Server!TypeOK'
<1> SUFFICES ASSUME Server!TypeOK, [Server!Next]_(Server!vars) PROVE Server!TypeOK'
    OBVIOUS
<1> USE DEF Server!TypeOK
<1>1. CASE Server!Initialize
    BY <1>1 DEF Server!Initialize
<1>2. CASE Server!Close
    BY <1>2 DEF Server!Close, Server!CloseStep
<1>3. CASE Server!CheckRunning \/ Server!AcceptFails
    BY <1>3 DEF Server!CheckRunning, Server!AcceptFails
<1>4. CASE Server!Submit
    BY <1>4 DEF Server!Submit
<1>5. ASSUME NEW c \in 1..max_retries, Server!Accept(c) PROVE Server!TypeOK'
  <2>1. Cardinality({c}) = 1
      BY FS_Singleton, Zenon
  <2>2. Server!Cardinality({c}) <= 1
      BY <2>1, ServerCardinality
  <2>3. /\ accepted' = {c} /\ acceptor' = "submit" /\ server' = server
        /\ conn' = [conn EXCEPT ![c] = "accepted"]
      BY <1>5 DEF Server!Accept
  <2> QED
      BY <2>2, <2>3
<1>6. ASSUME NEW c \in 1..max_retries, Server!Connect(c) \/ Server!Work(c) PROVE Server!TypeOK'
    BY <1>6 DEF Server!Connect, Server!Work
<1>7. CASE UNCHANGED Server!vars
    BY <1>7 DEF Server!vars
<1> QED
    BY <1>1, <1>2, <1>3, <1>4, <1>5, <1>6, <1>7 DEF Server!Next, Server!Acceptor

\* The states of the stream and of FileStreamPlugin's loop, pool and connections are
\* well typed: the loop has at most one connection in its hands.
THEOREM GridTyped == GridSpec => []GridTypeOK
<1>1. GridInit => Init /\ Server!Init
    BY DEF GridInit
<1>2. Spec => []TypeOK
    BY StreamTyped
<1>3. GridSpec => Spec
    BY <1>1, GridStep, PTL DEF GridSpec, Spec
<1>4. Server!Spec => []Server!TypeOK
    BY ServerInitTyped, ServerStepTyped, PTL DEF Server!Spec
<1>5. TypeOK /\ Server!TypeOK => GridTypeOK
    BY DEF GridTypeOK
<1> QED
    BY <1>2, <1>3, <1>4, <1>5, PluginIsStreamServer, PTL

\* The accept loop has a task of the pool as long as the server runs.
LoopRuns == server = "running" => acceptor # "ended"

LEMMA LoopRunsStep == LoopRuns /\ [Server!Next]_(Server!vars) => LoopRuns'
BY DEF LoopRuns, Server!Next, Server!vars, Server!Initialize, Server!Close, Server!CloseStep, Server!Acceptor,
       Server!CheckRunning, Server!StillOn, Server!AcceptFails, Server!Submit, Server!Accept, Server!Connect,
       Server!Work

\* FileStreamPlugin.java:81-104: no accept that fails, no full pool and no handler ends
\* the loop before close() is called.
THEOREM LoopNeverStops == GridSpec => []LoopRuns
<1>1. Server!Init => LoopRuns
    BY DEF Server!Init, LoopRuns
<1>2. Server!Spec => []LoopRuns
    BY <1>1, LoopRunsStep, PTL DEF Server!Spec
<1> QED
    BY <1>2, PluginIsStreamServer, PTL
=============================================================================
