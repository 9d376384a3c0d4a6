---------------------------- MODULE LocalStream -----------------------------
(***************************************************************************)
(* One streaming RPC over the in-process connection: localStream and       *)
(* localClientStream of client/localgrpc/conn.go.                          *)
(*                                                                         *)
(* A client, with one goroutine that sends and one that receives, and the  *)
(* goroutine newStream starts for the handler share two channels of        *)
(* capacity one, a mutex, and three channels that are only ever closed     *)
(* (clientSendDone, headerReady, done).  The handler may send from a       *)
(* goroutine of its own, which it may leave behind when it returns.  The   *)
(* case of a select is any of those that are ready.                        *)
(***************************************************************************)
EXTENDS Naturals, Sequences

CONSTANTS
    MaxMessages,    \* bound: messages sent in each direction
    MaxMetadata     \* bound: times the handler adds to the header or the trailer

ASSUME StreamConstants == MaxMessages \in Nat /\ MaxMetadata \in Nat

VARIABLES
    clientMessages,  \* channel from the client to the handler
    serverMessages,  \* channel from the handler to the client
    clientSendClose, \* the flag, and the closed channel clientSendDone
    finished,        \* the handler has returned
    finishedErr,     \* what it returned: "nil", or "err" for an error or a panic
    done,            \* the channel done is closed
    headerReady,     \* the channel headerReady is closed
    headerSent, header, trailer, \* metadata, as the number of joins made
    cancelled,       \* the stream's context is done
    hpc,             \* where the handler is
    spc,             \* where the handler's sender is
    cspc,            \* where the client's sender is
    crpc,            \* where the client's receiver is
    headerSeen,      \* what the client's Header returned last
    trailerSeen,     \* what updateTrailerOptions copied last
    clientSent, serverGot, \* history: messages SendMsg accepted, RecvMsg returned
    serverSent, clientGot, \* the same from the handler to the client
    serverEOF,       \* history: the handler's RecvMsg returned io.EOF
    leftBehind,      \* history: the handler returned while its sender was in SendMsg
    clientEnd        \* history: how the handler's end first reached RecvMsg

metadata == <<headerReady, headerSent, header, trailer>>
finish   == <<finished, finishedErr, done, leftBehind>>
upstream == <<clientMessages, clientSendClose, clientSent, serverGot, serverEOF>>
downstream == <<serverMessages, serverSent, clientGot>>
client   == <<cspc, crpc, headerSeen, trailerSeen, clientEnd>>
vars     == <<metadata, finish, upstream, downstream, client, cancelled, hpc, spc>>

Unset   == MaxMetadata + 1
Message == 1..MaxMessages
Channel == {<<>>} \cup {<<m>> : m \in Message}  \* capacity 1

TypeOK ==
    /\ clientMessages \in Channel /\ serverMessages \in Channel
    /\ clientSendClose \in BOOLEAN /\ serverEOF \in BOOLEAN
    /\ finished \in BOOLEAN /\ done \in BOOLEAN /\ cancelled \in BOOLEAN
    /\ headerReady \in BOOLEAN /\ headerSent \in BOOLEAN /\ leftBehind \in BOOLEAN
    /\ finishedErr \in {"nil", "err"}
    /\ header \in 0..MaxMetadata /\ trailer \in 0..MaxMetadata
    /\ headerSeen \in 0..Unset /\ trailerSeen \in 0..MaxMetadata
    /\ hpc \in {"run", "mark", "recv", "finish.mark", "finish.close", "over"}
    /\ spc \in {"idle", "mark", "select"}
    /\ cspc \in {"idle", "select"}
    /\ crpc \in {"idle", "select", "update", "header"}
    /\ clientSent \in Seq(Message) /\ serverGot \in Seq(Message)
    /\ serverSent \in Seq(Message) /\ clientGot \in Seq(Message)
    /\ clientEnd \in {"none", "eof", "status"}

\* newLocalStream
Init ==
    /\ clientMessages = <<>> /\ serverMessages = <<>>
    /\ clientSendClose = FALSE /\ finished = FALSE /\ finishedErr = "nil"
    /\ done = FALSE /\ headerReady = FALSE /\ headerSent = FALSE
    /\ header = 0 /\ trailer = 0 /\ cancelled = FALSE
    /\ hpc = "run" /\ spc = "idle" /\ cspc = "idle" /\ crpc = "idle"
    /\ headerSeen = Unset /\ trailerSeen = 0
    /\ clientSent = <<>> /\ serverGot = <<>> /\ serverSent = <<>> /\ clientGot = <<>>
    /\ serverEOF = FALSE /\ leftBehind = FALSE /\ clientEnd = "none"

Next1(s) == Len(s) + 1   \* the next message of a direction

-----------------------------------------------------------------------------
(* The handler. *)

\* SetHeader fails once the header was sent.
SetHeader ==
    /\ hpc = "run" /\ header < MaxMetadata
    /\ ~headerSent
    /\ header' = header + 1
    /\ UNCHANGED <<headerReady, headerSent, trailer, finish, upstream, downstream,
                   client, cancelled, hpc, spc>>

\* SendHeader marks the header sent under the lock, and headerReady after it.
SendHeader ==
    /\ hpc = "run" /\ header < MaxMetadata
    /\ ~headerSent
    /\ header' = header + 1
    /\ headerSent' = TRUE
    /\ hpc' = "mark"
    /\ UNCHANGED <<headerReady, trailer, finish, upstream, downstream, client,
                   cancelled, spc>>

\* markHeaderReady, of SendHeader.
MarkHeaderReady ==
    /\ hpc = "mark"
    /\ headerReady' = TRUE
    /\ hpc' = "run"
    /\ UNCHANGED <<headerSent, header, trailer, finish, upstream, downstream, client,
                   cancelled, spc>>

SetTrailer ==
    /\ hpc = "run" /\ trailer < MaxMetadata
    /\ trailer' = trailer + 1
    /\ UNCHANGED <<headerReady, headerSent, header, finish, upstream, downstream,
                   client, cancelled, hpc, spc>>

TakeClientMessage ==
    /\ clientMessages # <<>>
    /\ serverGot' = serverGot \o clientMessages
    /\ clientMessages' = <<>>
    /\ hpc' = "run"
    /\ UNCHANGED serverEOF

\* receiveClientMessage: a message that is there, or wait for one.
ServerRecv ==
    /\ hpc = "run"
    /\ \/ TakeClientMessage
       \/ /\ clientMessages = <<>>
          /\ hpc' = "recv"
          /\ UNCHANGED <<clientMessages, serverGot, serverEOF>>
    /\ UNCHANGED <<metadata, finish, clientSendClose, clientSent, downstream, client,
                   cancelled, spc>>

\* Mutant: a closed sending side is the end, whatever the channel still holds.
ServerRecvWaitNoDrain ==
    /\ hpc = "recv"
    /\ \/ TakeClientMessage
       \/ /\ clientSendClose
          /\ serverEOF' = TRUE
          /\ hpc' = "run"
          /\ UNCHANGED <<clientMessages, serverGot>>
       \/ /\ cancelled
          /\ hpc' = "run"
          /\ UNCHANGED <<clientMessages, serverGot, serverEOF>>
    /\ UNCHANGED <<metadata, finish, clientSendClose, clientSent, downstream, client,
                   cancelled, spc>>

\* The second select: a message, the end of the client's sending (which looks for
\* a last message before it reports io.EOF), or the context.  Its done case is
\* never ready: the handler receives from its own goroutine.
ServerRecvWait ==
    /\ hpc = "recv"
    /\ \/ TakeClientMessage
       \/ /\ clientSendClose /\ clientMessages = <<>>
          /\ serverEOF' = TRUE
          /\ hpc' = "run"
          /\ UNCHANGED <<clientMessages, serverGot>>
       \/ /\ cancelled
          /\ hpc' = "run"
          /\ UNCHANGED <<clientMessages, serverGot, serverEOF>>
    /\ UNCHANGED <<metadata, finish, clientSendClose, clientSent, downstream, client,
                   cancelled, spc>>

\* The handler returns or panics, and finish records it under the lock.
Return ==
    /\ hpc = "run"
    /\ finished' = TRUE
    /\ leftBehind' = (spc # "idle")
    /\ finishedErr' \in {"nil", "err"}
    /\ hpc' = "finish.mark"
    /\ UNCHANGED <<done, metadata, upstream, downstream, client, cancelled, spc>>

FinishMark ==
    /\ hpc = "finish.mark"
    /\ headerReady' = TRUE
    /\ hpc' = "finish.close"
    /\ UNCHANGED <<headerSent, header, trailer, finish, upstream, downstream, client,
                   cancelled, spc>>

FinishClose ==
    /\ hpc = "finish.close"
    /\ done' = TRUE
    /\ hpc' = "over"
    /\ UNCHANGED <<finished, finishedErr, leftBehind, metadata, upstream, downstream,
                   client, cancelled, spc>>

Handler == SetHeader \/ SendHeader \/ SetTrailer \/ ServerRecv \/ Return
Handling == MarkHeaderReady \/ ServerRecvWait \/ FinishMark \/ FinishClose

-----------------------------------------------------------------------------
(* SendMsg of the handler. *)

\* Mutant: the first message does not freeze the header.
ServerSendKeepsHeaderOpen ==
    /\ spc = "idle" /\ Len(serverSent) < MaxMessages
    /\ ~finished
    /\ spc' = "mark"
    /\ UNCHANGED <<metadata, finish, upstream, downstream, client, cancelled, hpc>>

\* It fails on a stream that is finished and marks the header sent otherwise.
ServerSend ==
    /\ spc = "idle" /\ Len(serverSent) < MaxMessages
    /\ ~finished
    /\ headerSent' = TRUE
    /\ spc' = "mark"
    /\ UNCHANGED <<headerReady, header, trailer, finish, upstream, downstream, client,
                   cancelled, hpc>>

ServerSendMark ==
    /\ spc = "mark"
    /\ headerReady' = TRUE
    /\ spc' = "select"
    /\ UNCHANGED <<headerSent, header, trailer, finish, upstream, downstream, client,
                   cancelled, hpc>>

\* Mutant: SendMsg does not look at done.
ServerSendSelectNotDone ==
    /\ spc = "select"
    /\ \/ /\ serverMessages = <<>>
          /\ serverMessages' = <<Next1(serverSent)>>
          /\ serverSent' = Append(serverSent, Next1(serverSent))
       \/ cancelled /\ UNCHANGED <<serverMessages, serverSent>>
    /\ spc' = "idle"
    /\ UNCHANGED <<metadata, finish, upstream, clientGot, client, cancelled, hpc>>

ServerSendSelect ==
    /\ spc = "select"
    /\ \/ /\ serverMessages = <<>>
          /\ serverMessages' = <<Next1(serverSent)>>
          /\ serverSent' = Append(serverSent, Next1(serverSent))
       \/ cancelled /\ UNCHANGED <<serverMessages, serverSent>>
       \/ done /\ UNCHANGED <<serverMessages, serverSent>>
    /\ spc' = "idle"
    /\ UNCHANGED <<metadata, finish, upstream, clientGot, client, cancelled, hpc>>

-----------------------------------------------------------------------------
(* The client. *)

\* SendMsg reads the flag under the lock; after CloseSend it returns io.EOF.
ClientSend ==
    /\ cspc = "idle" /\ ~clientSendClose /\ Len(clientSent) < MaxMessages
    /\ cspc' = "select"
    /\ UNCHANGED <<metadata, finish, upstream, downstream, crpc, headerSeen,
                   trailerSeen, clientEnd, cancelled, hpc, spc>>

ClientSendSelect ==
    /\ cspc = "select"
    /\ \/ /\ clientMessages = <<>>
          /\ clientMessages' = <<Next1(clientSent)>>
          /\ clientSent' = Append(clientSent, Next1(clientSent))
       \/ cancelled /\ UNCHANGED <<clientMessages, clientSent>>
       \/ done /\ UNCHANGED <<clientMessages, clientSent>>
    /\ cspc' = "idle"
    /\ UNCHANGED <<metadata, finish, clientSendClose, serverGot, serverEOF, downstream,
                   crpc, headerSeen, trailerSeen, clientEnd, cancelled, hpc, spc>>

\* CloseSend, from the goroutine that sends.
CloseSend ==
    /\ cspc = "idle" /\ ~clientSendClose
    /\ clientSendClose' = TRUE
    /\ UNCHANGED <<metadata, finish, clientMessages, clientSent, serverGot, serverEOF,
                   downstream, client, cancelled, hpc, spc>>

TakeServerMessage ==
    /\ serverMessages # <<>>
    /\ clientGot' = clientGot \o serverMessages
    /\ serverMessages' = <<>>
    /\ crpc' = "update"
    /\ UNCHANGED clientEnd

Ends(end) == clientEnd' = IF clientEnd = "none" THEN end ELSE clientEnd

\* receiveServerMessage: a message that is there, or wait for one.
ClientRecv ==
    /\ crpc = "idle"
    /\ \/ TakeServerMessage
       \/ /\ serverMessages = <<>>
          /\ crpc' = "select"
          /\ UNCHANGED <<serverMessages, clientGot, clientEnd>>
    /\ UNCHANGED <<metadata, finish, upstream, serverSent, cspc, headerSeen,
                   trailerSeen, cancelled, hpc, spc>>

\* Mutant: a finished handler is the end, whatever the channel still holds.
ClientRecvSelectNoDrain ==
    /\ crpc = "select"
    /\ \/ TakeServerMessage
       \/ /\ cancelled
          /\ crpc' = "update"
          /\ UNCHANGED <<serverMessages, clientGot, clientEnd>>
       \/ /\ done
          /\ Ends(IF finishedErr = "err" THEN "status" ELSE "eof")
          /\ crpc' = "update"
          /\ UNCHANGED <<serverMessages, clientGot>>
    /\ UNCHANGED <<metadata, finish, upstream, serverSent, cspc, headerSeen,
                   trailerSeen, cancelled, hpc, spc>>

\* The second select: a message, the context, or the end of the handler, which is
\* its error or, once the channel is empty, io.EOF.
ClientRecvSelect ==
    /\ crpc = "select"
    /\ \/ TakeServerMessage
       \/ /\ cancelled
          /\ crpc' = "update"
          /\ UNCHANGED <<serverMessages, clientGot, clientEnd>>
       \/ /\ done /\ finishedErr = "err"
          /\ Ends("status")
          /\ crpc' = "update"
          /\ UNCHANGED <<serverMessages, clientGot>>
       \/ /\ done /\ finishedErr = "nil" /\ serverMessages = <<>>
          /\ Ends("eof")
          /\ crpc' = "update"
          /\ UNCHANGED <<serverMessages, clientGot>>
    /\ UNCHANGED <<metadata, finish, upstream, serverSent, cspc, headerSeen,
                   trailerSeen, cancelled, hpc, spc>>

\* Mutant: an error of RecvMsg leaves the trailer options as they are.
UpdateTrailerUnlessEnded ==
    /\ crpc = "update"
    /\ trailerSeen' = IF clientEnd = "none" THEN trailer ELSE trailerSeen
    /\ crpc' = "idle"
    /\ UNCHANGED <<metadata, finish, upstream, downstream, cspc, headerSeen, clientEnd,
                   cancelled, hpc, spc>>

\* RecvMsg ends with updateTrailerOptions, whatever it returns.
UpdateTrailerOptions ==
    /\ crpc = "update"
    /\ trailerSeen' = trailer
    /\ crpc' = "idle"
    /\ UNCHANGED <<metadata, finish, upstream, downstream, cspc, headerSeen, clientEnd,
                   cancelled, hpc, spc>>

Header ==
    /\ crpc = "idle" /\ headerSeen = Unset
    /\ crpc' = "header"
    /\ UNCHANGED <<metadata, finish, upstream, downstream, cspc, headerSeen,
                   trailerSeen, clientEnd, cancelled, hpc, spc>>

\* Header waits for headerReady, which is closed no later than done.
HeaderSelect ==
    /\ crpc = "header"
    /\ \/ headerReady /\ headerSeen' = header
       \/ cancelled /\ UNCHANGED headerSeen
    /\ crpc' = "idle"
    /\ UNCHANGED <<metadata, finish, upstream, downstream, cspc, trailerSeen, clientEnd,
                   cancelled, hpc, spc>>

\* The stream's context, the caller's or the one SetContext made of it, is cancelled
\* or times out.
Cancel ==
    /\ ~cancelled
    /\ cancelled' = TRUE
    /\ UNCHANGED <<metadata, finish, upstream, downstream, client, hpc, spc>>

Sending   == ServerSendMark \/ ServerSendSelect
Receiving == ClientRecvSelect \/ UpdateTrailerOptions \/ HeaderSelect

Next ==
    \/ Handler \/ Handling \/ ServerSend \/ Sending
    \/ ClientSend \/ ClientSendSelect \/ CloseSend
    \/ ClientRecv \/ Header \/ Receiving \/ Cancel

Spec == Init /\ [][Next]_vars

\* A call on the stream goes on when a case of its select is ready; nothing makes
\* the handler or the client call, nor the handler return.
FairSpec ==
    /\ Spec
    /\ WF_vars(Handling) /\ WF_vars(Sending)
    /\ WF_vars(ClientSendSelect) /\ WF_vars(Receiving)

-----------------------------------------------------------------------------
\* What Header returned to the client is the handler's header for good: nothing
\* is added to a header after a message, SendHeader or the end let the client see it.
HeaderIsFinal == headerSeen # Unset => headerSeen = header

\* Once RecvMsg has told the client that the handler ended, the trailer the client
\* was given is complete.
TrailerComplete == clientEnd # "none" /\ crpc = "idle" => trailerSeen = trailer

\* Each direction is a spool: messages arrive in order and once, and io.EOF comes
\* only when the other side is done sending and all it sent has arrived; a sender
\* the handler left behind may still send after its end, so io.EOF then says nothing.
Upstream == INSTANCE Spool WITH
    Item <- Message, in <- clientSent, out <- serverGot,
    open <- ~clientSendClose, over <- serverEOF
Downstream == INSTANCE Spool WITH
    Item <- Message, in <- serverSent, out <- clientGot,
    open <- ~finished \/ leftBehind, over <- clientEnd = "eof" /\ ~leftBehind
UpstreamSpool == Upstream!Spec
DownstreamSpool == Downstream!Spec

\* When the handler has ended or the context is done, no call on the stream stays
\* blocked: neither the client's, nor that of a sender the handler left behind; and
\* the handler's RecvMsg returns once the client is done sending.
Ended == done \/ cancelled
EndReleasesAll ==
    /\ (cancelled \/ clientSendClose) /\ hpc = "recv" ~> hpc # "recv"
    /\ Ended /\ crpc # "idle" ~> crpc = "idle"
    /\ Ended /\ cspc # "idle" ~> cspc = "idle"
    /\ Ended /\ spc # "idle" ~> spc = "idle"
=============================================================================
