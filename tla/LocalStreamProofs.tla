------------------------- MODULE LocalStreamProofs --------------------------
(***************************************************************************)
(* Theorems about LocalStream, for any number of messages and metadata:    *)
(* what the client is told of header and trailer is final, and each        *)
(* direction implements Spool (downstream when the handler does not leave  *)
(* its sender behind).                                                     *)
(***************************************************************************)
EXTENDS LocalStream, SequenceTheorems, TLAPS

-----------------------------------------------------------------------------
(* The inductive invariant. *)

\* The header the client may see is frozen.
MetadataInv ==
    /\ headerReady => headerSent \/ finished
    /\ hpc = "mark" \/ spc # "idle" => headerSent
    /\ headerSeen # Unset => headerReady /\ headerSeen = header

\* How the end of the handler is published, and what the client then knows.
EndInv ==
    /\ finished <=> hpc \in {"finish.mark", "finish.close", "over"}
    /\ done <=> hpc = "over"
    /\ clientEnd # "none" => done
    /\ clientEnd = "eof" => finishedErr = "nil"
    /\ clientEnd # "none" /\ crpc # "update" => trailerSeen = trailer

\* From the client to the handler: nothing is lost, and the end comes last.
UpInv ==
    /\ clientSent = serverGot \o clientMessages
    /\ cspc = "select" => ~clientSendClose /\ Len(clientSent) < MaxMessages
    /\ serverEOF => clientSendClose /\ clientMessages = <<>>

\* From the handler to the client: the same, unless a sender was left behind.
DownInv ==
    /\ serverSent = clientGot \o serverMessages
    /\ spc # "idle" => Len(serverSent) < MaxMessages
    /\ leftBehind => finished
    /\ ~leftBehind => /\ finished => spc = "idle"
                      /\ clientEnd = "eof" => serverMessages = <<>>

StreamInv == TypeOK /\ MetadataInv /\ EndInv /\ UpInv /\ DownInv

-----------------------------------------------------------------------------
\* What is received is still accounted for.
LEMMA DeliverKeeps ==
    ASSUME NEW sent \in Seq(Message), NEW got \in Seq(Message), NEW ch \in Channel,
           sent = got \o ch
    PROVE  got \o ch \in Seq(Message) /\ <<>> \in Channel /\ sent = (got \o ch) \o <<>>
<1>1. ch \in Seq(Message)
  BY DEF Channel
<1> QED
  BY <1>1, ConcatProperties, ConcatEmptySeq DEF Channel

\* The handler takes the message the channel holds.
LEMMA UpAccounted ==
    StreamInv => /\ serverGot \o clientMessages \in Seq(Message) /\ <<>> \in Channel
                 /\ clientSent = (serverGot \o clientMessages) \o <<>>
<1> SUFFICES ASSUME StreamInv
             PROVE  /\ serverGot \o clientMessages \in Seq(Message) /\ <<>> \in Channel
                    /\ clientSent = (serverGot \o clientMessages) \o <<>>
  OBVIOUS
<1>1. clientSent \in Seq(Message) /\ serverGot \in Seq(Message) /\ clientMessages \in Channel
  BY DEF StreamInv, TypeOK
<1>2. clientSent = serverGot \o clientMessages
  BY DEF StreamInv, UpInv
<1> QED
  BY <1>1, <1>2, DeliverKeeps

\* The client takes the message the channel holds.
LEMMA DownAccounted ==
    StreamInv => /\ clientGot \o serverMessages \in Seq(Message) /\ <<>> \in Channel
                 /\ serverSent = (clientGot \o serverMessages) \o <<>>
<1> SUFFICES ASSUME StreamInv
             PROVE  /\ clientGot \o serverMessages \in Seq(Message) /\ <<>> \in Channel
                    /\ serverSent = (clientGot \o serverMessages) \o <<>>
  OBVIOUS
<1>1. serverSent \in Seq(Message) /\ clientGot \in Seq(Message) /\ serverMessages \in Channel
  BY DEF StreamInv, TypeOK
<1>2. serverSent = clientGot \o serverMessages
  BY DEF StreamInv, DownInv
<1> QED
  BY <1>1, <1>2, DeliverKeeps

\* What is accepted into an empty channel is accounted for.
LEMMA AcceptKeeps ==
    ASSUME NEW sent \in Seq(Message), NEW got \in Seq(Message),
           sent = got \o <<>>, Len(sent) < MaxMessages
    PROVE  /\ <<Next1(sent)>> \in Channel
           /\ Append(sent, Next1(sent)) \in Seq(Message)
           /\ Append(sent, Next1(sent)) = got \o <<Next1(sent)>>
<1>1. Next1(sent) \in Message
  BY StreamConstants, LenProperties DEF Next1, Message
<1>2. sent = got
  BY ConcatEmptySeq
<1>3. Append(sent, Next1(sent)) = sent \o <<Next1(sent)>>
  BY <1>1, AppendIsConcat
<1> QED
  BY <1>1, <1>2, <1>3, AppendProperties DEF Channel

\* A new stream satisfies the invariant.
LEMMA InitInv == Init => StreamInv
<1> SUFFICES ASSUME Init PROVE StreamInv
  OBVIOUS
<1> USE DEF Init
<1>1. <<>> \in Seq(Message) /\ <<>> \o <<>> = <<>>
  BY ConcatEmptySeq
<1>2. TypeOK
  <2>1. <<>> \in Channel
    BY DEF Channel
  <2>2. 0 \in 0..MaxMetadata /\ Unset \in 0..Unset
    BY StreamConstants DEF Unset
  <2> QED
    BY <1>1, <2>1, <2>2 DEF TypeOK
<1>3. MetadataInv /\ EndInv /\ UpInv /\ DownInv
  BY <1>1, StreamConstants DEF MetadataInv, EndInv, UpInv, DownInv, Unset
<1> QED
  BY <1>2, <1>3 DEF StreamInv

\* Adding to a header that was not sent.
LEMMA SetHeaderInv == StreamInv /\ SetHeader => StreamInv'
<1> SUFFICES ASSUME StreamInv, SetHeader PROVE StreamInv'
  OBVIOUS
<1> USE DEF StreamInv, SetHeader, metadata, finish, upstream, downstream, client
<1>1. TypeOK'
  BY StreamConstants DEF TypeOK, Unset
<1>2. MetadataInv'
  BY DEF MetadataInv, EndInv, TypeOK
<1>3. EndInv'
  BY DEF EndInv, TypeOK
<1>4. UpInv'
  BY DEF UpInv
<1>5. DownInv'
  BY DEF DownInv, EndInv
<1> QED
  BY <1>1, <1>2, <1>3, <1>4, <1>5

\* Sending the header.
LEMMA SendHeaderInv == StreamInv /\ SendHeader => StreamInv'
<1> SUFFICES ASSUME StreamInv, SendHeader PROVE StreamInv'
  OBVIOUS
<1> USE DEF StreamInv, SendHeader, metadata, finish, upstream, downstream, client
<1>1. TypeOK'
  BY StreamConstants DEF TypeOK, Unset
<1>2. MetadataInv'
  BY DEF MetadataInv, EndInv, TypeOK
<1>3. EndInv'
  BY DEF EndInv, TypeOK
<1>4. UpInv'
  BY DEF UpInv
<1>5. DownInv'
  BY DEF DownInv, EndInv
<1> QED
  BY <1>1, <1>2, <1>3, <1>4, <1>5

\* Letting the client see the header.
LEMMA MarkHeaderReadyInv == StreamInv /\ MarkHeaderReady => StreamInv'
<1> SUFFICES ASSUME StreamInv, MarkHeaderReady PROVE StreamInv'
  OBVIOUS
<1> USE DEF StreamInv, MarkHeaderReady, metadata, finish, upstream, downstream, client
<1>1. TypeOK'
  BY DEF TypeOK
<1>2. MetadataInv'
  BY DEF MetadataInv, EndInv, TypeOK
<1>3. EndInv'
  BY DEF EndInv, TypeOK
<1>4. UpInv'
  BY DEF UpInv
<1>5. DownInv'
  BY DEF DownInv, EndInv
<1> QED
  BY <1>1, <1>2, <1>3, <1>4, <1>5

\* Adding to the trailer.
LEMMA SetTrailerInv == StreamInv /\ SetTrailer => StreamInv'
<1> SUFFICES ASSUME StreamInv, SetTrailer PROVE StreamInv'
  OBVIOUS
<1> USE DEF StreamInv, SetTrailer, metadata, finish, upstream, downstream, client
<1>1. TypeOK'
  BY StreamConstants DEF TypeOK, Unset
<1>2. MetadataInv'
  BY DEF MetadataInv, EndInv, TypeOK
<1>3. EndInv'
  BY DEF EndInv, TypeOK
<1>4. UpInv'
  BY DEF UpInv
<1>5. DownInv'
  BY DEF DownInv, EndInv
<1> QED
  BY <1>1, <1>2, <1>3, <1>4, <1>5

\* The handler asks for a message.
LEMMA ServerRecvInv == StreamInv /\ ServerRecv => StreamInv'
<1> SUFFICES ASSUME StreamInv, ServerRecv PROVE StreamInv'
  OBVIOUS
<1>0. /\ serverGot \o clientMessages \in Seq(Message) /\ <<>> \in Channel
      /\ clientSent = (serverGot \o clientMessages) \o <<>>
  BY UpAccounted
<1> USE DEF StreamInv, ServerRecv, TakeClientMessage, metadata, finish, upstream, downstream, client
<1>1. TypeOK'
  <2>1. clientMessages' \in Channel
    BY <1>0 DEF TypeOK
  <2>2. serverGot' \in Seq(Message)
    BY <1>0 DEF TypeOK
  <2> QED
    BY <2>1, <2>2 DEF TypeOK
<1>2. MetadataInv'
  BY DEF MetadataInv, EndInv, TypeOK
<1>3. EndInv'
  BY DEF EndInv, TypeOK
<1>4. UpInv'
  BY <1>0 DEF UpInv
<1>5. DownInv'
  BY DEF DownInv, EndInv
<1> QED
  BY <1>1, <1>2, <1>3, <1>4, <1>5

\* The handler waits for a message.
LEMMA ServerRecvWaitInv == StreamInv /\ ServerRecvWait => StreamInv'
<1> SUFFICES ASSUME StreamInv, ServerRecvWait PROVE StreamInv'
  OBVIOUS
<1>0. /\ serverGot \o clientMessages \in Seq(Message) /\ <<>> \in Channel
      /\ clientSent = (serverGot \o clientMessages) \o <<>>
  BY UpAccounted
<1> USE DEF StreamInv, ServerRecvWait, TakeClientMessage, metadata, finish, upstream, downstream, client
<1>1. TypeOK'
  <2>1. clientMessages' \in Channel
    BY <1>0 DEF TypeOK
  <2>2. serverGot' \in Seq(Message)
    BY <1>0 DEF TypeOK
  <2>3. serverEOF' \in BOOLEAN /\ hpc' \in {"run", "recv"}
    BY DEF TypeOK
  <2> QED
    BY <2>1, <2>2, <2>3 DEF TypeOK
<1>2. MetadataInv'
  BY DEF MetadataInv, EndInv, TypeOK
<1>3. EndInv'
  BY DEF EndInv, TypeOK
<1>4. UpInv'
  <2>1. clientSent' = serverGot' \o clientMessages'
    BY <1>0 DEF UpInv
  <2>2. cspc' = "select" => ~clientSendClose' /\ Len(clientSent') < MaxMessages
    BY DEF UpInv
  <2>3. CASE UNCHANGED serverEOF
    BY <2>1, <2>2, <2>3 DEF UpInv
  <2>4. CASE clientSendClose /\ clientMessages = <<>> /\ UNCHANGED clientMessages
    BY <2>1, <2>2, <2>4 DEF UpInv
  <2> QED
    BY <2>3, <2>4
<1>5. DownInv'
  BY DEF DownInv, EndInv
<1> QED
  BY <1>1, <1>2, <1>3, <1>4, <1>5

\* The handler returns.
LEMMA ReturnInv == StreamInv /\ Return => StreamInv'
<1> SUFFICES ASSUME StreamInv, Return PROVE StreamInv'
  OBVIOUS
<1> USE DEF StreamInv, Return, metadata, finish, upstream, downstream, client
<1>1. TypeOK'
  BY DEF TypeOK
<1>2. MetadataInv'
  BY DEF MetadataInv, EndInv, TypeOK
<1>3. EndInv'
  BY DEF EndInv, TypeOK
<1>4. UpInv'
  BY DEF UpInv
<1>5. DownInv'
  BY DEF DownInv, EndInv
<1> QED
  BY <1>1, <1>2, <1>3, <1>4, <1>5

\* The end of the handler makes the header ready.
LEMMA FinishMarkInv == StreamInv /\ FinishMark => StreamInv'
<1> SUFFICES ASSUME StreamInv, FinishMark PROVE StreamInv'
  OBVIOUS
<1> USE DEF StreamInv, FinishMark, metadata, finish, upstream, downstream, client
<1>1. TypeOK'
  BY DEF TypeOK
<1>2. MetadataInv'
  BY DEF MetadataInv, EndInv, TypeOK
<1>3. EndInv'
  BY DEF EndInv, TypeOK
<1>4. UpInv'
  BY DEF UpInv
<1>5. DownInv'
  BY DEF DownInv, EndInv
<1> QED
  BY <1>1, <1>2, <1>3, <1>4, <1>5

\* The end of the handler is published.
LEMMA FinishCloseInv == StreamInv /\ FinishClose => StreamInv'
<1> SUFFICES ASSUME StreamInv, FinishClose PROVE StreamInv'
  OBVIOUS
<1> USE DEF StreamInv, FinishClose, metadata, finish, upstream, downstream, client
<1>1. TypeOK'
  BY DEF TypeOK
<1>2. MetadataInv'
  BY DEF MetadataInv, EndInv, TypeOK
<1>3. EndInv'
  BY DEF EndInv, TypeOK
<1>4. UpInv'
  BY DEF UpInv
<1>5. DownInv'
  BY DEF DownInv, EndInv
<1> QED
  BY <1>1, <1>2, <1>3, <1>4, <1>5

\* The handler begins to send.
LEMMA ServerSendInv == StreamInv /\ ServerSend => StreamInv'
<1> SUFFICES ASSUME StreamInv, ServerSend PROVE StreamInv'
  OBVIOUS
<1> USE DEF StreamInv, ServerSend, metadata, finish, upstream, downstream, client
<1>1. TypeOK'
  BY DEF TypeOK
<1>2. MetadataInv'
  BY DEF MetadataInv, EndInv, TypeOK
<1>3. EndInv'
  BY DEF EndInv, TypeOK
<1>4. UpInv'
  BY DEF UpInv
<1>5. DownInv'
  BY DEF DownInv, EndInv
<1> QED
  BY <1>1, <1>2, <1>3, <1>4, <1>5

\* Its first message makes the header ready.
LEMMA ServerSendMarkInv == StreamInv /\ ServerSendMark => StreamInv'
<1> SUFFICES ASSUME StreamInv, ServerSendMark PROVE StreamInv'
  OBVIOUS
<1> USE DEF StreamInv, ServerSendMark, metadata, finish, upstream, downstream, client
<1>1. TypeOK'
  BY DEF TypeOK
<1>2. MetadataInv'
  BY DEF MetadataInv, EndInv, TypeOK
<1>3. EndInv'
  BY DEF EndInv, TypeOK
<1>4. UpInv'
  BY DEF UpInv
<1>5. DownInv'
  BY DEF DownInv, EndInv
<1> QED
  BY <1>1, <1>2, <1>3, <1>4, <1>5

\* The handler's message is accepted or not.
LEMMA ServerSendSelectInv == StreamInv /\ ServerSendSelect => StreamInv'
<1> SUFFICES ASSUME StreamInv, ServerSendSelect PROVE StreamInv'
  OBVIOUS
<1> USE DEF StreamInv, ServerSendSelect, metadata, finish, upstream, downstream, client
<1>0. serverMessages = <<>> =>
            /\ <<Next1(serverSent)>> \in Channel
            /\ Append(serverSent, Next1(serverSent)) \in Seq(Message)
            /\ Append(serverSent, Next1(serverSent)) = clientGot \o <<Next1(serverSent)>>
  BY AcceptKeeps DEF TypeOK, DownInv
<1>1. TypeOK'
  <2>1. serverMessages' \in Channel
    BY <1>0 DEF TypeOK
  <2>2. serverSent' \in Seq(Message)
    BY <1>0 DEF TypeOK
  <2> QED
    BY <2>1, <2>2 DEF TypeOK
<1>2. MetadataInv'
  BY DEF MetadataInv, EndInv, TypeOK
<1>3. EndInv'
  BY DEF EndInv, TypeOK
<1>4. UpInv'
  BY DEF UpInv
<1>5. DownInv'
  BY <1>0 DEF DownInv, EndInv
<1> QED
  BY <1>1, <1>2, <1>3, <1>4, <1>5

\* The client begins to send.
LEMMA ClientSendInv == StreamInv /\ ClientSend => StreamInv'
<1> SUFFICES ASSUME StreamInv, ClientSend PROVE StreamInv'
  OBVIOUS
<1> USE DEF StreamInv, ClientSend, metadata, finish, upstream, downstream, client
<1>1. TypeOK'
  BY DEF TypeOK
<1>2. MetadataInv'
  BY DEF MetadataInv, EndInv, TypeOK
<1>3. EndInv'
  BY DEF EndInv, TypeOK
<1>4. UpInv'
  BY DEF UpInv
<1>5. DownInv'
  BY DEF DownInv, EndInv
<1> QED
  BY <1>1, <1>2, <1>3, <1>4, <1>5

\* The client's message is accepted or not.
LEMMA ClientSendSelectInv == StreamInv /\ ClientSendSelect => StreamInv'
<1> SUFFICES ASSUME StreamInv, ClientSendSelect PROVE StreamInv'
  OBVIOUS
<1> USE DEF StreamInv, ClientSendSelect, metadata, finish, upstream, downstream, client
<1>0. clientMessages = <<>> =>
            /\ <<Next1(clientSent)>> \in Channel
            /\ Append(clientSent, Next1(clientSent)) \in Seq(Message)
            /\ Append(clientSent, Next1(clientSent)) = serverGot \o <<Next1(clientSent)>>
  BY AcceptKeeps DEF TypeOK, UpInv
<1>1. TypeOK'
  <2>1. clientMessages' \in Channel
    BY <1>0 DEF TypeOK
  <2>2. clientSent' \in Seq(Message)
    BY <1>0 DEF TypeOK
  <2> QED
    BY <2>1, <2>2 DEF TypeOK
<1>2. MetadataInv'
  BY DEF MetadataInv, EndInv, TypeOK
<1>3. EndInv'
  BY DEF EndInv, TypeOK
<1>4. UpInv'
  BY <1>0 DEF UpInv
<1>5. DownInv'
  BY DEF DownInv, EndInv
<1> QED
  BY <1>1, <1>2, <1>3, <1>4, <1>5

\* The client is done sending.
LEMMA CloseSendInv == StreamInv /\ CloseSend => StreamInv'
<1> SUFFICES ASSUME StreamInv, CloseSend PROVE StreamInv'
  OBVIOUS
<1> USE DEF StreamInv, CloseSend, metadata, finish, upstream, downstream, client
<1>1. TypeOK'
  BY DEF TypeOK
<1>2. MetadataInv'
  BY DEF MetadataInv, EndInv, TypeOK
<1>3. EndInv'
  BY DEF EndInv, TypeOK
<1>4. UpInv'
  BY DEF UpInv
<1>5. DownInv'
  BY DEF DownInv, EndInv
<1> QED
  BY <1>1, <1>2, <1>3, <1>4, <1>5

\* The client asks for a message.
LEMMA ClientRecvInv == StreamInv /\ ClientRecv => StreamInv'
<1> SUFFICES ASSUME StreamInv, ClientRecv PROVE StreamInv'
  OBVIOUS
<1>0. /\ clientGot \o serverMessages \in Seq(Message) /\ <<>> \in Channel
      /\ serverSent = (clientGot \o serverMessages) \o <<>>
  BY DownAccounted
<1> USE DEF StreamInv, ClientRecv, TakeServerMessage, Ends, metadata, finish, upstream, downstream, client
<1>1. TypeOK'
  <2>1. serverMessages' \in Channel
    BY <1>0 DEF TypeOK
  <2>2. clientGot' \in Seq(Message)
    BY <1>0 DEF TypeOK
  <2> QED
    BY <2>1, <2>2 DEF TypeOK
<1>2. MetadataInv'
  BY DEF MetadataInv, EndInv, TypeOK
<1>3. EndInv'
  BY DEF EndInv, TypeOK
<1>4. UpInv'
  BY DEF UpInv
<1>5. DownInv'
  BY <1>0 DEF DownInv, EndInv
<1> QED
  BY <1>1, <1>2, <1>3, <1>4, <1>5

\* The client waits for a message or the end.
LEMMA ClientRecvSelectInv == StreamInv /\ ClientRecvSelect => StreamInv'
<1> SUFFICES ASSUME StreamInv, ClientRecvSelect PROVE StreamInv'
  OBVIOUS
<1>0. /\ clientGot \o serverMessages \in Seq(Message) /\ <<>> \in Channel
      /\ serverSent = (clientGot \o serverMessages) \o <<>>
  BY DownAccounted
<1> USE DEF StreamInv, ClientRecvSelect, TakeServerMessage, Ends, metadata, finish, upstream, downstream, client
<1>1. TypeOK'
  <2>1. serverMessages' \in Channel
    BY <1>0 DEF TypeOK
  <2>2. clientGot' \in Seq(Message)
    BY <1>0 DEF TypeOK
  <2> QED
    BY <2>1, <2>2 DEF TypeOK
<1>2. MetadataInv'
  BY DEF MetadataInv, EndInv, TypeOK
<1>3. EndInv'
  BY DEF EndInv, TypeOK
<1>4. UpInv'
  BY DEF UpInv
<1>5. DownInv'
  BY <1>0 DEF DownInv, EndInv
<1> QED
  BY <1>1, <1>2, <1>3, <1>4, <1>5

\* The client is given the trailer.
LEMMA UpdateTrailerOptionsInv == StreamInv /\ UpdateTrailerOptions => StreamInv'
<1> SUFFICES ASSUME StreamInv, UpdateTrailerOptions PROVE StreamInv'
  OBVIOUS
<1> USE DEF StreamInv, UpdateTrailerOptions, metadata, finish, upstream, downstream, client
<1>1. TypeOK'
  BY DEF TypeOK
<1>2. MetadataInv'
  BY DEF MetadataInv, EndInv, TypeOK
<1>3. EndInv'
  BY DEF EndInv, TypeOK
<1>4. UpInv'
  BY DEF UpInv
<1>5. DownInv'
  BY DEF DownInv, EndInv
<1> QED
  BY <1>1, <1>2, <1>3, <1>4, <1>5

\* The client asks for the header.
LEMMA HeaderInv == StreamInv /\ Header => StreamInv'
<1> SUFFICES ASSUME StreamInv, Header PROVE StreamInv'
  OBVIOUS
<1> USE DEF StreamInv, Header, metadata, finish, upstream, downstream, client
<1>1. TypeOK'
  BY DEF TypeOK
<1>2. MetadataInv'
  BY DEF MetadataInv, EndInv, TypeOK
<1>3. EndInv'
  BY DEF EndInv, TypeOK
<1>4. UpInv'
  BY DEF UpInv
<1>5. DownInv'
  BY DEF DownInv, EndInv
<1> QED
  BY <1>1, <1>2, <1>3, <1>4, <1>5

\* The client is given the header.
LEMMA HeaderSelectInv == StreamInv /\ HeaderSelect => StreamInv'
<1> SUFFICES ASSUME StreamInv, HeaderSelect PROVE StreamInv'
  OBVIOUS
<1> USE DEF StreamInv, HeaderSelect, metadata, finish, upstream, downstream, client
<1>1. TypeOK'
  BY StreamConstants DEF TypeOK, Unset
<1>2. MetadataInv'
  BY DEF MetadataInv, EndInv, TypeOK
<1>3. EndInv'
  BY DEF EndInv, TypeOK
<1>4. UpInv'
  BY DEF UpInv
<1>5. DownInv'
  BY DEF DownInv, EndInv
<1> QED
  BY <1>1, <1>2, <1>3, <1>4, <1>5

\* The context is done.
LEMMA CancelInv == StreamInv /\ Cancel => StreamInv'
<1> SUFFICES ASSUME StreamInv, Cancel PROVE StreamInv'
  OBVIOUS
<1> USE DEF StreamInv, Cancel, metadata, finish, upstream, downstream, client
<1>1. TypeOK'
  BY DEF TypeOK
<1>2. MetadataInv'
  BY DEF MetadataInv, EndInv, TypeOK
<1>3. EndInv'
  BY DEF EndInv, TypeOK
<1>4. UpInv'
  BY DEF UpInv
<1>5. DownInv'
  BY DEF DownInv, EndInv
<1> QED
  BY <1>1, <1>2, <1>3, <1>4, <1>5

\* Every step keeps the invariant.
LEMMA StepInv == StreamInv /\ [Next]_vars => StreamInv'
<1> SUFFICES ASSUME StreamInv, [Next]_vars PROVE StreamInv'
  OBVIOUS
<1>1. CASE Handler
  BY <1>1, SetHeaderInv, SendHeaderInv, SetTrailerInv, ServerRecvInv, ReturnInv DEF Handler
<1>2. CASE Handling
  BY <1>2, MarkHeaderReadyInv, ServerRecvWaitInv, FinishMarkInv, FinishCloseInv DEF Handling
<1>3. CASE ServerSend \/ Sending
  BY <1>3, ServerSendInv, ServerSendMarkInv, ServerSendSelectInv DEF Sending
<1>4. CASE ClientSend \/ ClientSendSelect \/ CloseSend
  BY <1>4, ClientSendInv, ClientSendSelectInv, CloseSendInv
<1>5. CASE ClientRecv \/ Header \/ Receiving
  BY <1>5, ClientRecvInv, HeaderInv, ClientRecvSelectInv, UpdateTrailerOptionsInv,
     HeaderSelectInv DEF Receiving
<1>6. CASE UNCHANGED vars
  BY <1>6 DEF vars, metadata, finish, upstream, downstream, client,
              StreamInv, TypeOK, MetadataInv, EndInv, UpInv, DownInv
<1> QED
  BY <1>1, <1>2, <1>3, <1>4, <1>5, <1>6, CancelInv DEF Next

-----------------------------------------------------------------------------
(* The theorems. *)

\* The invariant holds throughout; it contains the type invariant.
THEOREM StreamInvariant == Spec => []StreamInv
  BY InitInv, StepInv, PTL DEF Spec

\* Type correctness.
THEOREM TypeCorrect == Spec => []TypeOK
<1>1. StreamInv => TypeOK
  BY DEF StreamInv
<1> QED
  BY <1>1, StreamInvariant, PTL

\* A header the client was given is never added to.
THEOREM HeaderFinal == Spec => []HeaderIsFinal
<1>1. StreamInv => HeaderIsFinal
  BY DEF StreamInv, MetadataInv, HeaderIsFinal
<1> QED
  BY <1>1, StreamInvariant, PTL

\* A client that was told of the end has the whole trailer.
THEOREM TrailerFinal == Spec => []TrailerComplete
<1>1. StreamInv => TrailerComplete
  BY DEF StreamInv, EndInv, TrailerComplete
<1> QED
  BY <1>1, StreamInvariant, PTL

-----------------------------------------------------------------------------
(* The refinements of Spool. *)

\* A message in the channel is the next one to hand on.
LEMMA NextToDeliver ==
    ASSUME NEW sent \in Seq(Message), NEW got \in Seq(Message), NEW ch \in Channel,
           ch # <<>>, sent = got \o ch
    PROVE  Len(got) < Len(sent) /\ got \o ch = Append(got, sent[Len(got) + 1])
<1>1. PICK m \in Message : ch = <<m>>
  BY DEF Channel
<1>2. got \o ch = Append(got, m)
  BY <1>1, AppendIsConcat
<1> QED
  BY <1>2, AppendProperties, LenProperties

\* Every step is a step of the upstream spool or leaves it alone.
LEMMA UpstreamStep == StreamInv /\ [Next]_vars => [Upstream!Next]_(Upstream!vars)
<1> SUFFICES ASSUME StreamInv, [Next]_vars PROVE Upstream!Next \/ UNCHANGED Upstream!vars
  OBVIOUS
<1> USE DEF Upstream!Next, Upstream!vars, Upstream!Take, Upstream!HandOn, Upstream!Shut,
            Upstream!Finish, metadata, finish, upstream, downstream, client
<1>1. ASSUME ClientSendSelect PROVE Upstream!Next \/ UNCHANGED Upstream!vars
  <2>1. ~clientSendClose /\ UNCHANGED <<clientSendClose, serverGot, serverEOF>>
    BY <1>1 DEF ClientSendSelect, StreamInv, UpInv
  <2>2. Len(clientSent) \in Nat /\ Next1(clientSent) \in Message
    BY <1>1, StreamConstants, LenProperties
       DEF ClientSendSelect, StreamInv, UpInv, TypeOK, Next1, Message
  <2> QED
    BY <1>1, <2>1, <2>2 DEF ClientSendSelect
<1>2. ASSUME ServerRecv \/ ServerRecvWait PROVE Upstream!Next \/ UNCHANGED Upstream!vars
  <2>1. UNCHANGED <<clientSent, clientSendClose>>
    BY <1>2 DEF ServerRecv, ServerRecvWait
  <2>2. CASE TakeClientMessage
    <3>1. /\ Len(serverGot) < Len(clientSent)
          /\ serverGot' = Append(serverGot, clientSent[Len(serverGot) + 1])
      BY <2>2, NextToDeliver DEF TakeClientMessage, StreamInv, UpInv, TypeOK
    <3> QED
      BY <2>1, <2>2, <3>1 DEF TakeClientMessage
  <2>3. CASE ~TakeClientMessage /\ serverEOF' # serverEOF
    <3>1. clientSendClose /\ clientMessages = <<>> /\ serverEOF' = TRUE /\ UNCHANGED serverGot
      BY <1>2, <2>3 DEF ServerRecv, ServerRecvWait
    <3>2. serverGot = clientSent
      BY <3>1, ConcatEmptySeq DEF StreamInv, UpInv, TypeOK
    <3> QED
      BY <2>1, <3>1, <3>2
  <2>4. CASE ~TakeClientMessage /\ serverEOF' = serverEOF
    BY <1>2, <2>1, <2>4 DEF ServerRecv, ServerRecvWait
  <2> QED
    BY <2>2, <2>3, <2>4
<1>3. ASSUME CloseSend PROVE Upstream!Next
  BY <1>3 DEF CloseSend
<1>4. ASSUME SetHeader \/ SendHeader \/ SetTrailer \/ Return \/ MarkHeaderReady
                \/ FinishMark \/ FinishClose \/ ServerSend \/ Sending \/ ClientSend
      PROVE  UNCHANGED Upstream!vars
  BY <1>4 DEF SetHeader, SendHeader, SetTrailer, Return, MarkHeaderReady, FinishMark,
              FinishClose, ServerSend, Sending, ServerSendMark, ServerSendSelect, ClientSend
<1>5. ASSUME ClientRecv \/ Header \/ Receiving \/ Cancel \/ UNCHANGED vars
      PROVE  UNCHANGED Upstream!vars
  BY <1>5 DEF ClientRecv, Header, Receiving, ClientRecvSelect, UpdateTrailerOptions,
              HeaderSelect, Cancel, vars
<1> QED
  BY <1>1, <1>2, <1>3, <1>4, <1>5 DEF Next, Handler, Handling

\* From the client to the handler the stream implements a spool: the handler gets
\* io.EOF only after CloseSend and after every message the client sent.
THEOREM UpstreamImplementsSpool == Spec => UpstreamSpool
<1>1. Init => Upstream!Init
  BY DEF Init, Upstream!Init
<1> QED
  BY <1>1, UpstreamStep, StreamInvariant, PTL DEF Spec, UpstreamSpool, Upstream!Spec

\* Every step is a step of the downstream spool or leaves it alone.
LEMMA DownstreamStep == StreamInv /\ [Next]_vars => [Downstream!Next]_(Downstream!vars)
<1> SUFFICES ASSUME StreamInv, [Next]_vars PROVE Downstream!Next \/ UNCHANGED Downstream!vars
  OBVIOUS
<1> USE DEF Downstream!Next, Downstream!vars, Downstream!Take, Downstream!HandOn,
            Downstream!Shut, Downstream!Finish, metadata, finish, upstream, downstream, client
<1>1. ASSUME ServerSendSelect PROVE Downstream!Next \/ UNCHANGED Downstream!vars
  <2>1. (~finished \/ leftBehind) /\ UNCHANGED <<finished, leftBehind, clientGot, clientEnd>>
    BY <1>1 DEF ServerSendSelect, StreamInv, DownInv, TypeOK
  <2>2. Len(serverSent) \in Nat /\ Next1(serverSent) \in Message
    BY <1>1, StreamConstants, LenProperties
       DEF ServerSendSelect, StreamInv, DownInv, TypeOK, Next1, Message
  <2> QED
    BY <1>1, <2>1, <2>2 DEF ServerSendSelect
<1>2. ASSUME ClientRecv \/ ClientRecvSelect
      PROVE  Downstream!Next \/ UNCHANGED Downstream!vars
  <2>1. UNCHANGED <<serverSent, finished, leftBehind>>
    BY <1>2 DEF ClientRecv, ClientRecvSelect
  <2>2. CASE TakeServerMessage
    <3>1. /\ Len(clientGot) < Len(serverSent)
          /\ clientGot' = Append(clientGot, serverSent[Len(clientGot) + 1])
      BY <2>2, NextToDeliver DEF TakeServerMessage, StreamInv, DownInv, TypeOK
    <3> QED
      BY <2>1, <2>2, <3>1 DEF TakeServerMessage
  <2>3. CASE ~TakeServerMessage /\ clientEnd' # clientEnd /\ clientEnd' = "eof"
    <3>1. /\ done /\ finishedErr = "nil" /\ serverMessages = <<>>
          /\ UNCHANGED clientGot
      BY <1>2, <2>3 DEF ClientRecv, ClientRecvSelect, Ends
    <3>2. clientGot = serverSent /\ finished
      BY <3>1, ConcatEmptySeq DEF StreamInv, DownInv, EndInv, TypeOK
    <3>3. CASE leftBehind
      BY <2>1, <3>1, <3>3
    <3>4. CASE ~leftBehind
      BY <2>1, <2>3, <3>1, <3>2, <3>4
    <3> QED
      BY <3>3, <3>4
  <2>4. CASE ~TakeServerMessage /\ ~(clientEnd' # clientEnd /\ clientEnd' = "eof")
    BY <1>2, <2>1, <2>4 DEF ClientRecv, ClientRecvSelect, Ends
  <2> QED
    BY <2>2, <2>3, <2>4
<1>3. ASSUME Return PROVE Downstream!Next \/ UNCHANGED Downstream!vars
  BY <1>3 DEF Return, StreamInv, EndInv, TypeOK
<1>4. ASSUME SetHeader \/ SendHeader \/ SetTrailer \/ ServerRecv \/ Handling \/ ServerSend
                \/ ServerSendMark
      PROVE  UNCHANGED Downstream!vars
  BY <1>4 DEF SetHeader, SendHeader, SetTrailer, ServerRecv, Handling, MarkHeaderReady,
              ServerRecvWait, FinishMark, FinishClose, ServerSend, ServerSendMark
<1>5. ASSUME ClientSend \/ ClientSendSelect \/ CloseSend \/ Header \/ UpdateTrailerOptions
                \/ HeaderSelect \/ Cancel \/ UNCHANGED vars
      PROVE  UNCHANGED Downstream!vars
  BY <1>5 DEF ClientSend, ClientSendSelect, CloseSend, Header, UpdateTrailerOptions,
              HeaderSelect, Cancel, vars
<1> QED
  BY <1>1, <1>2, <1>3, <1>4, <1>5 DEF Next, Handler, Sending, Receiving

\* From the handler to the client it does too: io.EOF comes after every message the
\* handler sent, unless it left its sender behind.
THEOREM DownstreamImplementsSpool == Spec => DownstreamSpool
<1>1. Init => Downstream!Init
  BY DEF Init, Downstream!Init
<1> QED
  BY <1>1, DownstreamStep, StreamInvariant, PTL DEF Spec, DownstreamSpool, Downstream!Spec

=============================================================================
