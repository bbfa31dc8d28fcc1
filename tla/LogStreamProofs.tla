--------------------------- MODULE LogStreamProofs ---------------------------
(***************************************************************************)
(* Proofs about LogStream for any length of log and header, any queue and  *)
(* any number of tries.                                                    *)
(***************************************************************************)
EXTENDS LogStream, TLAPS

\* The reliable block with sequence number q.
Reliable(q) == [q |-> q, ack |-> TRUE]

\* Holds in every session: the logger waits only with a log started, and the
\* sender waits only after it has read a block.
Base ==
  /\ TypeOK
  /\ lpc = "wait" => started /\ seq < MaxSeq
  /\ waiting => current \in Block

\* Answers are answers to what arrived, and only what was sent arrives.
Answering ==
  /\ answer # None => Reliable(answer) \in got
  /\ acked \subseteq got /\ got \subseteq sent

\* The logger has answers to the blocks of the header before n.
Prefix(n) == \A q \in 0..(Header - 1) : q < n => Reliable(q) \in acked

Prefixes ==
  /\ Prefix(seq)
  /\ \A b \in sent : Prefix(b.q)
  /\ \A k \in DOMAIN stream : Prefix(stream[k].q)

\* A reliable block the sender has not read is the last one published, was not
\* sent, and the logger waits for its answer unless the log was stopped.
Unread ==
  \A k \in DOMAIN stream : stream[k].ack =>
    /\ k = Len(stream) /\ stream[k] \notin sent
    /\ started => lpc = "wait" /\ stream[k].q = seq

\* While the sender waits for an answer nothing more is published, the block it
\* read last is the one it waits for, and so is the logger's.
Waiting ==
  waiting /\ ~ack_received =>
    /\ stream = <<>>
    /\ current = Reliable(wait_for_ack_sequence) /\ current \in sent
    /\ answer # wait_for_ack_sequence
    /\ started => lpc = "wait" /\ wait_for_ack_sequence = seq

\* No block is ahead of the logger.
Behind(b) == b.q < seq \/ (lpc = "wait" /\ b.q = seq)

Ordered ==
  started => /\ \A b \in sent : Behind(b)
             /\ \A k \in DOMAIN stream : Behind(stream[k])

Session == Answering /\ Prefixes /\ Unread /\ Waiting /\ Ordered

IInv == Base /\ (clean => Session)

-----------------------------------------------------------------------------
\* At the start there is no session.
LEMMA Initially == Init => IInv
  <1> USE StreamConstants
  <1>1. Init => FlagsOK
    BY Zenon DEF Init, FlagsOK
  <1>2. Init => TypeOK
    BY <1>1 DEF Init, TypeOK
  <1> QED BY <1>2, Zenon DEF Init, IInv, Base

\* A block is made of its two fields.
LEMMA BlockFields ==
  ASSUME NEW b \in Block
  PROVE  /\ b.q \in 0..MaxSeq /\ b.ack \in BOOLEAN
         /\ b.ack => b = Reliable(b.q)
         /\ [b EXCEPT !.ack = TRUE] \in Block
         /\ b.ack => [b EXCEPT !.ack = TRUE] = b
  BY Zenon DEF Block, Reliable

\* What the steps of the receiver leave alone is all the session depends on,
\* except that an answer to a block that arrived is passed on.
LEMMA ReceiverSteps ==
  ASSUME IInv, Commands \/ Receiver
  PROVE  IInv'
  <1> USE StreamConstants
  <1>1. CASE CommandStart
    <2> USE <1>1 DEF CommandStart, try_start, loggerVars, linkVars
    <2>1. FlagsOK'
      BY Zenon DEF IInv, Base, TypeOK, FlagsOK, senderVars, waitVars
    <2>2. CASE instance
      <3> USE <2>2 DEF senderVars, waitVars
      <3>1. Base'
        BY <2>1 DEF IInv, Base, TypeOK
      <3>2. clean => Session'
        BY Zenon DEF IInv, Session, Answering, Prefixes, Prefix, Unread, Waiting, Ordered, Behind
      <3> QED BY <3>1, <3>2, Zenon DEF IInv
    <2>3. CASE ~instance
      <3> USE <2>3
      <3>1. Base'
        BY <2>1 DEF IInv, Base, TypeOK
      <3>2. clean => Session'
        BY DEF IInv, Session, Answering, Prefixes, Prefix, Unread, Waiting, Ordered, Behind
      <3> QED BY <3>1, <3>2, Zenon DEF IInv
    <2> QED BY <2>2, <2>3, Zenon
  <1>2. CASE CommandStop \/ request_stop
    <2>1. /\ UNCHANGED <<started, seq, lpc, late, clean, acked, answer, accepted, stream,
                         instance, mpc, initial, waiting, ack_received,
                         wait_for_ack_sequence, sent_tries, current, sent, got>>
          /\ cmds' \in {cmds, Append(cmds, "stop")}
          /\ stop_requested' \in {stop_requested, TRUE} /\ rpc' \in {"loop", "stop"}
      BY <1>2, Zenon DEF CommandStop, request_stop, loggerVars, senderVars, waitVars, linkVars,
                  IInv, Base, TypeOK
    <2>2. Base'
      <3>1. FlagsOK' BY <2>1, Zenon DEF IInv, Base, TypeOK, FlagsOK
      <3> QED BY <2>1, <3>1 DEF IInv, Base, TypeOK
    <2>3. clean => Session'
      BY <2>1, Zenon DEF IInv, Session, Answering, Prefixes, Prefix, Unread, Waiting, Ordered, Behind
    <2> QED BY <2>1, <2>2, <2>3, Zenon DEF IInv
  <1>3. ASSUME NEW q \in 0..MaxSeq, handle_ack(q) PROVE IInv'
    <2> USE <1>3 DEF handle_ack, publish_ack, loggerVars, commandVars, linkVars
    <2>1. Base'
      <3>1. FlagsOK' BY Zenon DEF IInv, Base, TypeOK, FlagsOK
      <3> QED BY <3>1, Zenon DEF IInv, Base, TypeOK
    <2>2. ASSUME clean PROVE Session'
      <3>1. Reliable(q) \in got
        <4>1. PICK g \in got : g.ack /\ g.q = q
          BY <2>2, Zenon DEF Answers
        <4>2. g \in Block
          BY Zenon DEF IInv, Base, TypeOK
        <4> QED BY <4>1, <4>2, BlockFields, Zenon
      <3>2. Answering'
        BY <3>1, <2>2, Zenon DEF IInv, Session, Answering
      <3>3. Waiting'
        BY Zenon DEF Waiting
      <3> QED
        BY <3>2, <3>3, <2>2, Zenon DEF IInv, Session, Prefixes, Prefix, Unread, Ordered, Behind
    <2> QED BY <2>1, <2>2, Zenon DEF IInv
  <1> QED BY <1>1, <1>2, <1>3, Zenon DEF Commands, Receiver

\* The ends of a stream, and the turns of the sender that send nothing.
LEMMA SenderSteps ==
  ASSUME IInv,
         \/ StopRequested \/ NoInitialAck \/ TooManyTries
         \/ start_ack_received \/ Answered \/ Updated
  PROVE  IInv'
  <1> USE StreamConstants
  <1>1. CASE StopRequested \/ NoInitialAck \/ TooManyTries
    <2>1. /\ UNCHANGED <<started, seq, lpc, late, clean, acked, answer, cmds, accepted, rpc,
                         sent, got>>
          /\ stop
          /\ stop_requested' \in {stop_requested, FALSE}
      BY <1>1, Zenon DEF StopRequested, NoInitialAck, TooManyTries, loggerVars, commandVars, linkVars
    <2>2. Base'
      <3>1. FlagsOK' BY <2>1, Zenon DEF IInv, Base, TypeOK, FlagsOK, stop
      <3> QED BY <2>1, <3>1 DEF IInv, Base, TypeOK, stop
    <2>3. clean => Session'
      BY <2>1 DEF IInv, Session, Answering, Prefixes, Prefix, Unread, Waiting, Ordered, Behind, stop
    <2> QED BY <2>1, <2>2, <2>3, Zenon DEF IInv
  <1>2. CASE start_ack_received \/ Answered \/ Updated
    <2>1. /\ UNCHANGED <<started, seq, lpc, late, clean, acked, answer, cmds, stop_requested,
                         rpc, sent, got, stream, instance, ack_received,
                         wait_for_ack_sequence, sent_tries, current>>
          /\ waiting' => waiting
          /\ mpc' \in {"loop", "update"}
      BY <1>2 DEF start_ack_received, Answered, Updated, Updating, loggerVars, commandVars,
                  linkVars, waitVars, IInv, Base, TypeOK
    <2>2. Base'
      <3>1. FlagsOK'
        BY <1>2, Zenon DEF start_ack_received, Answered, Updated, Updating, loggerVars,
                           commandVars, linkVars, waitVars, IInv, Base, TypeOK, FlagsOK
      <3> QED BY <2>1, <3>1, Zenon DEF IInv, Base, TypeOK
    <2>3. clean => Session'
      BY <2>1, Zenon DEF IInv, Session, Answering, Prefixes, Prefix, Unread, Waiting, Ordered, Behind
    <2> QED BY <2>1, <2>2, <2>3, Zenon DEF IInv
  <1> QED BY <1>1, <1>2, Zenon

\* Sending a block again adds nothing, and one that arrives was sent.
LEMMA LinkSteps ==
  ASSUME IInv, Resend \/ \E b \in Block : Deliver(b)
  PROVE  IInv'
  <1> USE StreamConstants
  <1>1. CASE Resend
    <2> USE <1>1 DEF Resend, Updating, loggerVars, commandVars
    <2>1. FlagsOK'
      BY Zenon DEF IInv, Base, TypeOK, FlagsOK
    <2>2. [current EXCEPT !.ack = TRUE] \in Block
      BY BlockFields, Zenon DEF IInv, Base
    <2>3. sent_tries' \in 0..MaxTries
      BY DEF IInv, Base, TypeOK
    <2>4. Base'
      BY <2>1, <2>2, <2>3, Zenon DEF IInv, Base, TypeOK, Send
    <2>5. ASSUME clean PROVE Session'
      <3>1. current = Reliable(wait_for_ack_sequence) /\ current \in sent
        BY <2>5, Zenon DEF IInv, Session, Waiting
      <3>2. current \in Block /\ current.ack
        BY <3>1, Zenon DEF IInv, Base, Reliable
      <3>3. [current EXCEPT !.ack = TRUE] = current
        BY <3>2, BlockFields, Zenon
      <3>4. sent' = sent
        BY <3>1, <3>3, Zenon DEF Send
      <3> QED
        BY <2>5, <3>4, Zenon DEF IInv, Session, Answering, Prefixes, Prefix, Unread, Waiting,
                          Ordered, Behind
    <2> QED BY <2>4, <2>5, Zenon DEF IInv
  <1>2. ASSUME NEW b \in Block, Deliver(b) PROVE IInv'
    <2> USE <1>2 DEF Deliver, loggerVars, commandVars, senderVars, waitVars
    <2>1. FlagsOK'
      BY Zenon DEF IInv, Base, TypeOK, FlagsOK
    <2>2. Base'
      BY <2>1, Zenon DEF IInv, Base, TypeOK
    <2>3. clean => Session'
      BY Zenon DEF IInv, Session, Answering, Prefixes, Prefix, Unread, Waiting, Ordered, Behind
    <2> QED BY <2>2, <2>3, Zenon DEF IInv
  <1> QED BY <1>1, <1>2, Zenon

\* The sender reads a block: a reliable one is the last there is, was not sent
\* before and therefore not answered.
LEMMA TakeStep == ASSUME IInv, Take PROVE IInv'
  <1> USE StreamConstants
  <1> DEFINE h == Head(stream)
  <1>0. /\ UNCHANGED <<started, seq, lpc, late, clean, acked, answer, cmds, accepted,
                       stop_requested, rpc, instance, mpc, initial, got>>
        /\ stream # <<>> /\ stream' = Tail(stream) /\ current' = h
        /\ sent' = (IF clean THEN sent \cup {h} ELSE sent)
    BY Zenon DEF Take, Send, loggerVars, commandVars
  <1>1. /\ stream \in Seq(Block) /\ Len(stream) \in Nat \ {0} /\ h \in Block /\ h = stream[1]
        /\ Tail(stream) \in Seq(Block) /\ Len(Tail(stream)) = Len(stream) - 1
        /\ \A k \in DOMAIN Tail(stream) : k + 1 \in DOMAIN stream /\ Tail(stream)[k] = stream[k + 1]
        /\ 1 \in DOMAIN stream
    BY <1>0 DEF IInv, Base, TypeOK
  <1>2. /\ h.q \in 0..MaxSeq /\ h.ack \in BOOLEAN
        /\ h.ack => h = Reliable(h.q)
    BY <1>1, BlockFields, Zenon
  <1>3. /\ h.ack => /\ sent_tries' = 1 /\ waiting' = TRUE
                    /\ wait_for_ack_sequence' = h.q /\ ack_received' = FALSE
        /\ ~h.ack => UNCHANGED <<sent_tries, waiting, wait_for_ack_sequence, ack_received>>
    BY Zenon DEF Take
  <1> HIDE DEF h
  <1>4. Base'
    <2>1. FlagsOK'
      BY <1>0, <1>2, <1>3, Zenon DEF IInv, Base, TypeOK, FlagsOK
    <2>2. sent_tries' \in 0..MaxTries /\ wait_for_ack_sequence' \in 0..MaxSeq
      BY <1>2, <1>3 DEF IInv, Base, TypeOK
    <2> QED BY <1>0, <1>1, <2>1, <2>2, Zenon DEF IInv, Base, TypeOK
  <1>5. ASSUME clean PROVE Session'
    <2> USE <1>5
    <2>0. sent' = sent \cup {h}
      BY <1>0, Zenon
    <2>1. Answering'
      BY <1>0, <2>0, Zenon DEF IInv, Session, Answering
    <2>2. Prefixes'
      BY <1>0, <1>1, <2>0, Zenon DEF IInv, Session, Prefixes, Prefix
    <2>3. Ordered'
      BY <1>0, <1>1, <2>0, Zenon DEF IInv, Session, Ordered, Behind
    <2>4. CASE h.ack
      <3>1. /\ Len(stream) = 1 /\ h \notin sent
            /\ started => lpc = "wait" /\ h.q = seq
        BY <1>1, <2>4, Zenon DEF IInv, Session, Unread
      <3>2. stream' = <<>>
        BY <1>0, <1>1, <3>1
      <3>3. Unread'
        BY <3>2 DEF Unread
      <3>4. answer # h.q
        <4> SUFFICES ASSUME answer = h.q PROVE FALSE
          BY Zenon
        <4>1. answer # None
          BY <1>2
        <4> QED BY <4>1, <1>2, <2>4, <3>1, Zenon DEF IInv, Session, Answering
      <3>5. Waiting'
        BY <1>0, <1>2, <1>3, <2>0, <2>4, <3>1, <3>2, <3>4, Zenon DEF Waiting, Reliable
      <3> QED BY <2>1, <2>2, <2>3, <3>3, <3>5, Zenon DEF Session
    <2>5. CASE ~h.ack
      <3>1. Unread'
        <4> SUFFICES ASSUME NEW k \in DOMAIN stream', stream'[k].ack
                     PROVE  /\ k = Len(stream') /\ stream'[k] \notin sent'
                            /\ started' => lpc' = "wait" /\ stream'[k].q = seq'
          BY Zenon DEF Unread
        <4>1. /\ k + 1 \in DOMAIN stream /\ stream'[k] = stream[k + 1]
          BY <1>0, <1>1, Zenon
        <4>2. /\ k + 1 = Len(stream) /\ stream[k + 1] \notin sent
              /\ started => lpc = "wait" /\ stream[k + 1].q = seq
          BY <4>1, Zenon DEF IInv, Session, Unread
        <4>3. stream[k + 1] # h
          BY <2>5, <4>1, Zenon
        <4>4. k = Len(stream')
          BY <1>0, <1>1, <4>2
        <4> QED BY <1>0, <2>0, <4>1, <4>2, <4>3, <4>4, Zenon
      <3>0. ~(waiting /\ ~ack_received)
        BY <1>0, Zenon DEF IInv, Session, Waiting
      <3>2. waiting' = waiting /\ ack_received' = ack_received
        BY <1>3, <2>5, Zenon
      <3>3. Waiting'
        BY <3>0, <3>2, Zenon DEF Waiting
      <3> QED BY <2>1, <2>2, <2>3, <3>1, <3>3, Zenon DEF Session
    <2> QED BY <1>2, <2>4, <2>5, Zenon
  <1> QED BY <1>0, <1>4, <1>5, Zenon DEF IInv

\* A command starts a log, in a clean session or not, or stops it.
LEMMA CommandSteps == ASSUME IInv, Handle PROVE IInv'
  <1> USE StreamConstants
  <1>1. CASE LoggingStart
    <2> USE <1>1 DEF LoggingStart, start_log, senderVars, waitVars
    <2>1. FlagsOK'
      BY Zenon DEF IInv, Base, TypeOK, FlagsOK
    <2>2. cmds' \in Seq({"start", "stop"})
      BY DEF IInv, Base, TypeOK
    <2>3. Base'
      BY <2>1, <2>2 DEF IInv, Base, TypeOK, InLoop
    <2>4. ASSUME clean' PROVE Session'
      <3>1. stream' = <<>> /\ ~waiting'
        BY <2>4, Zenon DEF Fresh
      <3> QED
        BY <3>1 DEF Session, Answering, Prefixes, Prefix, Unread, Waiting, Ordered, Behind
    <2> QED BY <2>3, <2>4, Zenon DEF IInv
  <1>2. CASE LoggingStartRejected
    <2> USE <1>2 DEF LoggingStartRejected, loggerVars, senderVars, waitVars, linkVars
    <2>1. FlagsOK'
      BY Zenon DEF IInv, Base, TypeOK, FlagsOK
    <2>2. Base'
      BY <2>1 DEF IInv, Base, TypeOK
    <2>3. clean => Session'
      BY Zenon DEF IInv, Session, Answering, Prefixes, Prefix, Unread, Waiting, Ordered, Behind
    <2> QED BY <2>2, <2>3, Zenon DEF IInv
  <1>3. CASE LoggingStop
    <2> USE <1>3 DEF LoggingStop, InLoop, senderVars, waitVars, linkVars
    <2>1. FlagsOK'
      BY Zenon DEF IInv, Base, TypeOK, FlagsOK
    <2>2. Base'
      BY <2>1 DEF IInv, Base, TypeOK
    <2>3. clean => Session'
      BY Zenon DEF IInv, Session, Answering, Prefixes, Prefix, Unread, Waiting, Ordered, Behind
    <2> QED BY <2>2, <2>3, Zenon DEF IInv
  <1> QED BY <1>1, <1>2, <1>3, Zenon DEF Handle

\* The topic after b was published: b is the last block in it.
LEMMA PublishedBlocks ==
  ASSUME TypeOK, NEW b \in Block
  PROVE  /\ Published(b) \in Seq(Block)
         /\ \A k \in DOMAIN Published(b) :
              \/ \E j \in DOMAIN stream : Published(b)[k] = stream[j]
              \/ k = Len(Published(b)) /\ Published(b)[k] = b
  <1> USE StreamConstants
  <1>0. stream \in Seq(Block) /\ Len(stream) \in Nat
    BY DEF TypeOK
  <1>1. CASE ~instance
    BY <1>1 DEF Published
  <1>2. CASE instance /\ Len(stream) < QueueLength
    <2>1. Published(b) = Append(stream, b)
      BY <1>2, Zenon DEF Published
    <2> QED BY <1>0, <2>1
  <1>3. CASE instance /\ ~(Len(stream) < QueueLength)
    <2>1. Published(b) = Append(Tail(stream), b) /\ stream # <<>>
      BY <1>0, <1>3 DEF Published
    <2>2. /\ Tail(stream) \in Seq(Block) /\ Len(Tail(stream)) = Len(stream) - 1
          /\ \A k \in DOMAIN Tail(stream) :
               k + 1 \in DOMAIN stream /\ Tail(stream)[k] = stream[k + 1]
      BY <1>0, <2>1
    <2> QED BY <1>0, <2>1, <2>2
  <1> QED BY <1>1, <1>2, <1>3, Zenon DEF TypeOK, FlagsOK

\* The logger publishes its next block while the sender waits for nothing.
LEMMA PublishStep ==
  ASSUME IInv, NEW r \in BOOLEAN, publish_message(r)
  PROVE  IInv'
  <1> USE StreamConstants
  <1> USE DEF publish_message, senderVars, waitVars, linkVars, commandVars
  <1> DEFINE b == This(r)
  <1>0. b \in Block /\ b.q = seq /\ b.ack = r
    BY Zenon DEF This, Block, IInv, Base, TypeOK
  <1>1. /\ stream' = Published(b) /\ stream' \in Seq(Block)
        /\ \A k \in DOMAIN stream' : \/ \E j \in DOMAIN stream : stream'[k] = stream[j]
                                     \/ k = Len(stream') /\ stream'[k] = b
    BY <1>0, PublishedBlocks, Zenon DEF IInv, Base
  <1>2. /\ r => lpc' = "wait" /\ seq' = seq
        /\ ~r => lpc' = "loop" /\ seq' = seq + 1 /\ seq >= Header
    BY DEF IInv, Base, TypeOK
  <1>3. /\ lpc = "loop" /\ started /\ started' /\ seq < MaxSeq
        /\ UNCHANGED <<clean, acked, answer, sent, got, waiting, ack_received,
                       wait_for_ack_sequence, current>>
    BY Zenon DEF IInv, Base, TypeOK, FlagsOK
  <1> HIDE DEF b
  <1>4. Base'
    <2>1. FlagsOK'
      BY Zenon DEF IInv, Base, TypeOK, FlagsOK
    <2>2. seq' \in 0..MaxSeq /\ lpc' \in {"loop", "wait"}
      BY <1>2, <1>3 DEF IInv, Base, TypeOK
    <2>3. TypeOK'
      BY <1>1, <2>1, <2>2, Zenon DEF IInv, Base, TypeOK
    <2> QED BY <1>2, <1>3, <2>3 DEF IInv, Base
  <1>5. ASSUME clean PROVE Session'
    <2> USE <1>5 DEF IInv, Session
    <2>0. /\ seq \in Nat
          /\ \A x \in sent : x.q \in Nat
          /\ \A k \in DOMAIN stream : stream[k].q \in Nat
      <3>1. \A x \in Block : x.q \in Nat
        BY DEF Block
      <3>2. sent \subseteq Block /\ stream \in Seq(Block) /\ seq \in Nat
        BY DEF Base, TypeOK
      <3> QED BY <3>1, <3>2
    <2>1. Answering'
      BY <1>3, Zenon DEF Answering
    <2>2. Prefix(seq)'
      BY <1>2, <1>3, <2>0 DEF Prefixes, Prefix
    <2>3. Prefixes'
      BY <1>0, <1>1, <1>3, <2>2, Zenon DEF Prefixes, Prefix
    <2>4. \A k \in DOMAIN stream : ~stream[k].ack
      BY <1>3, Zenon DEF Unread
    <2>5. b \notin sent
      BY <1>0, <1>3, <2>0 DEF Ordered, Behind
    <2>6. Unread'
      BY <1>0, <1>1, <1>2, <1>3, <2>4, <2>5, Zenon DEF Unread
    <2>7. Waiting'
      BY <1>3 DEF Waiting
    <2>8. Ordered'
      BY <1>0, <1>1, <1>2, <1>3, <2>0 DEF Ordered, Behind
    <2> QED BY <2>1, <2>3, <2>6, <2>7, <2>8, Zenon
  <1> QED BY <1>3, <1>4, <1>5 DEF IInv

\* The logger waits.  The answer it goes on with is to a block that arrived, so
\* the sender neither has this block still to send nor waits for it.
LEMMA WaitSteps == ASSUME IInv, Elapse \/ Wait PROVE IInv'
  <1> USE StreamConstants
  <1> USE DEF commandVars, senderVars, waitVars, linkVars, loggerVars
  <1>1. CASE Elapse \/ OtherAck \/ AckTimeout
    <2> USE <1>1 DEF Elapse, OtherAck, AckTimeout
    <2>1. FlagsOK'
      BY Zenon DEF IInv, Base, TypeOK, FlagsOK
    <2>2. Base'
      BY <2>1 DEF IInv, Base, TypeOK
    <2>3. /\ UNCHANGED <<seq, clean, acked, sent, got, stream, current, waiting, ack_received,
                         wait_for_ack_sequence>>
          /\ answer' \in {answer, None}
          /\ started' => started /\ lpc' = lpc
      BY Zenon DEF IInv, Base, TypeOK
    <2>4. wait_for_ack_sequence # None
      BY DEF IInv, Base, TypeOK
    <2>5. ASSUME clean PROVE Session'
      <3>1. Session
        BY <2>5, Zenon DEF IInv
      <3>2. Answering' /\ Prefixes'
        BY <2>3, <3>1, Zenon DEF Session, Answering, Prefixes, Prefix
      <3>3. Unread' /\ Ordered'
        BY <2>3, <3>1, Zenon DEF Session, Unread, Ordered, Behind
      <3>4. Waiting'
        BY <2>3, <2>4, <3>1, Zenon DEF Session, Waiting
      <3> QED BY <3>2, <3>3, <3>4, Zenon DEF Session
    <2> QED BY <2>2, <2>3, <2>5, Zenon DEF IInv
  <1>2. CASE GotAck
    <2>0. /\ UNCHANGED <<started, clean, sent, got, stream, current, waiting, ack_received,
                         wait_for_ack_sequence>>
          /\ lpc = "wait" /\ lpc' = "loop" /\ answer = seq /\ answer' = None /\ seq' = seq + 1
          /\ acked' = acked \cup {This(TRUE)}
      BY <1>2, Zenon DEF GotAck
    <2>1. FlagsOK'
      BY <1>2, Zenon DEF GotAck, IInv, Base, TypeOK, FlagsOK
    <2>2. seq \in Nat /\ seq < MaxSeq /\ started
      BY <2>0 DEF IInv, Base, TypeOK
    <2>3. This(TRUE) \in Block /\ This(TRUE) = Reliable(seq)
      BY <2>2 DEF This, Block, Reliable
    <2>4. Base'
      <3>1. seq' \in 0..MaxSeq
        BY <2>0, <2>2
      <3>2. acked' \subseteq Block
        BY <2>0, <2>3, Zenon DEF IInv, Base, TypeOK
      <3>3. TypeOK'
        BY <1>2, <2>1, <3>1, <3>2, Zenon DEF GotAck, IInv, Base, TypeOK
      <3> QED BY <2>0, <3>3, Zenon DEF IInv, Base
    <2>5. ASSUME clean PROVE Session'
      <3>0. Base /\ Answering /\ Prefixes /\ Unread /\ Waiting /\ Ordered
        BY <2>5, Zenon DEF IInv, Session
      <3>1. Reliable(seq) \in got /\ Reliable(seq) \in sent
        <4>1. answer # None
          BY <2>0, <2>2, Zenon
        <4> QED BY <2>0, <3>0, <4>1, Zenon DEF Answering
      <3>2. Answering'
        BY <2>0, <2>3, <3>0, <3>1, Zenon DEF Answering
      <3>3. Prefixes'
        <4>1. ASSUME NEW q \in 0..(Header - 1), q < seq' PROVE Reliable(q) \in acked'
          <5>1. q < seq \/ q = seq
            BY <2>0, <2>2, <4>1
          <5> QED BY <2>0, <2>3, <3>0, <5>1, Zenon DEF Prefixes, Prefix
        <4>2. Prefix(seq)'
          BY <4>1, Zenon DEF Prefix
        <4> QED BY <2>0, <3>0, <4>2, Zenon DEF Prefixes, Prefix
      <3>4. Unread'
        <4>1. ASSUME NEW k \in DOMAIN stream, stream[k].ack PROVE FALSE
          <5>1. stream[k] \in Block
            BY <3>0 DEF Base, TypeOK
          <5>2. stream[k] \notin sent /\ stream[k].q = seq
            BY <2>2, <3>0, <4>1, Zenon DEF Unread
          <5>3. stream[k] = Reliable(seq)
            BY <4>1, <5>1, <5>2, BlockFields, Zenon
          <5> QED BY <3>1, <5>2, <5>3, Zenon
        <4> QED BY <2>0, <4>1, Zenon DEF Unread
      <3>5. Waiting'
        <4>1. ~(waiting /\ ~ack_received)
          BY <2>0, <2>2, <3>0, Zenon DEF Waiting
        <4>2. waiting' = waiting /\ ack_received' = ack_received
          BY <2>0, Zenon
        <4> QED BY <4>1, <4>2, Zenon DEF Waiting
      <3>6. Ordered'
        <4>1. /\ \A x \in Block : x.q \in Nat
              /\ sent \subseteq Block /\ stream \in Seq(Block)
          BY <3>0 DEF Base, TypeOK, Block
        <4> QED BY <2>0, <2>2, <3>0, <4>1 DEF Ordered, Behind
      <3> QED BY <3>2, <3>3, <3>4, <3>5, <3>6, Zenon DEF Session
    <2> QED BY <2>0, <2>4, <2>5, Zenon DEF IInv
  <1> QED BY <1>1, <1>2, Zenon DEF Wait

(***************************************************************************)
(* The inductive invariant: what logger, topic, sender and ground station  *)
(* know of each other in a clean session.                                  *)
(***************************************************************************)
THEOREM Invariance == Spec => []IInv
  <1>1. IInv /\ UNCHANGED vars => IInv'
    <2> SUFFICES ASSUME IInv, UNCHANGED vars PROVE IInv'
      BY Zenon
    <2> USE DEF vars, loggerVars, commandVars, senderVars, waitVars, linkVars
    <2>1. FlagsOK'
      BY Zenon DEF IInv, Base, TypeOK, FlagsOK
    <2>2. Base'
      BY <2>1, Zenon DEF IInv, Base, TypeOK
    <2>3. clean => Session'
      BY Zenon DEF IInv, Session, Answering, Prefixes, Prefix, Unread, Waiting, Ordered, Behind
    <2> QED BY <2>2, <2>3, Zenon DEF IInv
  <1>2. IInv /\ Next => IInv'
    BY ReceiverSteps, SenderSteps, LinkSteps, TakeStep, CommandSteps, PublishStep, WaitSteps, Zenon
       DEF Next, Sender, Turn
  <1> QED BY Initially, <1>1, <1>2, PTL DEF Spec

(***************************************************************************)
(* In a clean session publish_message returns 0 for a reliable block only  *)
(* if the ground station has it, whatever the link loses, repeats or       *)
(* reorders.                                                               *)
(***************************************************************************)
THEOREM AcksAreTrue == Spec => []AckedIsReceived
  <1>1. IInv => AckedIsReceived
    BY Zenon DEF IInv, Session, Answering, AckedIsReceived
  <1> QED BY Invariance, <1>1, PTL

(***************************************************************************)
(* In a clean session no block reaches the ground station before the       *)
(* blocks of the header that precede it.                                   *)
(***************************************************************************)
THEOREM HeaderArrivesFirst == Spec => []HeaderFirst
  <1>1. IInv => HeaderFirst
    BY Zenon DEF IInv, Session, Answering, Prefixes, Prefix, HeaderFirst, Reliable
  <1> QED BY Invariance, <1>1, PTL

(***************************************************************************)
(* In a clean session the block handle_update sends again is the one it    *)
(* waits for an answer to.                                                 *)
(***************************************************************************)
THEOREM ResendsAreWaited == Spec => []ResendIsWaited
  <1>1. IInv => ResendIsWaited
    <2> SUFFICES ASSUME IInv, clean, waiting, ~ack_received
                 PROVE  current # None /\ current.ack /\ current.q = wait_for_ack_sequence
      BY Zenon DEF ResendIsWaited
    <2>1. current = Reliable(wait_for_ack_sequence) /\ current \in Block
      BY Zenon DEF IInv, Base, Session, Waiting
    <2> QED BY <2>1, StreamConstants, Zenon DEF Reliable
  <1> QED BY Invariance, <1>1, PTL
=============================================================================
