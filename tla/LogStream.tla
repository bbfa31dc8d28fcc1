------------------------------ MODULE LogStream ------------------------------
(***************************************************************************)
(* The log streamed over MAVLink: the logger's thread (LogWriterMavlink,   *)
(* Logger), which publishes blocks of the log to ulog_stream and waits for *)
(* an answer to each reliable one; the thread of the link (MavlinkULog),   *)
(* which sends them, and a reliable one again until it is answered; the    *)
(* link's receiver, which passes answers and commands on; and the ground   *)
(* station, which answers every reliable block it gets.                    *)
(*                                                                         *)
(* The link may lose, delay, repeat and reorder: what was sent once may    *)
(* arrive at any later time, and so may the answer to what arrived.  A     *)
(* block is its msg_sequence and its flag FLAGS_NEED_ACK, and every session *)
(* counts from 0 again.  A session is clean when nothing of an earlier one *)
(* is left, on the link or in the sender, as it starts; in one that is not *)
(* clean, an answer to any block may come at any time.                     *)
(***************************************************************************)
EXTENDS Naturals, Sequences

CONSTANTS Header,       \* number of reliable blocks that start a log
          MaxSeq,       \* bound: blocks of a session
          QueueLength,  \* ORB_QUEUE_LENGTH of ulog_stream
          MaxTries,     \* ACK_MAX_TRIES
          MaxCommands,  \* bound: commands the logger has not handled
          None

Block == [q : 0..MaxSeq, ack : BOOLEAN]

ASSUME StreamConstants ==
  /\ Header \in Nat \ {0} /\ MaxSeq \in Nat /\ Header <= MaxSeq
  /\ QueueLength \in Nat \ {0} /\ MaxTries \in Nat \ {0}
  /\ MaxCommands \in Nat
  /\ None \notin Block \cup Nat

VARIABLES started,      \* _is_started
          seq,          \* msg_sequence
          lpc,          \* the logger is in its loop or in publish_message
          late,         \* 2.5 s of that call are over
          answer,       \* ulog_stream_ack, if it is new to the logger
          cmds,         \* vehicle_command, as far as the logger has not read
          accepted,     \* a vehicle_command_ack of LOGGING_START is unread
          stream,       \* ulog_stream, as far as the sender has not read
          instance,     \* _instance: the stream exists
          stop_requested,
          rpc,          \* the receiver is about to set _mavlink_ulog_stop_requested
          mpc,          \* the sender is in its main loop or in handle_update's
          initial,      \* _waiting_for_initial_ack
          waiting,      \* _last_sent_time is not 0 otherwise
          ack_received, wait_for_ack_sequence, sent_tries,
          current,      \* the block _ulog_stream_sub.get() returns
          clean,        \* the session is clean, and if it is:
          sent, got,    \* its blocks that were sent, and that arrived
          acked         \* its blocks the logger has seen an answer to

loggerVars == <<started, seq, lpc, late, clean, acked>>
commandVars == <<cmds, accepted, stop_requested, rpc>>
waitVars == <<waiting, ack_received, wait_for_ack_sequence, sent_tries, current>>
senderVars == <<instance, mpc, initial, waitVars>>
linkVars == <<sent, got>>
vars == <<loggerVars, answer, commandVars, stream, senderVars, linkVars>>

FlagsOK ==
  /\ started \in BOOLEAN /\ late \in BOOLEAN /\ clean \in BOOLEAN
  /\ accepted \in BOOLEAN /\ stop_requested \in BOOLEAN
  /\ instance \in BOOLEAN /\ initial \in BOOLEAN
  /\ waiting \in BOOLEAN /\ ack_received \in BOOLEAN

TypeOK ==
  /\ FlagsOK
  /\ lpc \in {"loop", "wait"} /\ rpc \in {"loop", "stop"} /\ mpc \in {"loop", "update"}
  /\ seq \in 0..MaxSeq /\ answer \in 0..MaxSeq \cup {None}
  /\ cmds \in Seq({"start", "stop"}) /\ stream \in Seq(Block)
  /\ wait_for_ack_sequence \in 0..MaxSeq /\ sent_tries \in 0..MaxTries
  /\ current \in Block \cup {None}
  /\ sent \subseteq Block /\ got \subseteq Block /\ acked \subseteq Block

Init ==
  /\ started = FALSE /\ seq = 0 /\ lpc = "loop" /\ late = FALSE
  /\ clean = FALSE /\ acked = {}
  /\ answer = None
  /\ cmds = <<>> /\ accepted = FALSE /\ stop_requested = FALSE /\ rpc = "loop"
  /\ stream = <<>>
  /\ instance = FALSE /\ mpc = "loop" /\ initial = FALSE
  /\ waiting = FALSE /\ ack_received = FALSE /\ wait_for_ack_sequence = 0
  /\ sent_tries = 0 /\ current = None
  /\ sent = {} /\ got = {}

-----------------------------------------------------------------------------
(* The receiver of the link.                                               *)

\* The constructor of MavlinkULog reads what is in the topic and does not
\* initialise _wait_for_ack_sequence.
try_start ==
  IF instance
  THEN UNCHANGED <<stream, senderVars>>
  ELSE /\ stream' = <<>>
       /\ instance' = TRUE /\ initial' = TRUE
       /\ waiting' = FALSE /\ ack_received' = FALSE /\ sent_tries' = 0
       /\ wait_for_ack_sequence' \in 0..MaxSeq
       /\ current' = None
       /\ UNCHANGED mpc

CommandStart ==
  /\ rpc = "loop" /\ Len(cmds) < MaxCommands
  /\ try_start
  /\ cmds' = Append(cmds, "start")
  /\ UNCHANGED <<loggerVars, answer, accepted, stop_requested, rpc, linkVars>>

\* request_stop_ulog_streaming tests the pointer and then sets the flag.
CommandStop ==
  /\ rpc = "loop" /\ Len(cmds) < MaxCommands
  /\ \/ instance /\ rpc' = "stop" /\ UNCHANGED cmds
     \/ ~instance /\ cmds' = Append(cmds, "stop") /\ UNCHANGED rpc
  /\ UNCHANGED <<loggerVars, answer, accepted, stop_requested, stream,
                 senderVars, linkVars>>

request_stop ==
  /\ rpc = "stop"
  /\ stop_requested' = TRUE /\ rpc' = "loop"
  /\ cmds' = Append(cmds, "stop")
  /\ UNCHANGED <<loggerVars, answer, accepted, stream, senderVars, linkVars>>

publish_ack(q) == answer' = q

\* The answers that may be on their way.
Answers == IF clean THEN {b.q : b \in {g \in got : g.ack}} ELSE 0..MaxSeq

handle_ack(q) ==
  /\ rpc = "loop" /\ q \in Answers
  /\ instance /\ wait_for_ack_sequence = q
  /\ ack_received' = TRUE
  /\ publish_ack(q)
  /\ UNCHANGED <<loggerVars, commandVars, stream, instance, mpc, initial, waiting,
                 wait_for_ack_sequence, sent_tries, current, linkVars>>

-----------------------------------------------------------------------------
(* The thread of the link: one turn of its loop, and handle_update.        *)

stop ==
  /\ instance' = FALSE /\ initial' = FALSE /\ mpc' = "loop"
  /\ waiting' = FALSE /\ ack_received' = FALSE /\ wait_for_ack_sequence' = 0
  /\ sent_tries' = 0 /\ current' = None
  /\ stream' = <<>>

StopRequested ==
  /\ mpc = "loop" /\ instance /\ stop_requested
  /\ stop /\ stop_requested' = FALSE
  /\ UNCHANGED <<loggerVars, answer, cmds, accepted, rpc, linkVars>>

\* The acknowledgement of LOGGING_START is read, whatever its result, and
\* whether or not there is a stream.
start_ack_received ==
  /\ mpc = "loop" /\ accepted
  /\ accepted' = FALSE
  /\ initial' = (initial /\ stop_requested)
  /\ UNCHANGED <<loggerVars, answer, cmds, stop_requested, rpc, stream,
                 instance, mpc, waitVars, linkVars>>

NoInitialAck ==
  /\ mpc = "loop" /\ instance /\ ~stop_requested /\ initial
  /\ stop
  /\ UNCHANGED <<loggerVars, answer, commandVars, linkVars>>

Send(b) == sent' = IF clean THEN sent \cup {b} ELSE sent

Updating == mpc = "loop" /\ instance /\ ~stop_requested /\ ~initial

Answered ==
  /\ Updating /\ (waiting => ack_received)
  /\ mpc' = "update" /\ waiting' = FALSE
  /\ UNCHANGED <<loggerVars, answer, commandVars, stream, instance, initial,
                 ack_received, wait_for_ack_sequence, sent_tries, current, linkVars>>

ResendUncounted ==
  /\ Updating /\ waiting /\ ~ack_received /\ sent_tries < MaxTries
  /\ Send([current EXCEPT !.ack = TRUE])
  /\ UNCHANGED <<loggerVars, answer, commandVars, stream, senderVars, got>>

Resend ==
  /\ Updating /\ waiting /\ ~ack_received /\ sent_tries < MaxTries
  /\ sent_tries' = sent_tries + 1
  /\ Send([current EXCEPT !.ack = TRUE])
  /\ UNCHANGED <<loggerVars, answer, commandVars, stream, instance, mpc, initial,
                 waiting, ack_received, wait_for_ack_sequence, current, got>>

TooManyTries ==
  /\ Updating /\ waiting /\ ~ack_received /\ sent_tries = MaxTries
  /\ stop
  /\ UNCHANGED <<loggerVars, answer, commandVars, linkVars>>

Take ==
  /\ mpc = "update" /\ stream # <<>>
  /\ stream' = Tail(stream) /\ current' = Head(stream)
  /\ Send(Head(stream))
  /\ IF Head(stream).ack
     THEN /\ sent_tries' = 1 /\ waiting' = TRUE
          /\ wait_for_ack_sequence' = Head(stream).q /\ ack_received' = FALSE
     ELSE UNCHANGED <<sent_tries, waiting, wait_for_ack_sequence, ack_received>>
  /\ UNCHANGED <<loggerVars, answer, commandVars, instance, mpc, initial, got>>

\* The topic has no more, or the rate of the link is used up.
Updated ==
  /\ mpc = "update" /\ mpc' = "loop"
  /\ UNCHANGED <<loggerVars, answer, commandVars, stream, instance, initial,
                 waitVars, linkVars>>

-----------------------------------------------------------------------------
(* The logger's thread.  It handles commands between two rounds of its     *)
(* loop, and start_log_mavlink writes the header before it returns.        *)

InLoop == lpc = "loop" /\ (started => seq >= Header)

\* Nothing of an earlier session is left in the sender.
Fresh == stream = <<>> /\ ~waiting

StartLogWithStaleAck ==
  /\ seq' = 0 /\ started' = TRUE
  /\ UNCHANGED answer

start_log ==
  /\ answer' = None
  /\ seq' = 0 /\ started' = TRUE

\* clean': nothing is left on the link either.
LoggingStart ==
  /\ InLoop /\ cmds # <<>> /\ Head(cmds) = "start" /\ ~started
  /\ cmds' = Tail(cmds) /\ accepted' = TRUE
  /\ start_log
  /\ \/ Fresh /\ clean' = TRUE
     \/ clean' = FALSE
  /\ sent' = {} /\ got' = {} /\ acked' = {}
  /\ UNCHANGED <<lpc, late, stop_requested, rpc, stream, senderVars>>

\* VEHICLE_CMD_RESULT_TEMPORARILY_REJECTED
LoggingStartRejected ==
  /\ InLoop /\ cmds # <<>> /\ Head(cmds) = "start" /\ started
  /\ cmds' = Tail(cmds) /\ accepted' = TRUE
  /\ UNCHANGED <<loggerVars, answer, stop_requested, rpc, stream, senderVars,
                 linkVars>>

LoggingStop ==
  /\ InLoop /\ cmds # <<>> /\ Head(cmds) = "stop"
  /\ cmds' = Tail(cmds) /\ started' = FALSE
  /\ UNCHANGED <<seq, lpc, late, clean, acked, answer, accepted,
                 stop_requested, rpc, stream, senderVars, linkVars>>

\* A topic that is full loses its oldest message.
Published(b) ==
  IF ~instance THEN <<>>
  ELSE IF Len(stream) < QueueLength THEN Append(stream, b)
  ELSE Append(Tail(stream), b)

This(reliable) == [q |-> seq, ack |-> reliable]

PublishWithoutWaiting(reliable) ==
  /\ lpc = "loop" /\ started /\ seq < MaxSeq
  /\ seq < Header => reliable
  /\ stream' = Published(This(reliable))
  /\ seq' = seq + 1
  /\ UNCHANGED <<started, lpc, late, clean, acked, answer, commandVars, senderVars,
                 linkVars>>

publish_message(reliable) ==
  /\ lpc = "loop" /\ started /\ seq < MaxSeq
  /\ seq < Header => reliable
  /\ stream' = Published(This(reliable))
  /\ IF reliable THEN lpc' = "wait" /\ late' = FALSE /\ UNCHANGED seq
                 ELSE seq' = seq + 1 /\ UNCHANGED <<lpc, late>>
  /\ UNCHANGED <<started, clean, acked, answer, commandVars,
                 senderVars, linkVars>>

Elapse ==
  /\ lpc = "wait" /\ ~late /\ late' = TRUE
  /\ UNCHANGED <<started, seq, lpc, clean, acked, answer, commandVars,
                 stream, senderVars, linkVars>>

GotAnyAck ==
  /\ lpc = "wait" /\ answer # None
  /\ answer' = None /\ lpc' = "loop" /\ seq' = seq + 1 /\ late' = FALSE
  /\ acked' = acked \cup {This(TRUE)}
  /\ UNCHANGED <<started, clean, commandVars, stream, senderVars, linkVars>>

GotAck ==
  /\ lpc = "wait" /\ answer = seq
  /\ answer' = None /\ lpc' = "loop" /\ seq' = seq + 1 /\ late' = FALSE
  /\ acked' = acked \cup {This(TRUE)}
  /\ UNCHANGED <<started, clean, commandVars, stream, senderVars,
                 linkVars>>

OtherAck ==
  /\ lpc = "wait" /\ answer \notin {None, seq} /\ ~late
  /\ answer' = None
  /\ UNCHANGED <<loggerVars, commandVars, stream, senderVars, linkVars>>

AckTimeoutRetries ==
  /\ lpc = "wait" /\ late /\ answer # seq
  /\ stream' = Published(This(TRUE)) /\ late' = FALSE /\ answer' = None
  /\ UNCHANGED <<started, seq, lpc, clean, acked, commandVars, senderVars, linkVars>>

\* The poll timed out, or it was woken by another answer when time was up.
AckTimeout ==
  /\ lpc = "wait" /\ late /\ answer # seq
  /\ started' = FALSE /\ lpc' = "loop" /\ late' = FALSE /\ answer' = None
  /\ UNCHANGED <<seq, clean, acked, commandVars, stream, senderVars,
                 linkVars>>

-----------------------------------------------------------------------------
\* The ground station gets b.
Deliver(b) ==
  /\ b \in sent \ got /\ got' = got \cup {b}
  /\ UNCHANGED <<loggerVars, answer, commandVars, stream, senderVars, sent>>

Commands == CommandStart \/ CommandStop
Receiver == request_stop \/ \E q \in 0..MaxSeq : handle_ack(q)
Turn == StopRequested \/ NoInitialAck \/ Answered \/ Resend \/ TooManyTries
Sender == Turn \/ start_ack_received \/ Take \/ Updated
Handle == LoggingStart \/ LoggingStartRejected \/ LoggingStop
Wait == GotAck \/ OtherAck \/ AckTimeout

Next ==
  \/ Commands \/ Receiver \/ Sender \/ Handle \/ Wait \/ Elapse
  \/ \E r \in BOOLEAN : publish_message(r)
  \/ \E b \in Block : Deliver(b)

Spec == Init /\ [][Next]_vars

\* Both threads run and time passes for both; the rate of the link bounds the
\* blocks of one handle_update.
Fairness == WF_vars(Turn) /\ WF_vars(Updated) /\ WF_vars(Elapse) /\ WF_vars(Wait)

FairSpec == Spec /\ Fairness

-----------------------------------------------------------------------------
(* Properties.                                                             *)

\* In a clean session, whatever the link loses, repeats or reorders and
\* whenever the stream is stopped and started again, the logger goes on after a
\* reliable block (publish_message returns 0) only if that block has arrived.
AckedIsReceived == clean => acked \subseteq got

\* In a clean session the ground station gets no block, reliable or not, before
\* it has the blocks of the header that precede it: without the formats in the
\* header the data cannot be read (start_log_mavlink).
HeaderFirst ==
  clean => \A b \in got : \A q \in 0..(Header - 1) :
             q < b.q => [q |-> q, ack |-> TRUE] \in got

\* In a clean session, what handle_update sends again (the last block it read)
\* is the block it waits for, though it goes on reading blocks after a reliable
\* one: the logger publishes nothing more until the answer is there.
ResendIsWaited ==
  clean /\ waiting /\ ~ack_received =>
    current # None /\ current.ack /\ current.q = wait_for_ack_sequence

\* The logger's thread is not held for ever by publish_message, also if the
\* stream it waits for was stopped, or answers to other blocks keep coming.
LoggerIsReleased == (lpc = "wait") ~> (lpc # "wait")

\* A stream that waits for an answer gets it or is stopped, also if the logger
\* has given up or the ground station is gone.
AnsweredOrStopped == waiting ~> ~waiting
=============================================================================
