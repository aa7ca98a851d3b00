-------------------------- MODULE ChannelDelivery --------------------------
(***************************************************************************)
(* From a turn to the chat: the publisher of a turn (TurnDelivery), the    *)
(* one outbound dispatcher of the gateway (ChannelManager), and a channel  *)
(* that shows a streamed answer by sending one message and editing it      *)
(* (TelegramChannel).                                                      *)
(*                                                                         *)
(* A session publishes the pieces of its answer as deltas of a stream.     *)
(* A tool call or the end of the answer closes the stream and the next     *)
(* piece opens another one.  The dispatcher merges deltas that wait side   *)
(* by side, and retries a send that raises.  The channel keeps one buffer  *)
(* per chat.  Several sessions may share a chat: each topic of a Telegram  *)
(* group is a session of its own.                                          *)
(***************************************************************************)
EXTENDS Integers, Sequences, FiniteSets

CONSTANTS
    Talkers,       \* the sessions whose turns publish
    Chats,         \* the chats of the channel
    ChatOf,        \* the chat of each session
    LastStream,    \* bound: streams of each session
    LastPiece,     \* bound: pieces of a stream of each
    LastFollowUp,  \* bound: follow-up answers to a message of each
    OutboundCap,   \* bound: messages waiting
    SendTries,     \* channels.send_max_retries
    MaxSendFaults  \* bound: messages a send of which raises, and channel reloads

ASSUME DeliveryAssumption ==
    /\ ChatOf \in [Talkers -> Chats]
    /\ LastStream \in [Talkers -> Nat \ {0}] /\ LastPiece \in [Talkers -> Nat \ {0}]
    /\ LastFollowUp \in [Talkers -> Nat] /\ OutboundCap \in Nat /\ SendTries \in Nat \ {0}
    /\ MaxSendFaults \in Nat

VARIABLES
    turnOf,      \* per session: is a turn running, its stream, is it open
    wrote,       \* per stream: how many pieces were published
    outbound,    \* MessageBus.outbound
    aside,       \* `pending` of _dispatch_outbound
    hand,        \* the message being sent, as a sequence of at most one
    tries,       \* `attempt` of _send_with_retry
    stale,       \* the send goes to a channel object that was replaced
    enabled,     \* is the channel in ChannelManager.channels?
    buffers,     \* per chat: _stream_bufs.get(chat_id), a sequence of at most one
    screen,      \* per chat: the streamed messages the user sees
    fingerprint, \* _origin_reply_fingerprints
    said,        \* plain messages that reached the chat
    suppressed,  \* history: plain messages dropped as duplicates
    spoiled,     \* history: what a failed send or a missing channel touched
    taken,       \* history: streams that lost their buffer to another session
    sendFaults   \* counts the faults, up to MaxSendFaults

turnVars    == <<turnOf, wrote>>
channelVars == <<buffers, screen>>
replyVars   == <<fingerprint, said, suppressed>>
deliveryVars == <<turnOf, wrote, outbound, aside, hand, tries, stale, enabled, buffers,
                  screen, fingerprint, said, suppressed, spoiled, taken, sendFaults>>

(***************************************************************************)
(* Messages.  A stream is named <<session, number>> (the stream_id), a     *)
(* plain message by the same pair: its session and its message_id.         *)
(***************************************************************************)
Streams == UNION {{s} \X (1 .. LastStream[s]) : s \in Talkers}
Apology == 0      \* "Sorry, I encountered an error."
Answers == {1}    \* a plain answer; the apology is another text

DeltaOf(id, text)     == [kind |-> "delta", id |-> id, text |-> text]
EndOf(id, merge)      == [kind |-> IF merge THEN "merge" ELSE "end", id |-> id, text |-> <<>>]
ReplyTo(id, answer)   == [kind |-> "reply", id |-> id, text |-> <<answer>>]
FollowUpOn(id, answer) == [kind |-> "followup", id |-> id, text |-> <<answer>>]

IsPlain(msg) == msg.kind \in {"reply", "followup"}
Room(n)      == Len(outbound) + n <= OutboundCap

(***************************************************************************)
(* The publisher of a turn.                                                *)
(***************************************************************************)
Talking(s)  == turnOf[s].live
StreamOf(s) == <<s, turnOf[s].stream>>
Publish(msgs) ==
    /\ outbound' = outbound \o msgs
    /\ UNCHANGED <<aside, hand, tries, stale, enabled, channelVars, replyVars,
                   spoiled, taken, sendFaults>>

\* A turn starts: TurnDelivery gets a fresh _stream_base_id.
TurnStarts(s) ==
    /\ ~Talking(s) /\ turnOf[s].stream < LastStream[s]
    /\ turnOf' = [turnOf EXCEPT ![s] = [live |-> TRUE, stream |-> @.stream + 1,
                                        open |-> FALSE, merged |-> 0, again |-> 0]]
    /\ UNCHANGED wrote
    /\ Publish(<<>>)

\* _publish_stream: the next piece of the stream.
StreamsPiece(s) ==
    /\ Talking(s) /\ wrote[StreamOf(s)] < LastPiece[s] /\ Room(1)
    /\ turnOf' = [turnOf EXCEPT ![s].open = TRUE]
    /\ wrote' = [wrote EXCEPT ![StreamOf(s)] = @ + 1]
    /\ Publish(<<DeltaOf(StreamOf(s), <<wrote'[StreamOf(s)]>>)>>)

\* _publish_stream_end at a tool call: the turn goes on in a new stream.
StreamBoundary(s) ==
    /\ Talking(s) /\ Room(1) /\ turnOf[s].stream < LastStream[s]
    /\ turnOf' = [turnOf EXCEPT ![s].stream = @ + 1, ![s].open = FALSE, ![s].merged = 0]
    /\ UNCHANGED wrote
    /\ Publish(<<EndOf(StreamOf(s), FALSE)>>)

\* The same with merge_next, after an answer that hit the length limit: what
\* follows belongs to the same stream, which stays open.
MergeBoundary(s) ==
    /\ Talking(s) /\ Room(1) /\ wrote[StreamOf(s)] > turnOf[s].merged
    /\ turnOf' = [turnOf EXCEPT ![s].merged = wrote[StreamOf(s)]]
    /\ UNCHANGED wrote
    /\ Publish(<<EndOf(StreamOf(s), TRUE)>>)

\* The answer was streamed: on_stream_end, then a StreamedResponseEvent,
\* which _send_once does not send.
StreamedTurnEnds(s) ==
    /\ Talking(s) /\ turnOf[s].open /\ Room(1)
    /\ turnOf' = [turnOf EXCEPT ![s].live = FALSE, ![s].open = FALSE]
    /\ UNCHANGED wrote
    /\ Publish(<<EndOf(StreamOf(s), FALSE)>>)

\* The answer was not streamed: complete() publishes it whole.
PlainTurnEnds(s, answer) ==
    /\ Talking(s) /\ ~turnOf[s].open /\ Room(1)
    /\ turnOf' = [turnOf EXCEPT ![s].live = FALSE]
    /\ UNCHANGED wrote
    /\ Publish(<<ReplyTo(StreamOf(s), answer)>>)

\* abort_stream closes what is open.
\* (Mutant: it is left open.)
Aborted(s) == IF turnOf[s].open THEN <<EndOf(StreamOf(s), FALSE)>> ELSE <<>>

\* The turn is cancelled, or raises: then fail() apologises.
TurnAborts(s, apology) ==
    /\ Talking(s) /\ Room(2)
    /\ turnOf' = [turnOf EXCEPT ![s].live = FALSE, ![s].open = FALSE]
    /\ UNCHANGED wrote
    /\ Publish(Aborted(s) \o apology)

\* A system turn, run for the result of a subagent, answers an earlier
\* message again: its metadata names it as origin_message_id.
FollowUp(s, answer) ==
    /\ ~Talking(s) /\ turnOf[s].stream > 0 /\ Room(1)
    /\ turnOf[s].again < LastFollowUp[s]
    /\ turnOf' = [turnOf EXCEPT ![s].again = @ + 1]
    /\ UNCHANGED wrote
    /\ Publish(<<FollowUpOn(StreamOf(s), answer)>>)

(***************************************************************************)
(* _dispatch_outbound: take the next message.  Deltas of one stream that   *)
(* wait side by side become one; the message that ends the run is kept     *)
(* aside, because a queue has no push_front.                               *)
(***************************************************************************)
First  == IF aside # <<>> THEN Head(aside) ELSE Head(outbound)
Behind == IF aside # <<>> THEN outbound ELSE Tail(outbound)

\* (Mutant: whatever the stream.)
RunLengthMutant ==
    IF First.kind # "delta" THEN 0
    ELSE LET same(n) == \A i \in 1 .. n : Behind[i].kind = "delta"
         IN CHOOSE n \in 0 .. Len(Behind) :
                same(n) /\ (n < Len(Behind) => ~same(n + 1))
RunLength ==
    IF First.kind # "delta" THEN 0
    ELSE LET same(n) == \A i \in 1 .. n : /\ Behind[i].kind = "delta"
                                          /\ Behind[i].id = First.id
         IN CHOOSE n \in 0 .. Len(Behind) :
                same(n) /\ (n < Len(Behind) => ~same(n + 1))

\* A delta that waits holds one piece.
Coalesced ==
    [First EXCEPT !.text = @ \o [i \in 1 .. RunLength |-> Behind[i].text[1]]]

\* _should_suppress_outbound: the same answer to the same message.
\* (Mutant: any answer to the same message.)
DuplicateMutant(msg) == msg.kind = "followup" /\ fingerprint[msg.id] # <<>>
Duplicate(msg) == msg.kind = "followup" /\ fingerprint[msg.id] = msg.text

Take ==
    /\ hand = <<>> /\ (aside # <<>> \/ outbound # <<>>)
    /\ LET boundary == IF First.kind = "delta" /\ RunLength < Len(Behind) THEN 1 ELSE 0
           msg      == Coalesced
       IN /\ aside' = SubSeq(Behind, RunLength + 1, RunLength + boundary)
          /\ outbound' = SubSeq(Behind, RunLength + boundary + 1, Len(Behind))
          /\ hand' = IF enabled /\ ~Duplicate(msg) THEN <<msg>> ELSE <<>>
          /\ fingerprint' = IF enabled /\ IsPlain(msg)
                              THEN [fingerprint EXCEPT ![msg.id] = msg.text]
                              ELSE fingerprint
          /\ suppressed' = IF enabled /\ Duplicate(msg)
                             THEN suppressed \cup {<<msg.id, msg.text[1]>>} ELSE suppressed
          /\ spoiled' = IF enabled THEN spoiled ELSE spoiled \cup {msg.id}
    /\ tries' = 0 /\ stale' = FALSE
    /\ UNCHANGED <<turnVars, enabled, channelVars, said, taken, sendFaults>>

(***************************************************************************)
(* The channel.  A send may raise before the platform showed anything      *)
(* ("refused") or after (a timeout: "unheard").                            *)
(***************************************************************************)
Outcomes == {"sent", "refused", "unheard"}
Msg      == hand[1]
Chat     == ChatOf[Msg.id[1]]
Buffer   == buffers[Chat]

OnScreen(text) ==
    [screen EXCEPT ![Chat] = Append(@, [id |-> Msg.id, text |-> text])]
Edited(place, text) == [screen EXCEPT ![Chat][place].text = text]

\* send_delta of a piece.  The buffer of another stream is replaced, the
\* piece is added to the text, the first piece sends a message and the later
\* ones edit it, at most once per stream_edit_interval ("due").
ShowPiece(outcome, due) ==
    LET mine == Buffer # <<>> /\ Buffer[1].id = Msg.id
        buf  == IF mine THEN Buffer[1] ELSE [id |-> Msg.id, text |-> <<>>, message |-> 0]
        text == buf.text \o Msg.text
        first == buf.message = 0
        sends == first \/ due
        shows == sends /\ outcome # "refused"
    IN /\ ~sends => outcome = "sent"
       /\ screen' = IF ~shows THEN screen
                    ELSE IF first THEN OnScreen(text) ELSE Edited(buf.message, text)
       /\ buffers' = [buffers EXCEPT ![Chat] =
                        <<[id |-> Msg.id, text |-> text,
                           message |-> IF first /\ outcome = "sent"
                                         THEN Len(screen[Chat]) + 1 ELSE buf.message]>>]

\* send_delta with stream_end: the last edit, and the buffer is dropped.
\* (Mutant: the throttled text is not flushed.)
ShowEndMutant(outcome) ==
    IF Buffer # <<>> /\ Buffer[1].id = Msg.id /\ Buffer[1].message > 0
    THEN /\ UNCHANGED screen
         /\ buffers' = IF outcome = "sent" THEN [buffers EXCEPT ![Chat] = <<>>] ELSE buffers
    ELSE outcome = "sent" /\ UNCHANGED channelVars
ShowEnd(outcome) ==
    IF Buffer # <<>> /\ Buffer[1].id = Msg.id /\ Buffer[1].message > 0
    THEN /\ screen' = IF outcome = "refused" THEN screen
                      ELSE Edited(Buffer[1].message, Buffer[1].text)
         /\ buffers' = IF outcome = "sent" THEN [buffers EXCEPT ![Chat] = <<>>] ELSE buffers
    ELSE outcome = "sent" /\ UNCHANGED channelVars

\* send of a plain message: it appears, whatever streams.
ShowPlain(outcome) ==
    /\ said' = IF outcome = "refused" THEN said ELSE said \cup {<<Msg.id, Msg.text[1]>>}
    /\ UNCHANGED channelVars

Show(outcome, due) ==
    \/ Msg.kind = "delta" /\ ShowPiece(outcome, due) /\ UNCHANGED said
    \/ Msg.kind = "end"   /\ ShowEnd(outcome) /\ UNCHANGED said
    \/ Msg.kind = "merge" /\ outcome = "sent" /\ UNCHANGED <<channelVars, said>>
    \/ IsPlain(Msg)       /\ ShowPlain(outcome)

\* A piece of one session replaces the buffer of another one in the chat.
Supplanted ==
    IF Msg.kind = "delta" /\ Buffer # <<>> /\ Buffer[1].id[1] # Msg.id[1]
    THEN {Buffer[1].id} ELSE {}

\* One attempt of _send_with_retry.
GivenUp == tries + 1 >= SendTries
Send(outcome, due) ==
    /\ hand # <<>> /\ ~stale
    /\ outcome # "sent" => (tries > 0 \/ sendFaults < MaxSendFaults)
    /\ Show(outcome, due)
    /\ IF outcome = "sent" \/ GivenUp
       THEN hand' = <<>> /\ tries' = 0
       ELSE tries' = tries + 1 /\ UNCHANGED hand
    /\ spoiled' = IF outcome = "sent" THEN spoiled ELSE spoiled \cup {Msg.id}
    /\ taken' = taken \cup Supplanted
    /\ sendFaults' = IF outcome = "sent" \/ tries > 0 THEN sendFaults ELSE sendFaults + 1
    /\ UNCHANGED <<turnVars, outbound, aside, stale, enabled, fingerprint, suppressed>>

\* The retries hold on to the channel object they started with: once it is
\* stopped its methods return without sending.
SendIntoNothing ==
    /\ hand # <<>> /\ stale
    /\ hand' = <<>> /\ tries' = 0 /\ stale' = FALSE
    /\ spoiled' = spoiled \cup {Msg.id}
    /\ UNCHANGED <<turnVars, outbound, aside, enabled, channelVars, replyVars, taken, sendFaults>>

(***************************************************************************)
(* apply_channel_feature_action: the channel is stopped and taken out of   *)
(* the table, or a new object, which knows no stream, is put there.        *)
(***************************************************************************)
Disable ==
    /\ enabled /\ sendFaults < MaxSendFaults
    /\ enabled' = FALSE /\ stale' = (hand # <<>>)
    /\ spoiled' = spoiled \cup {buffers[c][1].id : c \in {d \in Chats : buffers[d] # <<>>}}
    /\ buffers' = [c \in Chats |-> <<>>]
    /\ sendFaults' = sendFaults + 1
    /\ UNCHANGED <<turnVars, outbound, aside, hand, tries, screen, replyVars, taken>>

Enable ==
    /\ ~enabled /\ enabled' = TRUE
    /\ UNCHANGED <<turnVars, outbound, aside, hand, tries, stale, channelVars, replyVars,
                   spoiled, taken, sendFaults>>

(***************************************************************************)
(* The specification.                                                      *)
(***************************************************************************)
DeliveryInit ==
    /\ turnOf = [s \in Talkers |-> [live |-> FALSE, stream |-> 0, open |-> FALSE, merged |-> 0, again |-> 0]]
    /\ wrote = [id \in Streams |-> 0]
    /\ outbound = <<>> /\ aside = <<>> /\ hand = <<>> /\ tries = 0 /\ stale = FALSE
    /\ enabled = TRUE
    /\ buffers = [c \in Chats |-> <<>>] /\ screen = [c \in Chats |-> <<>>]
    /\ fingerprint = [id \in Streams |-> <<>>]
    /\ said = {} /\ suppressed = {} /\ spoiled = {} /\ taken = {} /\ sendFaults = 0

Turns ==
    \E s \in Talkers :
        \/ TurnStarts(s) \/ StreamsPiece(s) \/ StreamBoundary(s) \/ MergeBoundary(s)
        \/ StreamedTurnEnds(s)
        \/ \E answer \in Answers : PlainTurnEnds(s, answer) \/ FollowUp(s, answer)
        \/ TurnAborts(s, <<>>) \/ TurnAborts(s, <<ReplyTo(StreamOf(s), Apology)>>)

Dispatcher ==
    \/ Take \/ SendIntoNothing
    \/ \E outcome \in Outcomes, due \in BOOLEAN : Send(outcome, due)

DeliveryNext == Turns \/ Dispatcher \/ Disable \/ Enable

DeliverySpec == DeliveryInit /\ [][DeliveryNext]_deliveryVars

(***************************************************************************)
(* Properties.                                                             *)
(***************************************************************************)
InFlight(id) ==
    \/ \E i \in 1 .. Len(outbound) : outbound[i].id = id
    \/ \E i \in 1 .. Len(aside) : aside[i].id = id
    \/ \E i \in 1 .. Len(hand) : hand[i].id = id

\* The stream was closed by its turn.
Closed(id) == LET t == turnOf[id[1]]
              IN id[2] < t.stream \/ (id[2] = t.stream /\ ~t.open)
Whole(id)  == [i \in 1 .. wrote[id] |-> i]

\* A waiting delta holds one piece, one that is sent holds several.
Pieces == UNION {1 .. LastPiece[s] : s \in Talkers}
Messages(texts) ==
    [kind : {"delta"}, id : Streams, text : texts]
        \cup [kind : {"end", "merge"}, id : Streams, text : {<<>>}]
        \cup [kind : {"reply", "followup"}, id : Streams, text : [{1} -> Answers \cup {Apology}]]
OnePiece == Messages([{1} -> Pieces])
InHand   == Messages(Seq(Pieces) \ {<<>>})

\* Type invariant.
DeliveryTypeOK ==
    /\ DOMAIN turnOf = Talkers
    /\ \A s \in Talkers :
         turnOf[s] \in [live : BOOLEAN, stream : 0 .. LastStream[s], open : BOOLEAN,
                       merged : 0 .. LastPiece[s], again : 0 .. LastFollowUp[s]]
    /\ DOMAIN wrote = Streams /\ \A id \in Streams : wrote[id] \in 0 .. LastPiece[id[1]]
    /\ outbound \in Seq(OnePiece) /\ Len(outbound) <= OutboundCap
    /\ aside \in Seq(OnePiece) /\ Len(aside) <= 1 /\ hand \in Seq(InHand) /\ Len(hand) <= 1
    /\ tries \in 0 .. SendTries - 1 /\ stale \in BOOLEAN /\ enabled \in BOOLEAN
    /\ screen \in [Chats -> Seq([id : Streams, text : Seq(Pieces)])]
    /\ buffers \in [Chats -> Seq([id : Streams, text : Seq(Pieces) \ {<<>>}, message : Nat])]
    /\ \A c \in Chats : Len(buffers[c]) <= 1
    /\ fingerprint \in [Streams -> {<<>>} \cup [{1} -> Answers \cup {Apology}]]
    /\ said \cup suppressed \subseteq Streams \X (Answers \cup {Apology})
    /\ spoiled \cup taken \subseteq Streams /\ sendFaults \in 0 .. MaxSendFaults

\* A message the user sees holds pieces of one stream, in the order the turn
\* wrote them: merging deltas, the message kept aside and the throttled edits
\* never reorder or drop a piece inside a message.  A piece stands twice only
\* in a stream a send of which raised.
PiecesInOrder ==
    \A c \in Chats : \A m \in 1 .. Len(screen[c]) :
        \A i \in 1 .. Len(screen[c][m].text) - 1 :
            LET this == screen[c][m].text[i]
                next == screen[c][m].text[i + 1]
            IN next = this + 1 \/ (next <= this /\ screen[c][m].id \in spoiled)

\* The user sees all of the stream in one message.
OnOneScreen(id) ==
    \E m \in 1 .. Len(screen[ChatOf[id[1]]]) :
        LET shown == screen[ChatOf[id[1]]][m]
        IN shown.id = id /\ shown.text = Whole(id)

\* The user sees all of the stream, and the chat's buffer no longer holds it.
Complete(id) ==
    /\ wrote[id] > 0 => OnOneScreen(id)
    /\ \A c \in Chats : buffers[c] # <<>> => buffers[c][1].id # id

\* Once a stream was closed and nothing of it is under way, also when its
\* turn was cancelled (abort_stream is there for this), the user sees all of
\* it in one message, however the streams of a chat follow each other and mix,
\* unless a send of it raised or the channel was reloaded, or a stream of
\* another session took the chat's one buffer from it while it was open.
StreamsComplete ==
    \A id \in Streams \ (spoiled \cup taken) :
        Closed(id) /\ ~InFlight(id) => Complete(id)

\* The same of all sessions that share a chat: "Stateful implementations
\* should key buffers by stream_id rather than only by chat_id"
\* (BaseChannel.send_delta, channels/base.py:120).
SharedChatsComplete ==
    \A id \in Streams \ spoiled : Closed(id) /\ ~InFlight(id) => Complete(id)

\* An answer is dropped as a duplicate only when the same answer to the same
\* message reached the chat, or its send was tried and raised: the
\* fingerprint is recorded before the send.
SuppressedWasSaid ==
    \A dropped \in suppressed : dropped \in said \/ dropped[1] \in spoiled

(***************************************************************************)
(* The inductive invariant behind them (ChannelDeliveryProofs).            *)
(***************************************************************************)

\* What a turn has open is what it wrote; a stream to come has nothing.
TurnsInv ==
    /\ \A s \in Talkers :
         /\ turnOf[s].live => turnOf[s].stream > 0 /\ (turnOf[s].open <=> wrote[StreamOf(s)] > 0)
         /\ ~turnOf[s].live => ~turnOf[s].open
    /\ \A id \in Streams : id[2] > turnOf[id[1]].stream => wrote[id] = 0

\* Nothing more comes for the stream.
EndedBy(turns, id) ==
    LET t == turns[id[1]] IN id[2] < t.stream \/ (id[2] = t.stream /\ ~t.live)
Ended(id) == EndedBy(turnOf, id)

\* What waits, in the order in which it will be sent, is in the order in which
\* it was published: streams one after the other, the pieces of each in order
\* and without a gap, the end last.
Waiting == aside \o outbound
IsPiece(msg, id) == msg.kind = "delta" /\ msg.id = id
NotAfter(id, other) == id[1] = other[1] => id[2] <= other[2]
InLine(queue, turns, written) ==
    /\ \A i \in 1 .. Len(queue) :
         /\ queue[i].id[2] <= turns[queue[i].id[1]].stream
         /\ queue[i].kind = "end" => EndedBy(turns, queue[i].id)
         /\ queue[i].kind = "delta" => queue[i].text[1] <= written[queue[i].id]
    /\ \A i, j \in 1 .. Len(queue) : i < j =>
         /\ NotAfter(queue[i].id, queue[j].id)
         /\ queue[i].kind = "end" => ~IsPiece(queue[j], queue[i].id)
    /\ \A i \in 1 .. Len(queue) : queue[i].kind = "delta" =>
         /\ \A j \in i + 1 .. Len(queue) :
              IsPiece(queue[j], queue[i].id) => queue[j].text[1] > queue[i].text[1]
         /\ queue[i].text[1] < written[queue[i].id] =>
              \E j \in i + 1 .. Len(queue) :
                 /\ IsPiece(queue[j], queue[i].id)
                 /\ queue[j].text[1] = queue[i].text[1] + 1
         /\ \A j \in i .. Len(queue) :
              (\A k \in i .. j : IsPiece(queue[k], queue[i].id))
                => queue[j].text[1] = queue[i].text[1] + j - i
WaitingInv == InLine(Waiting, turnOf, wrote)

\* The pieces of the stream after the first n wait, and no others.
GoesOn(queue, written, id, n) ==
    /\ n <= written[id]
    /\ \A i \in 1 .. Len(queue) : IsPiece(queue[i], id) => queue[i].text[1] > n
    /\ n < written[id] =>
         \E i \in 1 .. Len(queue) : IsPiece(queue[i], id) /\ queue[i].text[1] = n + 1
Follows(id, n) == GoesOn(Waiting, wrote, id, n)

\* What is sent comes before all that waits.
InHandOf(id) == hand # <<>> /\ IsPiece(hand[1], id)
LastOf(text) == text[Len(text)]
HandInv ==
    /\ hand = <<>> => tries = 0 /\ ~stale
    /\ hand # <<>> =>
         /\ enabled \/ stale
         /\ tries > 0 => Msg.id \in spoiled
         /\ Msg.id[2] <= turnOf[Msg.id[1]].stream
         /\ \A i \in 1 .. Len(Waiting) :
              /\ NotAfter(Msg.id, Waiting[i].id)
              /\ Msg.kind = "end" => ~IsPiece(Waiting[i], Msg.id)
         /\ Msg.kind = "end" => Ended(Msg.id)
         /\ Msg.kind = "delta" =>
              /\ \A i \in 1 .. Len(Msg.text) : Msg.text[i] = Msg.text[1] + i - 1
              /\ Follows(Msg.id, LastOf(Msg.text))

\* So does what the channel holds, which ends where the rest goes on, unless
\* the latest piece is being sent again.
InOrder(id, text) ==
    \A i \in 1 .. Len(text) - 1 :
        text[i + 1] = text[i] + 1 \/ (text[i + 1] <= text[i] /\ id \in spoiled)
BufferInv ==
    /\ stale \/ ~enabled => \A c \in Chats : buffers[c] = <<>>
    /\ \A c \in Chats : buffers[c] # <<>> =>
         LET b == buffers[c][1] IN
         /\ ChatOf[b.id[1]] = c
         /\ InOrder(b.id, b.text)
         /\ b.message <= Len(screen[c])
         /\ b.message > 0 => screen[c][b.message].id = b.id
         /\ b.id[2] <= turnOf[b.id[1]].stream
         /\ \A i \in 1 .. Len(Waiting) : NotAfter(b.id, Waiting[i].id)
         /\ hand # <<>> => NotAfter(b.id, Msg.id)
         /\ IF InHandOf(b.id)
              THEN \/ Msg.text[1] = LastOf(b.text) + 1
                   \/ tries > 0 /\ LastOf(b.text) = LastOf(Msg.text)
              ELSE Follows(b.id, LastOf(b.text))

\* A fingerprint is that of an answer which was sent or is being sent.
FingerprintInv ==
    \A id \in Streams : \A answer \in Answers \cup {Apology} :
        fingerprint[id] = <<answer>> =>
            \/ <<id, answer>> \in said \/ id \in spoiled
            \/ hand # <<>> /\ IsPlain(Msg) /\ Msg.id = id /\ Msg.text = <<answer>>

(* The inductive invariant of ChannelManager and the stream buffers: the   *)
(* pieces of a stream are in one order over bus, hand and buffer.          *)
DeliveryIInv ==
    /\ DeliveryTypeOK /\ TurnsInv /\ WaitingInv /\ HandInv /\ BufferInv /\ FingerprintInv
    /\ PiecesInOrder /\ SuppressedWasSaid

\* Behind StreamsComplete.  A stream that nothing has touched is complete, with
\* nothing more to come; or what the channel holds of it is its beginning, and
\* if it has ended, its end comes.
Held(id) == LET buffer == buffers[ChatOf[id[1]]] IN buffer # <<>> /\ buffer[1].id = id
Finished(id) ==
    /\ wrote[id] > 0 /\ Ended(id) /\ OnOneScreen(id)
    /\ ~Held(id) /\ ~InHandOf(id)
    /\ \A i \in 1 .. Len(Waiting) : ~IsPiece(Waiting[i], id)
EndComes(id) ==
    \/ hand # <<>> /\ Msg.kind = "end" /\ Msg.id = id
    \/ \E i \in 1 .. Len(Waiting) : Waiting[i].kind = "end" /\ Waiting[i].id = id
UnderWay(id) ==
    /\ wrote[id] > 0 /\ Ended(id) => EndComes(id)
    /\ IF Held(id)
         THEN LET b == buffers[ChatOf[id[1]]][1] IN
              b.message > 0 /\ \A i \in 1 .. Len(b.text) : b.text[i] = i
         ELSE IF InHandOf(id) THEN Msg.text[1] = 1 ELSE Follows(id, 0)
CompleteInv ==
    \A id \in Streams \ (spoiled \cup taken) : Finished(id) \/ UnderWay(id)
==============================================================================
