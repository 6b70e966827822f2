--------------------------- MODULE StateMessages ---------------------------
(***************************************************************************)
(* How a state topic reaches the Renderer: the services' sink              *)
(* (src/backend/src/messages.rs), the Host's dispatcher and connect        *)
(* command (src/src-tauri/src/session.rs, commands/session.rs), and the    *)
(* Renderer's session and replicas (src/src/lib/shell/native-session, the  *)
(* native Replica).                                                        *)
(*                                                                         *)
(* A topic's value is its revision.  A message is a topic with a revision; *)
(* an occurrence is a message of the pseudo-topic Notice whose revision is *)
(* its number.  The Renderer may load again (a webview reload) at any      *)
(* time: what was under way to the page before is lost with it.            *)
(***************************************************************************)
EXTENDS Integers, Sequences, SequencesExt

CONSTANTS TopicOrder,  \* the state topics, in the order they are sent
          Notice,      \* the pseudo-topic of occurrences
          MaxRevision, \* bound: changes of one topic
          MaxTopicChanges, \* bound: changes of all topics together
          MaxNotices,  \* bound: occurrences
          MaxLoads     \* bound: how often the page loads again

Topics == ToSet(TopicOrder)

ASSUME MessagesAssumption ==
  /\ TopicOrder \in Seq(Topics)
  /\ Notice \notin Topics
  /\ MaxRevision \in Nat /\ MaxTopicChanges \in Nat
  /\ MaxNotices \in Nat /\ MaxLoads \in Nat

Nothing == -1          \* a replica that has accepted no value
NoReply == <<>>        \* connect has not answered

VARIABLES
  stored,     \* topic -> revision of the value its service holds
  announcing, \* topics whose service has stored a value and not yet said so
  notices,    \* occurrences so far
  signals,    \* the sink's channel to the dispatcher
  toRead,     \* topics of the dispatcher's batch whose value is still to be read
  outbox,     \* messages of its batch still to be sent
  subscribed, \* the subscriber's channel is the loaded page's
  initial,    \* what the connect command has read so far, in TopicOrder
  wire,       \* messages on the page's channel
  reply,      \* the answer to connect on its way to the page
  answers,    \* answers to commands on their way to the page
  connection, \* the page: "new", "connecting" or "ready"
  early,      \* messages the page keeps until connect answers
  replica,    \* topic -> revision the page holds
  noticed,    \* occurrences the page was told of
  loads       \* how often the page has loaded again

backendVars == <<stored, announcing, notices>>
dispatchVars == <<signals, toRead, outbox>>
hostVars == <<subscribed, initial>>
pageVars == <<connection, early, replica, noticed, loads>>
messageVars == <<backendVars, dispatchVars, hostVars, wire, reply, answers, pageVars>>

Message(topic, revision) == [topic |-> topic, revision |-> revision]

MessagesInit ==
  /\ stored = [t \in Topics |-> 0] /\ announcing = {} /\ notices = 0
  /\ signals = <<>> /\ toRead = <<>> /\ outbox = <<>>
  /\ subscribed = FALSE /\ initial = <<>>
  /\ wire = <<>> /\ reply = NoReply /\ answers = {}
  /\ connection = "new" /\ early = <<>> /\ noticed = <<>> /\ loads = 0
  /\ replica = [t \in Topics |-> Nothing]

-----------------------------------------------------------------------------
(* The backend services.                                                   *)

(* A topic changes: the value is stored first.  A command that caused the  *)
(* change answers with it.                                                 *)
Change(t, answered) ==
  /\ t \notin announcing /\ stored[t] < MaxRevision
  /\ FoldFunction(+, 0, stored) < MaxTopicChanges
  /\ stored' = [stored EXCEPT ![t] = @ + 1]
  /\ announcing' = announcing \cup {t}
  /\ answers' = IF answered /\ connection = "ready"
                THEN answers \cup {Message(t, stored[t] + 1)} ELSE answers
  /\ UNCHANGED <<notices, dispatchVars, hostVars, wire, reply, pageVars>>

(* Then the sink is told that the topic changed, without the value.        *)
Announce(t) ==
  /\ t \in announcing
  /\ announcing' = announcing \ {t}
  /\ signals' = Append(signals, Message(t, 0))
  /\ UNCHANGED <<stored, notices, toRead, outbox, hostVars, wire, reply, answers,
                 pageVars>>

Occur ==
  /\ notices < MaxNotices
  /\ notices' = notices + 1
  /\ signals' = Append(signals, Message(Notice, notices + 1))
  /\ UNCHANGED <<stored, announcing, toRead, outbox, hostVars, wire, reply,
                 answers, pageVars>>

-----------------------------------------------------------------------------
(* The dispatcher thread.                                                  *)

DispatcherIdle == toRead = <<>> /\ outbox = <<>>

(* What of a sequence is among these, in its order.                        *)
Selected(sequence, these) ==
  LET selected[k \in 0..Len(sequence)] ==
        IF k = 0 THEN <<>>
        ELSE IF sequence[k] \in these THEN Append(selected[k - 1], sequence[k])
        ELSE selected[k - 1]
  IN selected[Len(sequence)]

Occurred(batch) == Selected(batch, {m \in ToSet(batch) : m.topic = Notice})
ChangedTopics(batch) == Selected(TopicOrder, {m.topic : m \in ToSet(batch)})

(* Mutant: of the batch, only the first signal counts as a change.         *)
TakeBatchByFirst ==
  /\ DispatcherIdle /\ signals # <<>>
  /\ outbox' = Occurred(signals)
  /\ toRead' = ChangedTopics(<<Head(signals)>>)
  /\ signals' = <<>>
  /\ UNCHANGED <<backendVars, hostVars, wire, reply, answers, pageVars>>

(* Mutant: occurrences come out of the batch newest first.                 *)
TakeBatchReversed ==
  /\ DispatcherIdle /\ signals # <<>>
  /\ outbox' = Reverse(Occurred(signals))
  /\ toRead' = ChangedTopics(signals)
  /\ signals' = <<>>
  /\ UNCHANGED <<backendVars, hostVars, wire, reply, answers, pageVars>>

(* Everything the sink holds is one batch: its occurrences as they came,   *)
(* then each changed topic once.                                           *)
TakeBatch ==
  /\ DispatcherIdle /\ signals # <<>>
  /\ outbox' = Occurred(signals)
  /\ toRead' = ChangedTopics(signals)
  /\ signals' = <<>>
  /\ UNCHANGED <<backendVars, hostVars, wire, reply, answers, pageVars>>

(* A topic's value is read when its message is made, all of them before    *)
(* the first is sent.                                                      *)
ReadTopic ==
  /\ toRead # <<>>
  /\ outbox' = Append(outbox, Message(Head(toRead), stored[Head(toRead)]))
  /\ toRead' = Tail(toRead)
  /\ UNCHANGED <<backendVars, signals, hostVars, wire, reply, answers, pageVars>>

(* Without a page on the channel the message is dropped.                   *)
SendMessage ==
  /\ toRead = <<>> /\ outbox # <<>>
  /\ outbox' = Tail(outbox)
  /\ wire' = IF subscribed THEN Append(wire, Head(outbox)) ELSE wire
  /\ UNCHANGED <<backendVars, signals, toRead, hostVars, reply, answers, pageVars>>

Dispatcher == TakeBatch \/ ReadTopic \/ SendMessage

-----------------------------------------------------------------------------
(* The connect command: the channel is replaced first, then every topic is *)
(* read, one after the other.                                              *)

ReplaceChannel ==
  /\ connection = "connecting" /\ ~subscribed
  /\ subscribed' = TRUE
  /\ UNCHANGED <<backendVars, dispatchVars, initial, wire, reply, answers, pageVars>>

ReadInitial ==
  /\ subscribed /\ connection = "connecting" /\ reply = NoReply
  /\ Len(initial) < Len(TopicOrder)
  /\ LET t == TopicOrder[Len(initial) + 1]
         read == Append(initial, Message(t, stored[t]))
     IN IF Len(read) = Len(TopicOrder)
        THEN /\ reply' = read
             /\ initial' = <<>>
        ELSE /\ initial' = read
             /\ UNCHANGED reply
  /\ UNCHANGED <<backendVars, dispatchVars, subscribed, wire, answers, pageVars>>

Host == ReplaceChannel \/ ReadInitial

-----------------------------------------------------------------------------
(* The Renderer.                                                           *)

(* Mutant: a replica keeps whatever comes last.                            *)
AcceptLast(held, message) == [held EXCEPT ![message.topic] = message.revision]

(* A replica keeps a newer revision only, whichever way it came.           *)
Accept(held, message) ==
  IF message.revision > held[message.topic]
  THEN [held EXCEPT ![message.topic] = message.revision]
  ELSE held

AcceptAll(held, messages) ==
  LET after[k \in 0..Len(messages)] ==
        IF k = 0 THEN held
        ELSE IF messages[k].topic = Notice THEN after[k - 1]
        ELSE Accept(after[k - 1], messages[k])
  IN after[Len(messages)]

NoticesOf(messages) ==
  LET told == Occurred(messages)
  IN [i \in DOMAIN told |-> told[i].revision]

Connect ==
  /\ connection = "new"
  /\ connection' = "connecting"
  /\ UNCHANGED <<backendVars, dispatchVars, hostVars, wire, reply, answers, early,
                 replica, noticed, loads>>

(* A message is routed, or kept while connect has not answered.            *)
ReceiveMessage ==
  /\ wire # <<>>
  /\ wire' = Tail(wire)
  /\ IF connection = "connecting"
     THEN /\ early' = Append(early, Head(wire))
          /\ UNCHANGED <<replica, noticed>>
     ELSE /\ replica' = AcceptAll(replica, <<Head(wire)>>)
          /\ noticed' = noticed \o NoticesOf(<<Head(wire)>>)
          /\ UNCHANGED early
  /\ UNCHANGED <<backendVars, dispatchVars, hostVars, reply, answers, connection,
                 loads>>

(* The initial state is applied, then what came early.                     *)
ReceiveReply ==
  /\ reply # NoReply
  /\ reply' = NoReply
  /\ replica' = AcceptAll(replica, reply \o early)
  /\ noticed' = noticed \o NoticesOf(early)
  /\ early' = <<>>
  /\ connection' = "ready"
  /\ UNCHANGED <<backendVars, dispatchVars, hostVars, wire, answers, loads>>

(* An answer to a command goes through the same replica, at any time.      *)
ReceiveAnswer(answer) ==
  /\ answer \in answers
  /\ answers' = answers \ {answer}
  /\ replica' = Accept(replica, answer)
  /\ UNCHANGED <<backendVars, dispatchVars, hostVars, wire, reply, connection,
                 early, noticed, loads>>

(* The page loads again; the subscriber keeps the old page's channel.      *)
Reload ==
  /\ connection # "new" /\ loads < MaxLoads
  /\ loads' = loads + 1
  /\ connection' = "new" /\ early' = <<>> /\ noticed' = <<>>
  /\ replica' = [t \in Topics |-> Nothing]
  /\ subscribed' = FALSE /\ initial' = <<>>
  /\ wire' = <<>> /\ reply' = NoReply /\ answers' = {}
  /\ UNCHANGED <<backendVars, dispatchVars>>

Page == Connect \/ ReceiveMessage \/ ReceiveReply

MessagesNext ==
  \/ \E t \in Topics, answered \in BOOLEAN : Change(t, answered)
  \/ \E t \in Topics : Announce(t)
  \/ Occur
  \/ Dispatcher
  \/ Host
  \/ Page
  \/ \E answer \in answers : ReceiveAnswer(answer)
  \/ Reload

MessagesSpec == MessagesInit /\ [][MessagesNext]_messageVars

(* Every thread runs, the channel delivers, and the page connects.  An     *)
(* answer may be arbitrarily late.                                         *)
FairSpec ==
  /\ MessagesSpec
  /\ \A t \in Topics : WF_messageVars(Announce(t))
  /\ WF_messageVars(Dispatcher)
  /\ WF_messageVars(Host)
  /\ WF_messageVars(Connect) /\ WF_messageVars(ReceiveMessage) /\ WF_messageVars(ReceiveReply)

-----------------------------------------------------------------------------
Revisions == 0..MaxRevision
AnyMessage == [topic : Topics \cup {Notice}, revision : Nat]

(* Types; messages are kept back only while connect has not answered, and  *)
(* an answer is being read only for the page that holds the channel.       *)
TypeOK ==
  /\ stored \in [Topics -> Revisions] /\ announcing \subseteq Topics
  /\ notices \in 0..MaxNotices
  /\ signals \in Seq(AnyMessage) /\ toRead \in Seq(Topics)
  /\ outbox \in Seq(AnyMessage) /\ wire \in Seq(AnyMessage)
  /\ early \in Seq(AnyMessage) /\ initial \in Seq(AnyMessage)
  /\ reply \in Seq(AnyMessage) /\ answers \subseteq AnyMessage
  /\ subscribed \in BOOLEAN
  /\ connection \in {"new", "connecting", "ready"}
  /\ replica \in [Topics -> Revisions \cup {Nothing}]
  /\ noticed \in Seq(Nat) /\ loads \in 0..MaxLoads
  /\ connection # "connecting" => early = <<>> /\ reply = NoReply
  /\ initial # <<>> => subscribed /\ reply = NoReply

(* A page never shows a value older than one it already showed, although   *)
(* answers to commands overtake pushed messages and the other way round.   *)
ReplicaNeverGoesBack ==
  [][loads' = loads => \A t \in Topics : replica'[t] >= replica[t]]_messageVars

(* Occurrences reach a page in the order they happened and at most once,   *)
(* also those that arrive before connect has answered.                     *)
NoticesInOrderOnce ==
  \A i, j \in DOMAIN noticed : i < j => noticed[i] < noticed[j]

(* Once the backend is quiet, the page ends up with the newest value of    *)
(* every topic, however often it loaded again.                             *)
PageCatchesUp == <>[](\A t \in Topics : replica[t] = stored[t])

(* What the comment on connect says (commands/session.rs): a message sent  *)
(* between the replaced channel and the answer has a revision that is not  *)
(* older than the value the answer carries for its topic.                  *)
EarlyMessagesAreNotOlder ==
  \A i \in DOMAIN reply, j \in DOMAIN early :
    early[j].topic = reply[i].topic => early[j].revision >= reply[i].revision
=============================================================================
