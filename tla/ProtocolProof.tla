--------------------------- MODULE ProtocolProof ---------------------------
(***************************************************************************)
(* Proofs about the five parts of MCBytes, for every value of the constants. *)
(*                                                                         *)
(* ProtocolManager: HandOverInv, and with it ChunksAccountedFor, hold for   *)
(* every number of chunks and every limit of the bytes kept, whenever the   *)
(* worker fails.                                                           *)
(*                                                                         *)
(* PacketParser: ParserReads, and with it FramesAreSound and                *)
(* IterationsConsume, hold for every configuration, size of the buffer and  *)
(* of the chunks and however the stream is cut.  It says that the packets   *)
(* found, followed by what the rest of the stream reads, are the packets of *)
(* the stream, whatever comes behind (Promise); that nothing is left to     *)
(* read when a call ends (Done); and that the lengths the sweep remembers   *)
(* do not verify (Remembered).                                             *)
(*                                                                         *)
(* DeviceCommands, PacketMatching, EntityStates: DeviceSound, and with it   *)
(* DeviceDoesAsAsked.  What is encoded and decoded again is the value, digit *)
(* by digit, and stays in the queue or the register until it is reported    *)
(* (DeviceInv); the loop over the devices does what the analysis foretells, *)
(* device by device (Through); the states kept in three places are those of *)
(* one normalized state (StoreInv).                                         *)
(***************************************************************************)
EXTENDS MCBytes, ParserLemmas

-----------------------------------------------------------------------------
(* Sequences and messages.                                                 *)

\* Type, length and elements of a sequence with one more.
LEMMA Appended ==
  ASSUME NEW S, NEW s \in Seq(S), NEW e \in S
  PROVE  /\ Append(s, e) \in Seq(S)
         /\ Len(Append(s, e)) = Len(s) + 1 /\ DOMAIN Append(s, e) = 1..(Len(s) + 1)
         /\ \A i \in 1..Len(s) : Append(s, e)[i] = s[i]
         /\ Append(s, e)[Len(s) + 1] = e
OBVIOUS

\* Type, length and elements of two sequences put together.
LEMMA Joined ==
  ASSUME NEW S, NEW s \in Seq(S), NEW t \in Seq(S)
  PROVE  /\ s \o t \in Seq(S)
         /\ Len(s \o t) = Len(s) + Len(t) /\ DOMAIN (s \o t) = 1..(Len(s) + Len(t))
         /\ \A i \in 1..Len(s) : (s \o t)[i] = s[i]
         /\ \A i \in 1..Len(t) : (s \o t)[Len(s) + i] = t[i]
OBVIOUS

\* Type, length and elements of a sequence without its first.
LEMMA Shifted ==
  ASSUME NEW S, NEW s \in Seq(S), s # <<>>
  PROVE  /\ Head(s) \in S /\ Head(s) = s[1] /\ Len(s) > 0 /\ Len(s) \in Nat
         /\ Tail(s) \in Seq(S)
         /\ Len(Tail(s)) = Len(s) - 1 /\ DOMAIN Tail(s) = 1..(Len(s) - 1)
         /\ \A i \in 1..(Len(s) - 1) : Tail(s)[i] = s[i + 1]
OBVIOUS

Mail == Manager!ChunkMessages \cup Manager!PlainMessages

\* What the messages to the main thread carry.
LEMMA MailCarries ==
  ASSUME NEW m \in Mail
  PROVE  /\ m.chunk \in 0..MaxChunks
         /\ m.type \in {"ready", "packets", "error", "crash", "exit"}
         /\ m.type = "packets" => m.chunk # 0
         /\ m.type \in {"ready", "crash", "exit"} => m.chunk = 0
BY BytesAssumption DEF Mail, Manager!ChunkMessages, Manager!PlainMessages, Manager!Chunks

\* The messages of the worker.
LEMMA IsMail ==
  /\ \A c \in Manager!Chunks : /\ [type |-> "packets", chunk |-> c] \in Mail
                               /\ [type |-> "error", chunk |-> c] \in Mail
  /\ \A t \in {"ready", "error", "crash", "exit"} : [type |-> t, chunk |-> 0] \in Mail
BY DEF Mail, Manager!ChunkMessages, Manager!PlainMessages

-----------------------------------------------------------------------------
(* The parts of the invariant, with positions for domains.                 *)

In(s, c)     == \E i \in 1..Len(s) : s[i] = c
InMail(s, c) == \E i \in 1..Len(s) : s[i].chunk = c

\* LostOnlyByWorker, by where the chunk is.
Accounted ==
  \A c \in 1..(next - 1) :
    \/ In(out, c) \/ In(pending, c) \/ In(inbox, c) \/ InMail(outbox, c)
    \/ c \in posted /\ ~alive

\* What TypeOK says of each variable.
LEMMA TypeFacts ==
  ASSUME Manager!TypeOK
  PROVE  /\ MaxChunks \in Nat /\ MaxPending \in Nat
         /\ worker \in BOOLEAN /\ ready \in BOOLEAN /\ alive \in BOOLEAN /\ terminated \in BOOLEAN
         /\ next \in 1..(MaxChunks + 1)
         /\ pending \in Seq(1..MaxChunks) /\ Len(pending) \in Nat /\ DOMAIN pending = 1..Len(pending)
         /\ \A i \in 1..Len(pending) : pending[i] \in 1..MaxChunks
         /\ inbox \in Seq(0..MaxChunks) /\ Len(inbox) \in Nat /\ DOMAIN inbox = 1..Len(inbox)
         /\ \A i \in 1..Len(inbox) : inbox[i] \in 0..MaxChunks
         /\ outbox \in Seq(Mail) /\ Len(outbox) \in Nat /\ DOMAIN outbox = 1..Len(outbox)
         /\ \A i \in 1..Len(outbox) : outbox[i] \in Mail /\ outbox[i].chunk \in 0..MaxChunks
         /\ out \in Seq(1..MaxChunks) /\ Len(out) \in Nat /\ DOMAIN out = 1..Len(out)
         /\ \A i \in 1..Len(out) : out[i] \in 1..MaxChunks
<1>1. MaxChunks \in Nat /\ MaxPending \in Nat
  BY BytesAssumption
<1>2. Manager!Chunks \cup {Manager!InitMessage} = 0..MaxChunks
  BY <1>1 DEF Manager!Chunks, Manager!InitMessage
<1>3. outbox \in Seq(Mail)
  BY DEF Manager!TypeOK, Mail
<1>4. \A i \in 1..Len(outbox) : outbox[i] \in Mail /\ outbox[i].chunk \in 0..MaxChunks
  BY <1>3, MailCarries
<1>5. inbox \in Seq(0..MaxChunks)
  BY <1>2 DEF Manager!TypeOK
<1>6. pending \in Seq(1..MaxChunks) /\ out \in Seq(1..MaxChunks)
  BY DEF Manager!TypeOK, Manager!Chunks
<1>7. /\ worker \in BOOLEAN /\ ready \in BOOLEAN /\ alive \in BOOLEAN /\ terminated \in BOOLEAN
      /\ next \in 1..(MaxChunks + 1)
  BY DEF Manager!TypeOK
<1>8. QED
  BY <1>1, <1>3, <1>4, <1>5, <1>6, <1>7

\* Of these, what is said of positions and numbers.
LEMMA Ranges ==
  ASSUME Manager!TypeOK
  PROVE  /\ MaxChunks \in Nat /\ next \in Nat \ {0}
         /\ Len(pending) \in Nat /\ DOMAIN pending = 1..Len(pending)
         /\ Len(inbox) \in Nat /\ DOMAIN inbox = 1..Len(inbox)
         /\ Len(outbox) \in Nat /\ DOMAIN outbox = 1..Len(outbox)
         /\ Len(out) \in Nat /\ DOMAIN out = 1..Len(out)
         /\ \A i \in 1..Len(inbox) : inbox[i] \in Nat
         /\ \A i \in 1..Len(outbox) : outbox[i].chunk \in Nat
         /\ \A i \in 1..Len(out) : out[i] \in Nat \ {0}
BY TypeFacts

\* The same of the state a step leaves.
LEMMA NextTypeFacts ==
  ASSUME Manager!TypeOK'
  PROVE  /\ next' \in 1..(MaxChunks + 1)
         /\ DOMAIN pending' = 1..Len(pending') /\ DOMAIN inbox' = 1..Len(inbox')
         /\ DOMAIN outbox' = 1..Len(outbox') /\ DOMAIN out' = 1..Len(out')
         /\ Len(pending') \in Nat /\ Len(inbox') \in Nat /\ Len(outbox') \in Nat
         /\ Len(out') \in Nat
<1>1. MaxChunks \in Nat
  BY BytesAssumption
<1>2. QED
  BY <1>1 DEF Manager!TypeOK

\* LostOnlyByWorker, chunk by chunk, ...
LEMMA AccountedForm ==
  ASSUME Manager!TypeOK
  PROVE  Manager!LostOnlyByWorker <=> Accounted
<1>1. \A c \in 1..(next - 1) :
        c \in Manager!Elements(out) \cup Manager!InTransit
          <=> In(out, c) \/ In(pending, c) \/ In(inbox, c) \/ InMail(outbox, c)
  <2> SUFFICES ASSUME NEW c \in 1..(next - 1)
               PROVE  c \in Manager!Elements(out) \cup Manager!InTransit
                        <=> In(out, c) \/ In(pending, c) \/ In(inbox, c) \/ InMail(outbox, c)
    OBVIOUS
  <2>1. c # 0
    BY TypeFacts
  <2>2. /\ c \in Manager!Elements(out) <=> In(out, c)
        /\ c \in Manager!Elements(pending) <=> In(pending, c)
        /\ c \in Manager!Elements(inbox) <=> In(inbox, c)
    BY TypeFacts DEF Manager!Elements, In
  <2>3. c \in {m.chunk : m \in {x \in Manager!Elements(outbox) : x.chunk # 0}} <=> InMail(outbox, c)
    BY <2>1, TypeFacts DEF Manager!Elements, InMail
  <2>4. QED
    BY <2>1, <2>2, <2>3 DEF Manager!InTransit, Manager!InitMessage
<1>2. QED
  BY <1>1 DEF Manager!LostOnlyByWorker, Accounted

\* ... also after a step.
LEMMA NextAccounted ==
  ASSUME Manager!TypeOK', Accounted'
  PROVE  Manager!LostOnlyByWorker'
<1> SUFFICES ASSUME NEW c \in 1..(next' - 1)
             PROVE  \/ c \in (Manager!Elements(out) \cup Manager!InTransit)'
                    \/ c \in posted' /\ ~alive'
  BY DEF Manager!LostOnlyByWorker
<1>1. c # 0
  BY NextTypeFacts
<1>2. /\ In(out', c) => c \in Manager!Elements(out')
      /\ In(pending', c) => c \in Manager!Elements(pending')
      /\ In(inbox', c) => c \in Manager!Elements(inbox')
  BY NextTypeFacts DEF Manager!Elements, In
<1>3. InMail(outbox', c) => c \in {m.chunk : m \in {x \in Manager!Elements(outbox') : x.chunk # 0}}
  BY <1>1, NextTypeFacts DEF Manager!Elements, InMail
<1>4. In(out', c) \/ In(pending', c) \/ In(inbox', c) \/ InMail(outbox', c)
        \/ (c \in posted' /\ ~alive')
  BY DEF Accounted
<1>5. QED
  BY <1>1, <1>2, <1>3, <1>4 DEF Manager!InTransit, Manager!InitMessage

-----------------------------------------------------------------------------
(* The main thread.                                                        *)

\* HandOverInv holds at first, ...
LEMMA ManagerInit == Manager!Init => Manager!HandOverInv
<1> SUFFICES ASSUME Manager!Init PROVE Manager!HandOverInv
  OBVIOUS
<1> USE DEF Manager!Init, Manager!InitMessage
<1>1. /\ DOMAIN outbox = {} /\ DOMAIN out = {} /\ DOMAIN pending = {} /\ Len(pending) = 0
      /\ \A i \in DOMAIN inbox : inbox[i] = 0
      /\ next - 1 = 0 /\ 1..(next - 1) = {}
  OBVIOUS
<1>2. Manager!TypeOK
  <2>1. inbox = <<0>> \/ inbox = <<>>
    OBVIOUS
  <2>2. inbox \in Seq(Manager!Chunks \cup {0})
    <3>1. 0 \in Manager!Chunks \cup {0}
      OBVIOUS
    <3>2. \A S : 0 \in S => <<0>> \in Seq(S) /\ <<>> \in Seq(S)
      OBVIOUS
    <3>3. QED
      BY ONLY <2>1, <3>1, <3>2
  <2>3. /\ next \in 1..(MaxChunks + 1) /\ Len(pending) <= MaxPending
        /\ pending \in Seq(Manager!Chunks) /\ out \in Seq(Manager!Chunks)
        /\ outbox \in Seq(Mail)
    BY BytesAssumption
  <2>4. worker \in BOOLEAN /\ ready \in BOOLEAN /\ alive \in BOOLEAN /\ terminated \in BOOLEAN
    BY Zenon
  <2>5. QED
    BY <2>2, <2>3, <2>4 DEF Manager!TypeOK, Mail
<1>3. /\ Manager!WorkerFate /\ Manager!KeptUntilReady
      /\ Manager!InboxInOrder /\ Manager!OutboxInOrder
  BY <1>1 DEF Manager!WorkerFate, Manager!KeptUntilReady, Manager!InboxInOrder,
              Manager!OutboxInOrder
<1>4. /\ Manager!OutInOrder /\ Manager!NoneLeftOut /\ Manager!LostOnlyByWorker
      /\ Manager!EachParserInOrder
  BY <1>1 DEF Manager!OutInOrder, Manager!NoneLeftOut, Manager!LostOnlyByWorker,
              Manager!EachParserInOrder
<1>5. QED
  BY <1>2, <1>3, <1>4 DEF Manager!HandOverInv

\* A chunk is posted to the worker.
LEMMA PostInv ==
  ASSUME Manager!HandOverInv, worker, ready, next <= MaxChunks, next' = next + 1,
         inbox' = Append(inbox, next), posted' = posted \cup {next},
         UNCHANGED <<worker, ready, pending, outbox, alive, terminated, out>>
  PROVE  Manager!HandOverInv'
<1> USE DEF Manager!InitMessage
<1>0. /\ Manager!TypeOK /\ Manager!WorkerFate /\ Manager!KeptUntilReady
      /\ Manager!InboxInOrder /\ Manager!OutboxInOrder /\ Manager!OutInOrder
      /\ Manager!NoneLeftOut /\ Manager!LostOnlyByWorker /\ Manager!EachParserInOrder
  BY DEF Manager!HandOverInv
<1>1. /\ next \in 1..MaxChunks /\ next \in 0..MaxChunks
      /\ inbox' \in Seq(0..MaxChunks)
      /\ Len(inbox') = Len(inbox) + 1 /\ DOMAIN inbox' = 1..(Len(inbox) + 1)
      /\ \A i \in 1..Len(inbox) : inbox'[i] = inbox[i]
      /\ inbox'[Len(inbox) + 1] = next
  BY <1>0, TypeFacts, Appended
<1>2. Manager!TypeOK'
  BY <1>0, <1>1, TypeFacts DEF Manager!TypeOK, Manager!Chunks
<1>3. Manager!WorkerFate'
  BY <1>0 DEF Manager!WorkerFate
<1>4. Manager!KeptUntilReady'
  BY <1>0 DEF Manager!KeptUntilReady
<1>5. \A i \in 1..Len(inbox) : inbox[i] < next
  <2> SUFFICES ASSUME NEW i \in 1..Len(inbox) PROVE inbox[i] < next
    OBVIOUS
  <2>1. inbox[i] # 0 => inbox[i] \in 1..(next - 1)
    BY <1>0, Ranges DEF Manager!InboxInOrder, Manager!OutInOrder
  <2>2. QED
    BY <1>0, <2>1, Ranges
<1>6. Manager!InboxInOrder'
  BY <1>0, <1>1, <1>5, Ranges DEF Manager!InboxInOrder
<1>7. \A i \in 1..Len(outbox) : outbox[i].chunk < next
  <2> SUFFICES ASSUME NEW i \in 1..Len(outbox) PROVE outbox[i].chunk < next
    OBVIOUS
  <2>1. outbox[i].chunk # 0 => outbox[i].chunk \in 1..(next - 1)
    BY <1>0, Ranges DEF Manager!OutboxInOrder, Manager!OutInOrder
  <2>2. QED
    BY <1>0, <2>1, Ranges
<1>8. Manager!OutboxInOrder'
  BY <1>0, <1>1, <1>7, Ranges DEF Manager!OutboxInOrder
<1>9. Manager!OutInOrder'
  BY <1>0, <1>1, Ranges DEF Manager!OutInOrder
<1>10. Manager!NoneLeftOut'
  BY <1>0 DEF Manager!NoneLeftOut
<1>11. Accounted'
  <2>1. Accounted
    BY <1>0, AccountedForm
  <2>2. In(inbox', next) /\ \A c : In(inbox, c) => In(inbox', c)
    BY <1>0, <1>1, Ranges DEF In
  <2>3. QED
    BY <1>0, <2>1, <2>2, Ranges DEF Accounted
<1>12. Manager!EachParserInOrder'
  BY <1>0, Ranges DEF Manager!EachParserInOrder, Manager!OutInOrder
<1>13. QED
  BY <1>2, <1>3, <1>4, <1>6, <1>8, <1>9, <1>10, <1>11, <1>12, NextAccounted DEF Manager!HandOverInv

\* A chunk is kept until the worker is ready.
LEMMA KeepInv ==
  ASSUME Manager!HandOverInv, worker, ~ready, next <= MaxChunks, next' = next + 1,
         Len(pending) < MaxPending, pending' = Append(pending, next),
         UNCHANGED <<worker, ready, inbox, outbox, alive, terminated, out, posted>>
  PROVE  Manager!HandOverInv'
<1> USE DEF Manager!InitMessage
<1>0. /\ Manager!TypeOK /\ Manager!WorkerFate /\ Manager!KeptUntilReady
      /\ Manager!InboxInOrder /\ Manager!OutboxInOrder /\ Manager!OutInOrder
      /\ Manager!NoneLeftOut /\ Manager!LostOnlyByWorker /\ Manager!EachParserInOrder
  BY DEF Manager!HandOverInv
<1>1. /\ next \in 1..MaxChunks
      /\ pending' \in Seq(1..MaxChunks)
      /\ Len(pending') = Len(pending) + 1 /\ DOMAIN pending' = 1..(Len(pending) + 1)
      /\ \A i \in 1..Len(pending) : pending'[i] = pending[i]
      /\ pending'[Len(pending) + 1] = next
  BY <1>0, TypeFacts, Appended
<1>2. Manager!TypeOK'
  BY <1>0, <1>1, TypeFacts DEF Manager!TypeOK, Manager!Chunks
<1>3. Manager!WorkerFate'
  BY <1>0 DEF Manager!WorkerFate
<1>4. Manager!KeptUntilReady'
  BY <1>0, <1>1, Ranges DEF Manager!KeptUntilReady
<1>5. /\ Manager!InboxInOrder' /\ Manager!OutboxInOrder' /\ Manager!NoneLeftOut'
      /\ Manager!EachParserInOrder'
  BY <1>0 DEF Manager!InboxInOrder, Manager!OutboxInOrder, Manager!NoneLeftOut,
         Manager!EachParserInOrder
<1>6. Manager!OutInOrder'
  BY <1>0, Ranges DEF Manager!OutInOrder, Manager!KeptUntilReady
<1>7. Accounted'
  <2>1. Accounted
    BY <1>0, AccountedForm
  <2>2. In(pending', next) /\ \A c : In(pending, c) => In(pending', c)
    BY <1>0, <1>1, Ranges DEF In
  <2>3. QED
    BY <1>0, <2>1, <2>2, Ranges DEF Accounted
<1>8. QED
  BY <1>2, <1>3, <1>4, <1>5, <1>6, <1>7, NextAccounted DEF Manager!HandOverInv

\* Without a worker the main thread parses the chunk.
LEMMA ParseInv ==
  ASSUME Manager!HandOverInv, ~worker, next <= MaxChunks, next' = next + 1,
         out' = Append(out, next),
         UNCHANGED <<worker, ready, pending, inbox, outbox, alive, terminated, posted>>
  PROVE  Manager!HandOverInv'
<1> USE DEF Manager!InitMessage
<1>0. /\ Manager!TypeOK /\ Manager!WorkerFate /\ Manager!KeptUntilReady
      /\ Manager!InboxInOrder /\ Manager!OutboxInOrder /\ Manager!OutInOrder
      /\ Manager!NoneLeftOut /\ Manager!LostOnlyByWorker /\ Manager!EachParserInOrder
  BY DEF Manager!HandOverInv
<1>1. /\ next \in 1..MaxChunks
      /\ out' \in Seq(1..MaxChunks)
      /\ Len(out') = Len(out) + 1 /\ DOMAIN out' = 1..(Len(out) + 1)
      /\ \A i \in 1..Len(out) : out'[i] = out[i]
      /\ out'[Len(out) + 1] = next
  BY <1>0, TypeFacts, Appended
<1>2. Manager!TypeOK'
  BY <1>0, <1>1, TypeFacts DEF Manager!TypeOK, Manager!Chunks
<1>3. /\ Manager!WorkerFate' /\ Manager!KeptUntilReady' /\ Manager!InboxInOrder'
      /\ Manager!OutboxInOrder' /\ Manager!NoneLeftOut'
  BY <1>0 DEF Manager!WorkerFate, Manager!KeptUntilReady, Manager!InboxInOrder,
         Manager!OutboxInOrder, Manager!NoneLeftOut
<1>4. next \notin posted
  BY <1>0, Ranges DEF Manager!OutInOrder
<1>5. Manager!OutInOrder'
  BY <1>0, <1>1, <1>4, Ranges DEF Manager!OutInOrder
<1>6. Accounted'
  <2>1. Accounted
    BY <1>0, AccountedForm
  <2>2. In(out', next) /\ \A c : In(out, c) => In(out', c)
    BY <1>0, <1>1, Ranges DEF In
  <2>3. QED
    BY <1>0, <2>1, <2>2, Ranges DEF Accounted
<1>7. Manager!EachParserInOrder'
  BY <1>0, <1>1, Ranges DEF Manager!EachParserInOrder, Manager!OutInOrder
<1>8. QED
  BY <1>2, <1>3, <1>5, <1>6, <1>7, NextAccounted DEF Manager!HandOverInv

\* A chunk beyond the limit: the main thread takes over what was kept.
LEMMA OverflowInv ==
  ASSUME Manager!HandOverInv, worker, ~ready, next <= MaxChunks, next' = next + 1,
         out' = out \o Append(pending, next) \o <<>>, pending' = <<>>,
         ~worker', ready' \in BOOLEAN, terminated' \in BOOLEAN, worker' \in BOOLEAN,
         UNCHANGED <<inbox, outbox, alive, posted>>
  PROVE  Manager!HandOverInv'
<1> USE DEF Manager!InitMessage
<1>0. /\ Manager!TypeOK /\ Manager!WorkerFate /\ Manager!KeptUntilReady
      /\ Manager!InboxInOrder /\ Manager!OutboxInOrder /\ Manager!OutInOrder
      /\ Manager!NoneLeftOut /\ Manager!LostOnlyByWorker /\ Manager!EachParserInOrder
  BY DEF Manager!HandOverInv
<1>1. /\ out = <<>> /\ posted = {} /\ Len(pending) = next - 1
      /\ \A i \in 1..Len(pending) : pending[i] = i
      /\ \A i \in 1..Len(outbox) : outbox[i].chunk = 0
      /\ \A i \in 1..Len(inbox) : inbox[i] = 0
  BY <1>0, Ranges DEF Manager!KeptUntilReady
<1>2. next \in 1..MaxChunks
  BY <1>0, TypeFacts
<1>3. out' = Append(pending, next)
  <2>1. Append(pending, next) \in Seq(1..MaxChunks)
    BY <1>0, <1>2, TypeFacts, Appended
  <2>2. \A s \in Seq(1..MaxChunks) : <<>> \o s \o <<>> = s
    OBVIOUS
  <2>3. QED
    BY <1>1, <2>1, <2>2
<1>4. /\ out' \in Seq(1..MaxChunks)
      /\ Len(out') = next /\ DOMAIN out' = 1..next
      /\ \A i \in 1..next : out'[i] = i
  <2>1. /\ out' \in Seq(1..MaxChunks)
        /\ Len(out') = Len(pending) + 1 /\ DOMAIN out' = 1..(Len(pending) + 1)
        /\ \A i \in 1..Len(pending) : out'[i] = pending[i]
        /\ out'[Len(pending) + 1] = next
    <3>1. pending \in Seq(1..MaxChunks)
      BY <1>0, TypeFacts
    <3>2. QED
      BY ONLY <3>1, <1>2, <1>3, Appended
  <2>2. QED
    BY <1>1, <1>2, <2>1
<1>5. Manager!TypeOK'
  BY <1>0, <1>2, <1>4, TypeFacts DEF Manager!TypeOK, Manager!Chunks
<1>6. Manager!WorkerFate' /\ Manager!KeptUntilReady' /\ Manager!NoneLeftOut'
  BY <1>0 DEF Manager!WorkerFate, Manager!KeptUntilReady, Manager!NoneLeftOut
<1>7. Manager!InboxInOrder' /\ Manager!OutboxInOrder'
  BY <1>0 DEF Manager!InboxInOrder, Manager!OutboxInOrder
<1>8. Manager!OutInOrder' /\ Manager!EachParserInOrder'
  BY <1>1, <1>2, <1>4 DEF Manager!OutInOrder, Manager!EachParserInOrder
<1>9. Accounted'
  <2>1. \A c \in 1..(next' - 1) : c \in 1..Len(out') /\ out'[c] = c
    BY <1>2, <1>4
  <2>2. QED
    BY <2>1 DEF Accounted, In
<1>10. QED
  BY <1>5, <1>6, <1>7, <1>8, <1>9, NextAccounted DEF Manager!HandOverInv

\* The worker fails before it is ready: the main thread takes over what was kept.
LEMMA TakeOverInv ==
  ASSUME Manager!HandOverInv, worker, ~ready, outbox # <<>>, outbox' = Tail(outbox),
         out' = pending, pending' = <<>>,
         ~worker', ready' \in BOOLEAN, terminated' \in BOOLEAN, worker' \in BOOLEAN,
         UNCHANGED <<inbox, alive, next, posted>>
  PROVE  Manager!HandOverInv'
<1> USE DEF Manager!InitMessage
<1>0. /\ Manager!TypeOK /\ Manager!WorkerFate /\ Manager!KeptUntilReady
      /\ Manager!InboxInOrder /\ Manager!OutboxInOrder /\ Manager!OutInOrder
      /\ Manager!NoneLeftOut /\ Manager!LostOnlyByWorker /\ Manager!EachParserInOrder
  BY DEF Manager!HandOverInv
<1>1. /\ posted = {} /\ Len(pending) = next - 1
      /\ \A i \in 1..Len(pending) : pending[i] = i
      /\ \A i \in 1..Len(outbox) : outbox[i].chunk = 0
      /\ \A i \in 1..Len(inbox) : inbox[i] = 0
  BY <1>0, Ranges DEF Manager!KeptUntilReady
<1>2. /\ outbox' \in Seq(Mail) /\ Len(outbox) > 0
      /\ Len(outbox') = Len(outbox) - 1 /\ DOMAIN outbox' = 1..(Len(outbox) - 1)
      /\ \A i \in 1..(Len(outbox) - 1) : outbox'[i] = outbox[i + 1]
  BY <1>0, TypeFacts, Shifted
<1>3. \A i \in DOMAIN outbox' : outbox'[i].chunk = 0
  BY <1>0, <1>1, <1>2, Ranges
<1>4. Manager!TypeOK'
  <2>1. <<>> \in Seq(Manager!Chunks) /\ Len(<<>>) <= MaxPending
    BY BytesAssumption
  <2>2. QED
    BY <1>0, <1>2, <2>1, TypeFacts DEF Manager!TypeOK, Manager!Chunks, Mail
<1>5. Manager!WorkerFate' /\ Manager!KeptUntilReady' /\ Manager!NoneLeftOut'
  BY DEF Manager!WorkerFate, Manager!KeptUntilReady, Manager!NoneLeftOut
<1>6. Manager!InboxInOrder' /\ Manager!OutboxInOrder'
  BY <1>0, <1>1, <1>3, Ranges DEF Manager!InboxInOrder, Manager!OutboxInOrder
<1>7. Manager!OutInOrder' /\ Manager!EachParserInOrder'
  BY <1>0, <1>1, Ranges DEF Manager!OutInOrder, Manager!EachParserInOrder
<1>8. Accounted'
  BY <1>0, <1>1, Ranges DEF Accounted, In
<1>9. QED
  BY <1>4, <1>5, <1>6, <1>7, <1>8, NextAccounted DEF Manager!HandOverInv

\* The worker is ready: what was kept is posted to it.
LEMMA FlushInv ==
  ASSUME Manager!HandOverInv, worker, ~ready, outbox # <<>>, outbox' = Tail(outbox),
         Head(outbox).type = "ready",
         ready', ready' \in BOOLEAN, inbox' = inbox \o pending, pending' = <<>>,
         posted' = posted \cup Manager!Elements(pending),
         UNCHANGED <<worker, alive, terminated, next, out>>
  PROVE  Manager!HandOverInv'
<1> USE DEF Manager!InitMessage
<1>0. /\ Manager!TypeOK /\ Manager!WorkerFate /\ Manager!KeptUntilReady
      /\ Manager!InboxInOrder /\ Manager!OutboxInOrder /\ Manager!OutInOrder
      /\ Manager!NoneLeftOut /\ Manager!LostOnlyByWorker /\ Manager!EachParserInOrder
  BY DEF Manager!HandOverInv
<1>1. /\ out = <<>> /\ posted = {} /\ Len(pending) = next - 1
      /\ \A i \in 1..Len(pending) : pending[i] = i
      /\ \A i \in 1..Len(outbox) : outbox[i].chunk = 0
      /\ \A i \in 1..Len(inbox) : inbox[i] = 0
  BY <1>0, Ranges DEF Manager!KeptUntilReady
<1>2. /\ outbox' \in Seq(Mail) /\ Len(outbox) > 0 /\ Head(outbox) = outbox[1]
      /\ Len(outbox') = Len(outbox) - 1 /\ DOMAIN outbox' = 1..(Len(outbox) - 1)
      /\ \A i \in 1..(Len(outbox) - 1) : outbox'[i] = outbox[i + 1]
  BY <1>0, TypeFacts, Shifted
<1>3. \A i \in DOMAIN outbox' : outbox'[i].chunk = 0
  BY <1>0, <1>1, <1>2, Ranges
<1>4. posted' = 1..(next - 1)
  BY <1>0, <1>1, Ranges DEF Manager!Elements
<1>5. /\ inbox' \in Seq(0..MaxChunks)
      /\ Len(inbox') = Len(inbox) + next - 1 /\ DOMAIN inbox' = 1..(Len(inbox) + next - 1)
      /\ \A i \in 1..Len(inbox) : inbox'[i] = 0
      /\ \A i \in 1..(next - 1) : inbox'[Len(inbox) + i] = i
  <2>1. pending \in Seq(0..MaxChunks)
    BY <1>0, TypeFacts
  <2>2. /\ inbox' \in Seq(0..MaxChunks)
        /\ Len(inbox') = Len(inbox) + Len(pending)
        /\ DOMAIN inbox' = 1..(Len(inbox) + Len(pending))
        /\ \A i \in 1..Len(inbox) : inbox'[i] = inbox[i]
        /\ \A i \in 1..Len(pending) : inbox'[Len(inbox) + i] = pending[i]
    BY <1>0, <2>1, TypeFacts, Joined
  <2>3. QED
    BY <1>0, <1>1, <2>2, Ranges
<1>6. \A i \in DOMAIN inbox' : inbox'[i] = IF i <= Len(inbox) THEN 0 ELSE i - Len(inbox)
  <2> SUFFICES ASSUME NEW i \in DOMAIN inbox', ~(i <= Len(inbox))
               PROVE  inbox'[i] = i - Len(inbox)
    BY <1>0, <1>5, Ranges
  <2>1. i - Len(inbox) \in 1..(next - 1) /\ Len(inbox) + (i - Len(inbox)) = i
    BY <1>0, <1>5, Ranges
  <2>2. QED
    BY <1>5, <2>1
<1>7. Manager!TypeOK'
  <2>1. <<>> \in Seq(Manager!Chunks) /\ Len(<<>>) <= MaxPending
    BY BytesAssumption
  <2>2. inbox' \in Seq(Manager!Chunks \cup {0})
    <3>1. Manager!Chunks \cup {0} = 0..MaxChunks
      BY <1>0, TypeFacts DEF Manager!Chunks
    <3>2. QED
      BY <1>5, <3>1
  <2>3. posted' \subseteq Manager!Chunks
    BY <1>0, <1>4, TypeFacts DEF Manager!Chunks
  <2>4. QED
    BY <1>0, <1>2, <2>1, <2>2, <2>3 DEF Manager!TypeOK, Mail
<1>8. Manager!WorkerFate'
  <2> SUFFICES ASSUME NEW i \in DOMAIN outbox', outbox'[i].type = "exit", worker
               PROVE  \E j \in 1..(i - 1) : outbox'[j].type = "crash"
    BY <1>0 DEF Manager!WorkerFate
  <2>1. PICK j \in 1..i : outbox[j].type = "crash"
    BY <1>0, <1>2, Ranges DEF Manager!WorkerFate
  <2>2. j # 1
    BY <1>2, <2>1
  <2>3. i \in 1..(Len(outbox) - 1) /\ j - 1 \in 1..(Len(outbox) - 1) /\ j - 1 \in 1..(i - 1)
    BY <1>0, <1>2, <2>1, <2>2, Ranges
  <2>4. outbox'[j - 1] = outbox[j]
    BY <1>0, <1>2, <2>1, <2>3, Ranges
  <2>5. QED
    BY <2>1, <2>3, <2>4
<1>9. Manager!KeptUntilReady'
  BY DEF Manager!KeptUntilReady
<1>10. Manager!InboxInOrder'
  <2>1. \A i \in DOMAIN inbox' : inbox'[i] # 0 => inbox'[i] = i - Len(inbox)
    BY <1>6
  <2>2. \A i \in DOMAIN inbox' : inbox'[i] # 0 => inbox'[i] \in posted'
    BY <1>0, <1>4, <1>5, <1>6, Ranges
  <2>3. \A i, j \in DOMAIN inbox' : i < j /\ inbox'[j] # 0 => inbox'[i] < inbox'[j]
    <3> SUFFICES ASSUME NEW i \in DOMAIN inbox', NEW j \in DOMAIN inbox', i < j, inbox'[j] # 0
                 PROVE  inbox'[i] < inbox'[j]
      OBVIOUS
    <3>1. i \in Int /\ j \in Int /\ Len(inbox) \in Int
      BY <1>0, <1>5, Ranges
    <3>2. QED
      BY <1>6, <3>1
  <2>4. QED
    BY <2>2, <2>3 DEF Manager!InboxInOrder
<1>11. Manager!OutboxInOrder'
  <2>1. \A j \in DOMAIN inbox' : inbox'[j] # 0 => 0 < inbox'[j]
    BY <1>0, <1>5, <1>6, Ranges
  <2>2. QED
    BY <1>3, <2>1 DEF Manager!OutboxInOrder
<1>12. Manager!OutInOrder' /\ Manager!EachParserInOrder'
  BY <1>0, <1>1, <1>4, Ranges DEF Manager!OutInOrder, Manager!EachParserInOrder
<1>13. Manager!NoneLeftOut'
  BY <1>0, <1>1, <1>3, Ranges DEF Manager!NoneLeftOut
<1>14. Accounted'
  <2> SUFFICES ASSUME NEW c \in 1..(next - 1) PROVE In(inbox', c)
    BY DEF Accounted
  <2>1. Len(inbox) \in Nat /\ next \in Nat
    BY <1>0, Ranges
  <2>2. inbox'[Len(inbox) + c] = c
    BY <1>5
  <2>3. Len(inbox) + c \in 1..Len(inbox')
    BY <1>5, <2>1
  <2>4. QED
    BY <2>2, <2>3 DEF In
<1>15. QED
  BY <1>7, <1>8, <1>9, <1>10, <1>11, <1>12, <1>13, <1>14, NextAccounted DEF Manager!HandOverInv

\* The outbox without its first message is in order.
LEMMA ShiftedInOrder ==
  ASSUME Manager!OutboxInOrder, UNCHANGED <<inbox, posted>>,
         \A i \in DOMAIN outbox' : i \in Nat /\ i + 1 \in DOMAIN outbox /\ outbox'[i] = outbox[i + 1]
  PROVE  Manager!OutboxInOrder'
<1> USE DEF Manager!InitMessage
<1>1. \A i \in DOMAIN outbox' : outbox'[i].chunk # 0 => outbox'[i].chunk \in posted
  BY DEF Manager!OutboxInOrder
<1>2. \A i, j \in DOMAIN outbox' :
        i < j /\ outbox'[j].chunk # 0 => outbox'[i].chunk < outbox'[j].chunk
  <2> SUFFICES ASSUME NEW i \in DOMAIN outbox', NEW j \in DOMAIN outbox', i < j,
                      outbox'[j].chunk # 0
               PROVE  outbox'[i].chunk < outbox'[j].chunk
    OBVIOUS
  <2>1. i + 1 < j + 1
    OBVIOUS
  <2>2. outbox[i + 1].chunk < outbox[j + 1].chunk
    BY <2>1 DEF Manager!OutboxInOrder
  <2>3. QED
    BY <2>2
<1>3. \A i \in DOMAIN outbox', j \in DOMAIN inbox : inbox[j] # 0 => outbox'[i].chunk < inbox[j]
  BY DEF Manager!OutboxInOrder
<1>4. QED
  BY <1>1, <1>2, <1>3 DEF Manager!OutboxInOrder

\* A message about no chunk is handled, and the chunks stay where they are.
LEMMA PassedInv ==
  ASSUME Manager!HandOverInv, ~worker \/ ready, outbox # <<>>, outbox' = Tail(outbox),
         Head(outbox).chunk = 0,
         worker' \in BOOLEAN, ready' \in BOOLEAN, terminated' \in BOOLEAN,
         worker' => worker /\ ready' /\ ~terminated' /\ Head(outbox).type # "crash",
         UNCHANGED <<pending, inbox, alive, next, out, posted>>
  PROVE  Manager!HandOverInv'
<1> USE DEF Manager!InitMessage
<1>0. /\ Manager!TypeOK /\ Manager!WorkerFate /\ Manager!KeptUntilReady
      /\ Manager!InboxInOrder /\ Manager!OutboxInOrder /\ Manager!OutInOrder
      /\ Manager!NoneLeftOut /\ Manager!LostOnlyByWorker /\ Manager!EachParserInOrder
  BY DEF Manager!HandOverInv
<1>1. /\ outbox' \in Seq(Mail) /\ Len(outbox) > 0
      /\ Head(outbox) = outbox[1] /\ Head(outbox) \in Mail
      /\ Len(outbox') = Len(outbox) - 1 /\ DOMAIN outbox' = 1..(Len(outbox) - 1)
      /\ \A i \in 1..(Len(outbox) - 1) : outbox'[i] = outbox[i + 1]
  BY <1>0, TypeFacts, Shifted
<1>2. \A i \in DOMAIN outbox' : i + 1 \in 1..Len(outbox) /\ i \in Nat /\ outbox'[i] = outbox[i + 1]
  BY <1>0, <1>1, Ranges
<1>3. Manager!TypeOK'
  BY <1>0, <1>1 DEF Manager!TypeOK, Mail
<1>4. Manager!WorkerFate'
  <2> SUFFICES ASSUME NEW i \in DOMAIN outbox', outbox'[i].type = "exit", worker'
               PROVE  \E j \in 1..(i - 1) : outbox'[j].type = "crash"
    BY <1>0 DEF Manager!WorkerFate
  <2>1. PICK j \in 1..i : outbox[j].type = "crash"
    BY <1>0, <1>2, Ranges DEF Manager!WorkerFate
  <2>2. j # 1
    BY <1>1, <2>1
  <2>3. j - 1 \in 1..(Len(outbox) - 1) /\ j - 1 \in 1..(i - 1)
    BY <1>0, <1>1, <2>1, <2>2, Ranges
  <2>4. outbox'[j - 1] = outbox[j]
    BY <1>0, <1>1, <2>1, <2>3, Ranges
  <2>5. QED
    BY <2>1, <2>3, <2>4
<1>5. Manager!KeptUntilReady'
  BY <1>0 DEF Manager!KeptUntilReady
<1>6. Manager!InboxInOrder' /\ Manager!EachParserInOrder'
  BY <1>0 DEF Manager!InboxInOrder, Manager!EachParserInOrder
<1>7. Manager!OutboxInOrder'
  BY <1>0, <1>2, Ranges, ShiftedInOrder
<1>8. Manager!OutInOrder'
  BY <1>0, <1>2, Ranges DEF Manager!OutInOrder
<1>9. Manager!NoneLeftOut'
  <2> SUFFICES ASSUME worker', NEW j \in DOMAIN outbox', NEW c \in 1..(outbox'[j].chunk - 1),
                      ~(c <= Len(out))
               PROVE  \E i \in 1..(j - 1) : outbox'[i].chunk = c
    BY <1>0 DEF Manager!NoneLeftOut
  <2>1. PICK i \in 1..j : outbox[i].chunk = c
    BY <1>0, <1>2, Ranges DEF Manager!NoneLeftOut
  <2>2. c # 0
    BY <1>0, <1>2, Ranges
  <2>3. i # 1
    BY <1>1, <2>1, <2>2
  <2>4. Len(outbox) \in Nat /\ j \in 1..(Len(outbox) - 1)
    BY <1>0, <1>1, Ranges
  <2>5. i - 1 \in 1..(Len(outbox) - 1) /\ i - 1 \in 1..(j - 1)
    BY <2>1, <2>3, <2>4
  <2>6. outbox'[i - 1] = outbox[i]
    BY <1>1, <2>1, <2>4, <2>5
  <2>7. QED
    BY <2>1, <2>5, <2>6
<1>10. Accounted'
  <2>1. Accounted
    BY <1>0, AccountedForm
  <2>2. \A c \in 1..(next - 1) : InMail(outbox, c) => InMail(outbox', c)
    <3> SUFFICES ASSUME NEW c \in 1..(next - 1), NEW i \in 1..Len(outbox), outbox[i].chunk = c
                 PROVE  InMail(outbox', c)
      BY DEF InMail
    <3>1. i - 1 \in 1..(Len(outbox) - 1)
      BY <1>0, <1>1, Ranges
    <3>2. outbox'[i - 1].chunk = c
      BY <1>0, <1>1, <3>1, Ranges
    <3>3. QED
      BY <1>1, <3>1, <3>2 DEF InMail
  <2>3. QED
    BY <2>1, <2>2 DEF Accounted
<1>11. QED
  BY <1>3, <1>4, <1>5, <1>6, <1>7, <1>8, <1>9, <1>10, NextAccounted DEF Manager!HandOverInv

\* The packets of a chunk come back, or the chunk itself with an error.
LEMMA HandedInv ==
  ASSUME Manager!HandOverInv, outbox # <<>>, outbox' = Tail(outbox),
         NEW c, c = Head(outbox).chunk, c # 0, out' = Append(out, c),
         worker' \in BOOLEAN, ready' \in BOOLEAN, terminated' \in BOOLEAN,
         worker' => worker /\ ready' = ready /\ ~terminated',
         UNCHANGED <<pending, inbox, alive, next, posted>>
  PROVE  Manager!HandOverInv'
<1> USE DEF Manager!InitMessage
<1>0. /\ Manager!TypeOK /\ Manager!WorkerFate /\ Manager!KeptUntilReady
      /\ Manager!InboxInOrder /\ Manager!OutboxInOrder /\ Manager!OutInOrder
      /\ Manager!NoneLeftOut /\ Manager!LostOnlyByWorker /\ Manager!EachParserInOrder
  BY DEF Manager!HandOverInv
<1>1. /\ outbox' \in Seq(Mail) /\ Len(outbox) > 0
      /\ Head(outbox) = outbox[1] /\ Head(outbox) \in Mail
      /\ Len(outbox') = Len(outbox) - 1 /\ DOMAIN outbox' = 1..(Len(outbox) - 1)
      /\ \A i \in 1..(Len(outbox) - 1) : outbox'[i] = outbox[i + 1]
  BY <1>0, TypeFacts, Shifted
<1>2. \A i \in DOMAIN outbox' : i + 1 \in 1..Len(outbox) /\ i \in Nat /\ outbox'[i] = outbox[i + 1]
  BY <1>0, <1>1, Ranges
<1>3. /\ c \in posted /\ c \in 1..(next - 1) /\ c \in 1..MaxChunks
      /\ outbox[1].chunk = c /\ ~(worker /\ ~ready) /\ pending = <<>>
      /\ Head(outbox).type # "crash"
  <2>1. outbox[1].chunk = c /\ c \in posted
    BY <1>0, <1>1, Ranges DEF Manager!OutboxInOrder
  <2>2. c \in 1..(next - 1) /\ c \in 1..MaxChunks
    BY <1>0, <2>1, TypeFacts DEF Manager!OutInOrder
  <2>3. ~(worker /\ ~ready) /\ pending = <<>>
    BY <1>0, <2>1 DEF Manager!KeptUntilReady
  <2>4. Head(outbox).type # "crash"
    BY <1>1, MailCarries
  <2>5. QED
    BY <2>1, <2>2, <2>3, <2>4
<1>4. /\ out' \in Seq(1..MaxChunks)
      /\ Len(out') = Len(out) + 1 /\ DOMAIN out' = 1..(Len(out) + 1)
      /\ \A i \in 1..Len(out) : out'[i] = out[i]
      /\ out'[Len(out) + 1] = c
  <2>1. out \in Seq(1..MaxChunks)
    BY <1>0, TypeFacts
  <2>2. QED
    BY ONLY <2>1, <1>3, Appended, out' = Append(out, c)
<1>5. /\ \A i \in DOMAIN outbox' : outbox'[i].chunk # 0 => c < outbox'[i].chunk
      /\ \A i \in DOMAIN inbox : inbox[i] # 0 => c < inbox[i]
      /\ \A i \in 1..Len(out) : out[i] \in posted => out[i] < c
  <2>1. 1 \in DOMAIN outbox /\ \A i \in DOMAIN outbox' : 1 < i + 1 /\ i + 1 \in DOMAIN outbox
    BY <1>0, <1>1, <1>2, Ranges
  <2>2. \A i \in DOMAIN outbox' : outbox'[i].chunk # 0 => c < outbox'[i].chunk
    BY <1>0, <1>2, <1>3, <2>1 DEF Manager!OutboxInOrder
  <2>3. \A i \in DOMAIN inbox : inbox[i] # 0 => c < inbox[i]
    BY <1>0, <1>3, <2>1 DEF Manager!OutboxInOrder
  <2>4. \A i \in 1..Len(out) : out[i] \in posted => out[i] < c
    <3>1. \A i \in DOMAIN out : out[i] \in posted =>
            \A j \in DOMAIN outbox : outbox[j].chunk # 0 => out[i] < outbox[j].chunk
      BY <1>0 DEF Manager!OutInOrder
    <3>2. DOMAIN out = 1..Len(out)
      BY <1>0, Ranges
    <3>3. QED
      BY <1>3, <2>1, <3>1, <3>2
  <2>5. QED
    BY <2>2, <2>3, <2>4
<1>6. Manager!TypeOK'
  BY <1>0, <1>1, <1>4 DEF Manager!TypeOK, Mail, Manager!Chunks
<1>7. Manager!WorkerFate'
  <2> SUFFICES ASSUME NEW i \in DOMAIN outbox', outbox'[i].type = "exit", worker'
               PROVE  \E j \in 1..(i - 1) : outbox'[j].type = "crash"
    BY <1>0 DEF Manager!WorkerFate
  <2>1. PICK j \in 1..i : outbox[j].type = "crash"
    BY <1>0, <1>2, Ranges DEF Manager!WorkerFate
  <2>2. j # 1
    BY <1>1, <1>3, <2>1
  <2>3. j - 1 \in 1..(Len(outbox) - 1) /\ j - 1 \in 1..(i - 1)
    BY <1>0, <1>1, <2>1, <2>2, Ranges
  <2>4. outbox'[j - 1] = outbox[j]
    BY <1>0, <1>1, <2>1, <2>3, Ranges
  <2>5. QED
    BY <2>1, <2>3, <2>4
<1>8. Manager!KeptUntilReady'
  BY <1>3 DEF Manager!KeptUntilReady
<1>9. Manager!InboxInOrder'
  BY <1>0 DEF Manager!InboxInOrder
<1>10. Manager!OutboxInOrder'
  BY <1>0, <1>2, Ranges, ShiftedInOrder
<1>11. Manager!OutInOrder'
  <2> SUFFICES ASSUME NEW i \in DOMAIN out'
               PROVE  /\ out'[i] < next
                      /\ out'[i] \in posted =>
                           /\ \A j \in DOMAIN outbox' :
                                outbox'[j].chunk # 0 => out'[i] < outbox'[j].chunk
                           /\ \A j \in DOMAIN inbox : inbox[j] # 0 => out'[i] < inbox[j]
    BY <1>0 DEF Manager!OutInOrder
  <2>1. CASE i \in 1..Len(out)
    BY <1>0, <1>2, <1>4, <2>1, Ranges DEF Manager!OutInOrder
  <2>2. CASE i = Len(out) + 1
    BY <1>0, <1>3, <1>4, <1>5, <2>2, Ranges
  <2>3. QED
    BY <1>0, <1>4, <2>1, <2>2, Ranges
<1>12. Manager!EachParserInOrder'
  <2> SUFFICES ASSUME NEW i \in DOMAIN out', NEW j \in DOMAIN out', i < j,
                      out'[i] \in posted <=> out'[j] \in posted
               PROVE  out'[i] < out'[j]
    BY DEF Manager!EachParserInOrder
  <2>1. i \in 1..Len(out)
    BY <1>0, <1>4, Ranges
  <2>2. CASE j \in 1..Len(out)
    BY <1>0, <1>4, <2>1, <2>2, Ranges DEF Manager!EachParserInOrder
  <2>3. CASE j = Len(out) + 1
    BY <1>3, <1>4, <1>5, <2>1, <2>3
  <2>4. QED
    BY <1>0, <1>4, <2>2, <2>3, Ranges
<1>13. Manager!NoneLeftOut'
  <2> SUFFICES ASSUME worker', worker, ready
               PROVE  /\ \A i \in DOMAIN out' : out'[i] = i /\ out'[i] \in posted
                      /\ \A j \in DOMAIN outbox' : \A d \in 1..(outbox'[j].chunk - 1) :
                           d <= Len(out') \/ \E i \in 1..(j - 1) : outbox'[i].chunk = d
    BY <1>3 DEF Manager!NoneLeftOut
  <2>1. c = Len(out) + 1
    <3>1. \A i \in 1..Len(out) : out[i] = i /\ out[i] \in posted /\ i < c
      BY <1>0, <1>5, Ranges DEF Manager!NoneLeftOut
    <3>2. \A d \in 1..(c - 1) : d <= Len(out)
      <4> SUFFICES ASSUME NEW d \in 1..(outbox[1].chunk - 1), ~(d <= Len(out)) PROVE FALSE
        BY <1>3
      <4>1. 1 \in DOMAIN outbox
        BY <1>0, <1>1, Ranges
      <4>2. \A j \in DOMAIN outbox : \A e \in 1..(outbox[j].chunk - 1) :
              e <= Len(out) \/ \E i \in 1..(j - 1) : outbox[i].chunk = e
        BY <1>0 DEF Manager!NoneLeftOut
      <4>3. \E i \in 1..(1 - 1) : outbox[i].chunk = d
        BY <4>1, <4>2
      <4>4. QED
        BY <4>3
    <3>3. c \in Nat /\ Len(out) \in Nat
      BY <1>0, <1>3, Ranges
    <3>4. Len(out) < c
      BY <1>3, <3>1, <3>3
    <3>5. c - 1 <= Len(out)
      BY <1>3, <3>2, <3>3
    <3>6. QED
      BY <3>3, <3>4, <3>5
  <2>2. \A i \in DOMAIN out' : out'[i] = i /\ out'[i] \in posted
    BY <1>0, <1>3, <1>4, <2>1, Ranges DEF Manager!NoneLeftOut
  <2>3. ASSUME NEW j \in DOMAIN outbox', NEW d \in 1..(outbox'[j].chunk - 1), ~(d <= Len(out'))
        PROVE  \E i \in 1..(j - 1) : outbox'[i].chunk = d
    <3>1. ~(d <= Len(out)) /\ d # c
      BY <1>0, <1>4, <2>1, <2>3, <1>2, Ranges
    <3>2. PICK i \in 1..j : outbox[i].chunk = d
      BY <1>0, <1>2, <3>1, Ranges DEF Manager!NoneLeftOut
    <3>3. i # 1
      BY <1>3, <3>1, <3>2
    <3>4. i - 1 \in 1..(Len(outbox) - 1) /\ i - 1 \in 1..(j - 1)
      BY <1>0, <1>1, <3>2, <3>3, Ranges
    <3>5. outbox'[i - 1] = outbox[i]
      BY <1>0, <1>1, <3>2, <3>4, Ranges
    <3>6. QED
      BY <3>2, <3>4, <3>5
  <2>4. QED
    BY <2>2, <2>3
<1>14. Accounted'
  <2>1. Accounted
    BY <1>0, AccountedForm
  <2>2. In(out', c) /\ \A d : In(out, d) => In(out', d)
    <3>1. Len(out) \in Nat
      BY <1>0, Ranges
    <3>2. QED
      BY <1>4, <3>1 DEF In
  <2>3. \A d \in 1..(next - 1) : InMail(outbox, d) /\ d # c => InMail(outbox', d)
    <3> SUFFICES ASSUME NEW d \in 1..(next - 1), d # c, NEW i \in 1..Len(outbox), outbox[i].chunk = d
                 PROVE  InMail(outbox', d)
      BY DEF InMail
    <3>1. i - 1 \in 1..(Len(outbox) - 1)
      BY <1>0, <1>1, <1>3, Ranges
    <3>2. outbox'[i - 1].chunk = d
      BY <1>0, <1>1, <3>1, Ranges
    <3>3. QED
      BY <1>1, <3>1, <3>2 DEF InMail
  <2>4. QED
    BY <2>1, <2>2, <2>3 DEF Accounted
<1>15. QED
  BY <1>6, <1>7, <1>8, <1>9, <1>10, <1>11, <1>12, <1>13, <1>14, NextAccounted DEF Manager!HandOverInv

-----------------------------------------------------------------------------
(* The worker thread.                                                      *)

\* ... when the worker answers a chunk, ...
LEMMA TakeInv ==
  ASSUME Manager!HandOverInv, alive, inbox # <<>>, inbox' = Tail(inbox),
         NEW t \in {"ready", "packets", "error"},
         NEW e, e = [type |-> t, chunk |-> Head(inbox)], e \in Mail,
         outbox' = Append(outbox, e),
         UNCHANGED <<worker, ready, pending, alive, terminated, next, out, posted>>
  PROVE  Manager!HandOverInv'
<1> USE DEF Manager!InitMessage
<1>0. /\ Manager!TypeOK /\ Manager!WorkerFate /\ Manager!KeptUntilReady
      /\ Manager!InboxInOrder /\ Manager!OutboxInOrder /\ Manager!OutInOrder
      /\ Manager!NoneLeftOut /\ Manager!LostOnlyByWorker /\ Manager!EachParserInOrder
  BY DEF Manager!HandOverInv
<1> DEFINE m == Head(inbox)
<1>1. /\ inbox' \in Seq(0..MaxChunks) /\ Len(inbox) > 0
      /\ m = inbox[1] /\ m \in 0..MaxChunks
      /\ Len(inbox') = Len(inbox) - 1 /\ DOMAIN inbox' = 1..(Len(inbox) - 1)
      /\ \A i \in 1..(Len(inbox) - 1) : inbox'[i] = inbox[i + 1]
  BY <1>0, TypeFacts, Shifted
<1>2. /\ 1 \in DOMAIN inbox
      /\ \A i \in DOMAIN inbox' : /\ i + 1 \in DOMAIN inbox /\ i \in Nat /\ 1 < i + 1
                                  /\ inbox'[i] = inbox[i + 1]
  <2>1. DOMAIN inbox = 1..Len(inbox) /\ Len(inbox) \in Nat
    BY <1>0, Ranges
  <2>2. QED
    BY <1>1, <2>1
<1>3. /\ outbox' \in Seq(Mail)
      /\ Len(outbox') = Len(outbox) + 1 /\ DOMAIN outbox' = 1..(Len(outbox) + 1)
      /\ \A i \in 1..Len(outbox) : outbox'[i] = outbox[i]
      /\ outbox'[Len(outbox) + 1] = e
  <2>1. outbox \in Seq(Mail)
    BY <1>0, TypeFacts
  <2>2. QED
    BY ONLY <2>1, e \in Mail, outbox' = Append(outbox, e), Appended
<1> HIDE DEF m
<1>4. e.type = t /\ e.chunk = m /\ t # "exit" /\ t # "crash"
  BY DEF m
<1>5. /\ m # 0 => m \in posted
      /\ \A i \in DOMAIN inbox' : inbox'[i] # 0 => m < inbox'[i]
      /\ \A i \in DOMAIN outbox : m # 0 => outbox[i].chunk < m
      /\ \A i \in DOMAIN out : out[i] \in posted /\ m # 0 => out[i] < m
  <2>1. m # 0 => m \in posted
    BY <1>0, <1>1, <1>2 DEF Manager!InboxInOrder
  <2>2. \A i \in DOMAIN inbox' : inbox'[i] # 0 => m < inbox'[i]
    BY <1>0, <1>1, <1>2 DEF Manager!InboxInOrder
  <2>3. \A i \in DOMAIN outbox : m # 0 => outbox[i].chunk < m
    BY <1>0, <1>1, <1>2 DEF Manager!OutboxInOrder
  <2>4. \A i \in DOMAIN out : out[i] \in posted /\ m # 0 => out[i] < m
    <3>1. \A i \in DOMAIN out : out[i] \in posted =>
            \A j \in DOMAIN inbox : inbox[j] # 0 => out[i] < inbox[j]
      BY <1>0 DEF Manager!OutInOrder
    <3>2. QED
      BY <1>1, <1>2, <3>1
  <2>5. QED
    BY <2>1, <2>2, <2>3, <2>4
<1>6. \A j \in DOMAIN outbox' :
        \/ j \in DOMAIN outbox /\ outbox'[j] = outbox[j]
        \/ j = Len(outbox) + 1 /\ outbox'[j].chunk = m /\ outbox'[j].type = t
  BY <1>0, <1>3, <1>4, Ranges
<1>7. \A j \in DOMAIN outbox : j < Len(outbox) + 1 /\ j \in DOMAIN outbox' /\ j \in Nat
  BY <1>0, <1>3, Ranges
<1>8. Manager!TypeOK'
  <2>1. inbox' \in Seq(Manager!Chunks \cup {0})
    <3>1. Manager!Chunks \cup {0} = 0..MaxChunks
      BY <1>0, TypeFacts DEF Manager!Chunks
    <3>2. QED
      BY <1>1, <3>1
  <2>2. QED
    BY <1>0, <1>3, <2>1 DEF Manager!TypeOK, Mail
<1>9. Manager!WorkerFate'
  <2> SUFFICES ASSUME NEW i \in DOMAIN outbox', outbox'[i].type = "exit", worker
               PROVE  \E j \in 1..(i - 1) : outbox'[j].type = "crash"
    BY <1>0 DEF Manager!WorkerFate
  <2>1. i \in DOMAIN outbox /\ outbox'[i] = outbox[i]
    BY <1>4, <1>6
  <2>2. PICK j \in 1..(i - 1) : outbox[j].type = "crash"
    BY <1>0, <2>1 DEF Manager!WorkerFate
  <2>3. j \in 1..Len(outbox)
    BY <1>0, <2>1, <2>2, Ranges
  <2>4. QED
    BY <1>3, <2>2, <2>3
<1>10. Manager!KeptUntilReady'
  <2>1. CASE worker /\ ~ready
    <3>1. m = 0 /\ \A i \in DOMAIN inbox' : inbox'[i] = 0
      BY <1>0, <1>1, <1>2, <2>1 DEF Manager!KeptUntilReady
    <3>2. \A j \in DOMAIN outbox' : outbox'[j].chunk = 0
      BY <1>0, <1>6, <2>1, <3>1 DEF Manager!KeptUntilReady
    <3>3. QED
      BY <1>0, <2>1, <3>1, <3>2 DEF Manager!KeptUntilReady
  <2>2. CASE ~(worker /\ ~ready)
    BY <1>0, <2>2 DEF Manager!KeptUntilReady
  <2>3. QED
    BY <2>1, <2>2
<1>11. Manager!InboxInOrder'
  <2>1. \A i \in DOMAIN inbox' : inbox'[i] # 0 => inbox'[i] \in posted
    BY <1>0, <1>2 DEF Manager!InboxInOrder
  <2>2. \A i, j \in DOMAIN inbox' : i < j /\ inbox'[j] # 0 => inbox'[i] < inbox'[j]
    <3> SUFFICES ASSUME NEW i \in DOMAIN inbox', NEW j \in DOMAIN inbox', i < j, inbox'[j] # 0
                 PROVE  inbox'[i] < inbox'[j]
      OBVIOUS
    <3>1. i + 1 < j + 1
      BY <1>2
    <3>2. inbox[i + 1] < inbox[j + 1]
      BY <1>0, <1>2, <3>1 DEF Manager!InboxInOrder
    <3>3. QED
      BY <1>2, <3>2
  <2>3. QED
    BY <2>1, <2>2 DEF Manager!InboxInOrder
<1>12. Manager!OutboxInOrder'
  <2>1. \A j \in DOMAIN outbox' : outbox'[j].chunk # 0 => outbox'[j].chunk \in posted
    BY <1>0, <1>5, <1>6 DEF Manager!OutboxInOrder
  <2>2. \A i, j \in DOMAIN outbox' :
          i < j /\ outbox'[j].chunk # 0 => outbox'[i].chunk < outbox'[j].chunk
    <3> SUFFICES ASSUME NEW i \in DOMAIN outbox', NEW j \in DOMAIN outbox', i < j,
                        outbox'[j].chunk # 0
                 PROVE  outbox'[i].chunk < outbox'[j].chunk
      OBVIOUS
    <3>1. i \in DOMAIN outbox /\ outbox'[i] = outbox[i]
      BY <1>0, <1>3, <1>6, Ranges
    <3>2. CASE j \in DOMAIN outbox /\ outbox'[j] = outbox[j]
      BY <1>0, <3>1, <3>2 DEF Manager!OutboxInOrder
    <3>3. CASE outbox'[j].chunk = m
      BY <1>5, <3>1, <3>3
    <3>4. QED
      BY <1>6, <3>2, <3>3
  <2>3. \A j \in DOMAIN outbox', i \in DOMAIN inbox' : inbox'[i] # 0 => outbox'[j].chunk < inbox'[i]
    <3> SUFFICES ASSUME NEW j \in DOMAIN outbox', NEW i \in DOMAIN inbox', inbox'[i] # 0
                 PROVE  outbox'[j].chunk < inbox'[i]
      OBVIOUS
    <3>1. CASE j \in DOMAIN outbox /\ outbox'[j] = outbox[j]
      BY <1>0, <1>2, <3>1 DEF Manager!OutboxInOrder
    <3>2. CASE outbox'[j].chunk = m
      BY <1>5, <3>2
    <3>3. QED
      BY <1>6, <3>1, <3>2
  <2>4. QED
    BY <2>1, <2>2, <2>3 DEF Manager!OutboxInOrder
<1>13. Manager!OutInOrder'
  <2> SUFFICES ASSUME NEW i \in DOMAIN out, out[i] \in posted
               PROVE  /\ \A j \in DOMAIN outbox' :
                           outbox'[j].chunk # 0 => out[i] < outbox'[j].chunk
                      /\ \A j \in DOMAIN inbox' : inbox'[j] # 0 => out[i] < inbox'[j]
    BY <1>0 DEF Manager!OutInOrder
  <2>1. /\ \A j \in DOMAIN outbox : outbox[j].chunk # 0 => out[i] < outbox[j].chunk
        /\ \A j \in DOMAIN inbox : inbox[j] # 0 => out[i] < inbox[j]
    BY <1>0 DEF Manager!OutInOrder
  <2>2. QED
    BY <1>2, <1>5, <1>6, <2>1
<1>14. Manager!NoneLeftOut'
  <2> SUFFICES ASSUME worker, NEW j \in DOMAIN outbox', NEW d \in 1..(outbox'[j].chunk - 1),
                      ~(d <= Len(out))
               PROVE  \E i \in 1..(j - 1) : outbox'[i].chunk = d
    BY <1>0 DEF Manager!NoneLeftOut
  <2>1. CASE j \in DOMAIN outbox /\ outbox'[j] = outbox[j]
    <3>1. PICK i \in 1..(j - 1) : outbox[i].chunk = d
      BY <1>0, <2>1 DEF Manager!NoneLeftOut
    <3>2. i \in 1..Len(outbox)
      BY <1>0, <2>1, <3>1, Ranges
    <3>3. QED
      BY <1>3, <3>1, <3>2
  <2>2. CASE j = Len(outbox) + 1 /\ outbox'[j].chunk = m
    <3>1. m # 0 /\ d < m /\ d \in 1..(next - 1) /\ d # 0
      <4>1. m \in Nat /\ d \in 1..(m - 1)
        BY <1>1, <2>2
      <4>2. m # 0 /\ d < m /\ d # 0
        BY <4>1
      <4>3. m \in 1..(next - 1)
        BY <1>0, <1>5, <4>2 DEF Manager!OutInOrder
      <4>4. QED
        BY <1>0, <4>1, <4>2, <4>3, Ranges
    <3>2. pending = <<>>
      <4>1. worker /\ ~ready => inbox[1] = 0
        BY <1>0, <1>2 DEF Manager!KeptUntilReady
      <4>2. ~(worker /\ ~ready)
        BY <1>1, <3>1, <4>1
      <4>3. QED
        BY <1>0, <4>2 DEF Manager!KeptUntilReady
    <3>3. ~In(out, d)
      <4>1. \A i \in DOMAIN out : out[i] = i
        BY <1>0 DEF Manager!NoneLeftOut
      <4>2. DOMAIN out = 1..Len(out) /\ Len(out) \in Nat
        BY <1>0, Ranges
      <4>3. QED
        BY <4>1, <4>2 DEF In
    <3>4. ~In(pending, d)
      BY <3>2 DEF In
    <3>5. ~In(inbox, d)
      <4> SUFFICES ASSUME NEW i \in DOMAIN inbox, inbox[i] = d PROVE FALSE
        BY <1>0, Ranges DEF In
      <4>1. i = 1 \/ 1 < i
        BY <1>0, Ranges
      <4>2. i # 1
        BY <1>1, <3>1
      <4>3. m < d
        BY <1>0, <1>1, <1>2, <3>1, <4>1, <4>2 DEF Manager!InboxInOrder
      <4>4. QED
        BY <1>1, <3>1, <4>3
    <3>6. InMail(outbox, d)
      BY <1>0, <3>1, <3>3, <3>4, <3>5, AccountedForm DEF Accounted
    <3>7. PICK i \in 1..Len(outbox) : outbox[i].chunk = d
      BY <3>6 DEF InMail
    <3>8. i \in 1..(j - 1)
      BY <1>0, <2>2, Ranges
    <3>9. QED
      BY <1>3, <3>7, <3>8
  <2>3. QED
    BY <1>6, <2>1, <2>2
<1>15. Accounted'
  <2>1. Accounted
    BY <1>0, AccountedForm
  <2>2. InMail(outbox', m) /\ \A c : InMail(outbox, c) => InMail(outbox', c)
    BY <1>0, <1>3, <1>4, Ranges DEF InMail
  <2>3. \A c : In(inbox, c) /\ c # m => In(inbox', c)
    <3> SUFFICES ASSUME NEW i \in 1..Len(inbox), inbox[i] # m PROVE In(inbox', inbox[i])
      BY DEF In
    <3>1. i - 1 \in 1..(Len(inbox) - 1)
      BY <1>0, <1>1, Ranges
    <3>2. inbox'[i - 1] = inbox[i]
      BY <1>0, <1>1, <3>1, Ranges
    <3>3. QED
      BY <1>1, <3>1, <3>2 DEF In
  <2>4. QED
    BY <2>1, <2>2, <2>3 DEF Accounted
<1>16. Manager!EachParserInOrder'
  BY <1>0 DEF Manager!EachParserInOrder
<1>17. QED
  BY <1>8, <1>9, <1>10, <1>11, <1>12, <1>13, <1>14, <1>15, <1>16, NextAccounted
     DEF Manager!HandOverInv

\* ... when it ends, ...
LEMMA EndInv ==
  ASSUME Manager!HandOverInv, Manager!WorkerEnds
  PROVE  Manager!HandOverInv'
<1> USE DEF Manager!InitMessage
<1>0. /\ Manager!TypeOK /\ Manager!WorkerFate /\ Manager!KeptUntilReady
      /\ Manager!InboxInOrder /\ Manager!OutboxInOrder /\ Manager!OutInOrder
      /\ Manager!NoneLeftOut /\ Manager!LostOnlyByWorker /\ Manager!EachParserInOrder
  BY DEF Manager!HandOverInv
<1> DEFINE crash == [type |-> "crash", chunk |-> 0]
           exit  == [type |-> "exit", chunk |-> 0]
<1>1. /\ ~alive' /\ inbox' = <<>> /\ alive' \in BOOLEAN
      /\ UNCHANGED <<worker, ready, pending, terminated, next, out, posted>>
      /\ \/ outbox' = outbox \o <<crash, exit>>
         \/ terminated /\ outbox' = Append(outbox, exit)
  BY DEF Manager!WorkerEnds, Manager!Post
<1>2. crash \in Mail /\ exit \in Mail
  BY IsMail
<1> HIDE DEF crash, exit
<1>3. crash.type = "crash" /\ crash.chunk = 0 /\ exit.type = "exit" /\ exit.chunk = 0
  BY DEF crash, exit
<1>4. outbox \in Seq(Mail) /\ Len(outbox) \in Nat
  BY <1>0, TypeFacts
\* What the thread posts at its end, and where.
<1>5. /\ outbox' \in Seq(Mail) /\ Len(outbox') \in Nat /\ Len(outbox) <= Len(outbox')
      /\ DOMAIN outbox' = 1..Len(outbox')
      /\ \A j \in 1..Len(outbox) : outbox'[j] = outbox[j]
      /\ \A j \in 1..Len(outbox') : j <= Len(outbox) \/ outbox'[j].chunk = 0
      /\ \A j \in 1..Len(outbox') :
           \/ j <= Len(outbox) \/ outbox'[j].type # "exit" \/ terminated
           \/ Len(outbox) + 1 < j /\ outbox'[Len(outbox) + 1].type = "crash"
  <2>1. CASE terminated /\ outbox' = Append(outbox, exit)
    <3>1. /\ outbox' \in Seq(Mail)
          /\ Len(outbox') = Len(outbox) + 1 /\ DOMAIN outbox' = 1..(Len(outbox) + 1)
          /\ \A i \in 1..Len(outbox) : outbox'[i] = outbox[i]
          /\ outbox'[Len(outbox) + 1] = exit
      BY ONLY <1>2, <1>4, <2>1, Appended
    <3>2. QED
      BY <1>3, <1>4, <2>1, <3>1
  <2>2. CASE outbox' = outbox \o <<crash, exit>>
    <3>1. /\ <<crash, exit>> \in Seq(Mail) /\ Len(<<crash, exit>>) = 2
          /\ <<crash, exit>>[1] = crash /\ <<crash, exit>>[2] = exit
      BY <1>2
    <3>2. /\ outbox' \in Seq(Mail)
          /\ Len(outbox') = Len(outbox) + 2 /\ DOMAIN outbox' = 1..(Len(outbox) + 2)
          /\ \A i \in 1..Len(outbox) : outbox'[i] = outbox[i]
          /\ \A i \in 1..2 : outbox'[Len(outbox) + i] = <<crash, exit>>[i]
      BY ONLY <1>4, <2>2, <3>1, Joined
    <3>3. outbox'[Len(outbox) + 1] = crash /\ outbox'[Len(outbox) + 2] = exit
      BY <3>1, <3>2
    <3>4. \A j \in 1..Len(outbox') :
            j <= Len(outbox) \/ j = Len(outbox) + 1 \/ j = Len(outbox) + 2
      BY <1>4, <3>2
    <3>5. QED
      BY <1>3, <1>4, <3>2, <3>3, <3>4
  <2>3. QED
    BY <1>1, <2>1, <2>2
<1>6. DOMAIN inbox' = {}
  BY <1>1
<1>7. \A j \in DOMAIN outbox' : \/ j \in DOMAIN outbox /\ outbox'[j] = outbox[j]
                                \/ outbox'[j].chunk = 0 /\ ~(j <= Len(outbox))
  BY <1>0, <1>5, Ranges
<1>8. Manager!TypeOK'
  <2>1. inbox' \in Seq(Manager!Chunks \cup {0})
    BY <1>1
  <2>2. QED
    BY <1>0, <1>1, <1>5, <2>1 DEF Manager!TypeOK, Mail
<1>9. Manager!WorkerFate'
  <2> SUFFICES ASSUME NEW i \in DOMAIN outbox', outbox'[i].type = "exit", worker
               PROVE  \E j \in 1..(i - 1) : outbox'[j].type = "crash"
    BY <1>0, <1>1 DEF Manager!WorkerFate
  <2>1. ~terminated
    BY <1>0 DEF Manager!WorkerFate
  <2>2. CASE i <= Len(outbox)
    <3>1. i \in DOMAIN outbox /\ outbox'[i] = outbox[i]
      BY <1>0, <1>5, <2>2, Ranges
    <3>2. PICK j \in 1..(i - 1) : outbox[j].type = "crash"
      BY <1>0, <3>1 DEF Manager!WorkerFate
    <3>3. j \in 1..Len(outbox)
      BY <1>0, <3>1, <3>2, Ranges
    <3>4. QED
      BY <1>5, <3>2, <3>3
  <2>3. CASE ~(i <= Len(outbox))
    <3>1. Len(outbox) + 1 < i /\ outbox'[Len(outbox) + 1].type = "crash"
      BY <1>5, <2>1, <2>3
    <3>2. Len(outbox) + 1 \in 1..(i - 1)
      BY <1>4, <1>5, <3>1
    <3>3. QED
      BY <3>1, <3>2
  <2>4. QED
    BY <2>2, <2>3
<1>10. Manager!KeptUntilReady'
  <2>1. CASE worker /\ ~ready
    <3>1. \A j \in DOMAIN outbox' : outbox'[j].chunk = 0
      BY <1>0, <1>7, <2>1 DEF Manager!KeptUntilReady
    <3>2. QED
      BY <1>0, <1>1, <1>6, <2>1, <3>1 DEF Manager!KeptUntilReady
  <2>2. CASE ~(worker /\ ~ready)
    BY <1>0, <1>1, <2>2 DEF Manager!KeptUntilReady
  <2>3. QED
    BY <2>1, <2>2
<1>11. Manager!InboxInOrder'
  BY <1>6 DEF Manager!InboxInOrder
<1>12. Manager!OutboxInOrder'
  <2>1. \A j \in DOMAIN outbox' : outbox'[j].chunk # 0 => outbox'[j].chunk \in posted
    BY <1>0, <1>7 DEF Manager!OutboxInOrder
  <2>2. \A i, j \in DOMAIN outbox' :
          i < j /\ outbox'[j].chunk # 0 => outbox'[i].chunk < outbox'[j].chunk
    <3> SUFFICES ASSUME NEW i \in DOMAIN outbox', NEW j \in DOMAIN outbox', i < j,
                        outbox'[j].chunk # 0
                 PROVE  outbox'[i].chunk < outbox'[j].chunk
      OBVIOUS
    <3>1. j \in DOMAIN outbox /\ outbox'[j] = outbox[j]
      BY <1>7
    <3>2. i \in DOMAIN outbox /\ outbox'[i] = outbox[i]
      BY <1>0, <1>5, <3>1, Ranges
    <3>3. QED
      BY <1>0, <3>1, <3>2 DEF Manager!OutboxInOrder
  <2>3. QED
    BY <1>1, <1>6, <2>1, <2>2 DEF Manager!OutboxInOrder
<1>13. Manager!OutInOrder'
  BY <1>0, <1>1, <1>6, <1>7 DEF Manager!OutInOrder
<1>14. Manager!NoneLeftOut'
  <2> SUFFICES ASSUME worker, NEW j \in DOMAIN outbox', NEW d \in 1..(outbox'[j].chunk - 1),
                      ~(d <= Len(out))
               PROVE  \E i \in 1..(j - 1) : outbox'[i].chunk = d
    BY <1>0, <1>1 DEF Manager!NoneLeftOut
  <2>1. outbox'[j].chunk # 0
    OBVIOUS
  <2>2. j \in DOMAIN outbox /\ outbox'[j] = outbox[j]
    BY <1>7, <2>1
  <2>3. PICK i \in 1..(j - 1) : outbox[i].chunk = d
    BY <1>0, <2>2 DEF Manager!NoneLeftOut
  <2>4. i \in 1..Len(outbox)
    BY <1>0, <2>2, <2>3, Ranges
  <2>5. QED
    BY <1>5, <2>3, <2>4
<1>15. Accounted'
  <2> SUFFICES ASSUME NEW c \in 1..(next - 1), ~(c \in posted)
               PROVE  In(out, c) \/ In(pending, c) \/ InMail(outbox', c)
    BY <1>1 DEF Accounted
  <2>1. ~In(inbox, c)
    <3> SUFFICES ASSUME NEW i \in DOMAIN inbox, inbox[i] = c PROVE FALSE
      BY <1>0, Ranges DEF In
    <3>1. inbox[i] # 0
      BY <1>0, Ranges
    <3>2. QED
      BY <1>0, <3>1 DEF Manager!InboxInOrder
  <2>2. In(out, c) \/ In(pending, c) \/ InMail(outbox, c)
    BY <1>0, <2>1, AccountedForm DEF Accounted
  <2>3. InMail(outbox, c) => InMail(outbox', c)
    BY <1>4, <1>5 DEF InMail
  <2>4. QED
    BY <2>2, <2>3
<1>16. Manager!EachParserInOrder'
  BY <1>0, <1>1 DEF Manager!EachParserInOrder
<1>17. QED
  BY <1>8, <1>9, <1>10, <1>11, <1>12, <1>13, <1>14, <1>15, <1>16, NextAccounted
     DEF Manager!HandOverInv

-----------------------------------------------------------------------------
(* The actions.                                                            *)

\* ... when a chunk arrives, ...
LEMMA ReceiveInv ==
  ASSUME Manager!HandOverInv, NEW c \in Manager!Chunks, Manager!Receive(c)
  PROVE  Manager!HandOverInv'
<1>1. c = next /\ next <= MaxChunks /\ next' = next + 1 /\ UNCHANGED <<outbox, alive>>
  BY DEF Manager!Receive
<1>2. Manager!TypeOK
  BY DEF Manager!HandOverInv
<1>3. CASE /\ worker /\ ready
           /\ inbox' = Append(inbox, c) /\ posted' = posted \cup {c}
           /\ UNCHANGED <<worker, ready, pending, terminated, out>>
  BY <1>1, <1>3, PostInv
<1>4. CASE /\ worker /\ ~ready
           /\ Len(pending) < MaxPending /\ pending' = Append(pending, c)
           /\ UNCHANGED <<worker, ready, terminated, out, inbox, posted>>
  BY <1>1, <1>4, KeepInv
<1>5. CASE /\ worker /\ ~ready
           /\ Manager!Fallback(Append(pending, c), <<>>) /\ UNCHANGED <<inbox, posted>>
  <2>1. /\ out' = out \o Append(pending, next) \o <<>> /\ pending' = <<>>
        /\ worker' = FALSE /\ ready' = (ready /\ ~worker) /\ terminated' = (terminated \/ worker)
    BY <1>1, <1>5 DEF Manager!Fallback, Manager!TerminateWorker
  <2>2. worker' \in BOOLEAN /\ ready' \in BOOLEAN /\ terminated' \in BOOLEAN
    BY <2>1, Zenon
  <2>3. QED
    BY <1>1, <1>5, <2>1, <2>2, OverflowInv
<1>6. CASE /\ ~worker /\ out' = Append(out, c)
           /\ UNCHANGED <<worker, ready, pending, terminated, inbox, posted>>
  BY <1>1, <1>6, ParseInv
<1>7. QED
  BY <1>3, <1>4, <1>5, <1>6 DEF Manager!Receive

\* ... when a message of the worker is handled, ...
LEMMA HandleInv ==
  ASSUME Manager!HandOverInv, Manager!Handle
  PROVE  Manager!HandOverInv'
<1> DEFINE m == Head(outbox)
<1>1. outbox # <<>> /\ outbox' = Tail(outbox) /\ UNCHANGED <<alive, next>>
  BY DEF Manager!Handle
<1>2. Manager!TypeOK /\ Manager!WorkerFate /\ Manager!KeptUntilReady
  BY DEF Manager!HandOverInv
<1>3. m \in Mail /\ m = outbox[1] /\ 1 \in DOMAIN outbox
  <2>1. m \in Mail /\ m = outbox[1] /\ Len(outbox) > 0
    BY <1>1, <1>2, TypeFacts, Shifted
  <2>2. QED
    BY <1>2, <2>1, Ranges
<1>4. worker \in BOOLEAN /\ ready \in BOOLEAN /\ terminated \in BOOLEAN
  BY <1>2 DEF Manager!TypeOK
<1>5. /\ inbox \o <<>> = inbox /\ out \o <<>> = out /\ out \o <<>> \o <<>> = out
      /\ \A c \in 1..MaxChunks : out \o <<>> \o <<c>> = Append(out, c)
  <2>1. inbox \in Seq(0..MaxChunks) /\ out \in Seq(1..MaxChunks)
    BY <1>2, TypeFacts
  <2>2. \A S : \A s \in Seq(S) : s \o <<>> = s /\ \A c \in S : s \o <<c>> = Append(s, c)
    OBVIOUS
  <2>3. QED
    BY <2>1, <2>2
<1> HIDE DEF m
<1>6. ASSUME m.type = "ready", Manager!Ready
      PROVE  Manager!HandOverInv'
  <2>1. m.chunk = 0
    BY <1>3, <1>6, MailCarries
  <2>2. CASE worker /\ ~ready
    BY <1>1, <1>6, <2>2, FlushInv DEF Manager!Ready, m
  <2>3. CASE ~(worker /\ ~ready)
    <3>1. pending = <<>>
      BY <1>2, <2>3 DEF Manager!KeptUntilReady
    <3>2. pending' = pending /\ inbox' = inbox /\ posted' = posted
      BY <1>5, <1>6, <3>1 DEF Manager!Ready, Manager!Elements
    <3>3. UNCHANGED <<worker, terminated, out>> /\ ready' = TRUE
      BY <1>6 DEF Manager!Ready
    <3>4. worker => ~terminated
      BY <1>2 DEF Manager!WorkerFate
    <3>5. QED
      BY <1>1, <1>4, <1>6, <2>1, <2>3, <3>2, <3>3, <3>4, PassedInv DEF m
  <2>4. QED
    BY <2>2, <2>3
<1>7. ASSUME m.type = "packets", out' = Append(out, m.chunk),
             UNCHANGED <<worker, ready, pending, terminated, inbox, posted>>
      PROVE  Manager!HandOverInv'
  <2>1. m.chunk # 0
    BY <1>3, <1>7, MailCarries
  <2>2. worker => ~terminated
    BY <1>2 DEF Manager!WorkerFate
  <2>3. QED
    BY <1>1, <1>4, <1>7, <2>1, <2>2, HandedInv DEF m
<1>8. ASSUME m.type \in {"error", "crash"},
             Manager!Fallback(pending, IF m.chunk = 0 THEN <<>> ELSE <<m.chunk>>),
             UNCHANGED <<inbox, posted>>
      PROVE  Manager!HandOverInv'
  <2>1. /\ out' = out \o pending \o (IF m.chunk = 0 THEN <<>> ELSE <<m.chunk>>)
        /\ pending' = <<>>
        /\ worker' = FALSE /\ ready' = (ready /\ ~worker) /\ terminated' = (terminated \/ worker)
    BY <1>8 DEF Manager!Fallback, Manager!TerminateWorker
  <2>2. worker' \in BOOLEAN /\ ready' \in BOOLEAN /\ terminated' \in BOOLEAN
    BY <2>1, Zenon
  <2>3. CASE worker /\ ~ready
    <3>1. out = <<>> /\ m.chunk = 0
      BY <1>2, <1>3, <2>3 DEF Manager!KeptUntilReady
    <3>2. <<>> \o pending \o <<>> = pending
      <4>1. pending \in Seq(1..MaxChunks)
        BY <1>2, TypeFacts
      <4>2. QED
        BY <4>1
    <3>3. out' = pending
      BY <2>1, <3>1, <3>2
    <3>4. QED
      BY <1>1, <1>8, <2>1, <2>2, <2>3, <3>3, TakeOverInv
  <2>4. CASE ~(worker /\ ~ready)
    <3>1. pending = <<>>
      BY <1>2, <2>4 DEF Manager!KeptUntilReady
    <3>2. CASE m.chunk = 0
      BY <1>1, <1>5, <1>8, <2>1, <2>2, <2>4, <3>1, <3>2, PassedInv DEF m
    <3>3. CASE m.chunk # 0
      <4>1. m.chunk \in 1..MaxChunks
        BY <1>3, <3>3, MailCarries, BytesAssumption
      <4>2. out' = Append(out, m.chunk)
        BY <1>5, <2>1, <3>1, <3>3, <4>1
      <4>3. QED
        BY <1>1, <1>8, <2>1, <2>2, <3>1, <3>3, <4>2, HandedInv DEF m
    <3>4. QED
      BY <3>2, <3>3
  <2>5. QED
    BY <2>3, <2>4
<1>9. ASSUME m.type = "exit", Manager!TerminateWorker, UNCHANGED <<pending, inbox, out, posted>>
      PROVE  Manager!HandOverInv'
  <2>1. ~worker
    BY <1>2, <1>3, <1>9 DEF Manager!WorkerFate
  <2>2. m.chunk = 0
    BY <1>3, <1>9, MailCarries
  <2>3. worker' = FALSE /\ ready' = (ready /\ ~worker) /\ terminated' = (terminated \/ worker)
    BY <1>9 DEF Manager!TerminateWorker
  <2>4. worker' \in BOOLEAN /\ ready' \in BOOLEAN /\ terminated' \in BOOLEAN
    BY <2>3, Zenon
  <2>5. QED
    BY <1>1, <1>9, <2>1, <2>2, <2>3, <2>4, PassedInv DEF m
<1>10. QED
  BY <1>6, <1>7, <1>8, <1>9 DEF Manager!Handle, m

\* ... and when the worker takes a chunk.
LEMMA WorkerTakesInv ==
  ASSUME Manager!HandOverInv, Manager!WorkerTakes
  PROVE  Manager!HandOverInv'
<1> DEFINE m == Head(inbox)
<1>1. /\ alive /\ inbox # <<>> /\ inbox' = Tail(inbox)
      /\ UNCHANGED <<worker, ready, pending, alive, terminated, next, out, posted>>
  BY DEF Manager!WorkerTakes
<1>2. m \in 0..MaxChunks /\ MaxChunks \in Nat
  <2>1. inbox \in Seq(0..MaxChunks) /\ MaxChunks \in Nat
    BY TypeFacts DEF Manager!HandOverInv
  <2>2. QED
    BY <1>1, <2>1, Shifted
<1>3. PICK t \in {"ready", "packets", "error"} :
        /\ outbox' = Append(outbox, [type |-> t, chunk |-> m])
        /\ t = "ready" => m = 0
        /\ t = "packets" => m # 0
  BY DEF Manager!WorkerTakes, Manager!Post, Manager!InitMessage
<1> HIDE DEF m
<1>4. [type |-> t, chunk |-> m] \in Mail
  <2>1. CASE m = 0
    BY <1>3, <2>1, IsMail
  <2>2. CASE m # 0
    <3>1. m \in Manager!Chunks
      BY <1>2, <2>2 DEF Manager!Chunks
    <3>2. QED
      BY <1>3, <2>2, <3>1, IsMail
  <2>3. QED
    BY <2>1, <2>2
<1>5. QED
  BY <1>1, <1>3, <1>4, TakeInv DEF m

-----------------------------------------------------------------------------
(***************************************************************************)
(* Every step of a behaviour of MCBytes keeps the invariant of the manager:  *)
(* those of the other parts leave its variables alone.                      *)
(***************************************************************************)
LEMMA HandOverStep ==
  ASSUME Manager!HandOverInv, [BytesNext]_allVars
  PROVE  Manager!HandOverInv'
<1>1. CASE Manager!Next
  <2>1. ASSUME NEW c \in Manager!Chunks, Manager!Receive(c) PROVE Manager!HandOverInv'
    BY <2>1, ReceiveInv
  <2>2. QED
    BY <1>1, <2>1, HandleInv, WorkerTakesInv, EndInv DEF Manager!Next
<1>2. CASE UNCHANGED managerVars
  BY <1>2 DEF managerVars, Manager!HandOverInv, Manager!TypeOK, Manager!WorkerFate,
       Manager!KeptUntilReady, Manager!InboxInOrder, Manager!OutboxInOrder,
       Manager!OutInOrder, Manager!NoneLeftOut, Manager!LostOnlyByWorker,
       Manager!InTransit, Manager!EachParserInOrder
<1>3. QED
  BY <1>1, <1>2 DEF BytesNext, ParserStep, ManagerStep, DeviceStep, MatchStep, StoreStep, allVars

\* The invariant says what the run checks.
LEMMA HandOverSays ==
  ASSUME Manager!HandOverInv
  PROVE  ChunksAccountedFor
<1> USE DEF Manager!InitMessage
<1>0. /\ Manager!TypeOK /\ Manager!WorkerFate /\ Manager!KeptUntilReady
      /\ Manager!InboxInOrder /\ Manager!OutboxInOrder /\ Manager!OutInOrder
      /\ Manager!NoneLeftOut /\ Manager!LostOnlyByWorker /\ Manager!EachParserInOrder
  BY DEF Manager!HandOverInv
<1>1. \A i, j \in DOMAIN out : i < j => out[i] # out[j]
  BY <1>0, Ranges DEF Manager!EachParserInOrder
<1>2. \A i, j \in DOMAIN out : out[i] = out[j] => i = j
  <2> SUFFICES ASSUME NEW i \in DOMAIN out, NEW j \in DOMAIN out, out[i] = out[j], i # j
               PROVE  FALSE
    OBVIOUS
  <2>1. i < j \/ j < i
    BY <1>0, Ranges
  <2>2. QED
    BY <1>1, <2>1
<1>3. Manager!InTransit \cap Manager!Elements(out) = {}
  <2> SUFFICES ASSUME NEW k \in DOMAIN out, out[k] \in Manager!InTransit PROVE FALSE
    BY DEF Manager!Elements
  <2>1. ~(out[k] \in Manager!Elements(pending))
    BY <1>0 DEF Manager!KeptUntilReady, Manager!Elements
  <2>2. ~(out[k] \in Manager!Elements(inbox) \ {0})
    <3> SUFFICES ASSUME NEW i \in DOMAIN inbox, inbox[i] # 0, out[k] = inbox[i] PROVE FALSE
      BY DEF Manager!Elements
    <3>1. out[k] < inbox[i]
      BY <1>0 DEF Manager!InboxInOrder, Manager!OutInOrder
    <3>2. QED
      BY <1>0, <3>1, Ranges
  <2>3. ~(out[k] \in {m.chunk : m \in {x \in Manager!Elements(outbox) : x.chunk # 0}})
    <3> SUFFICES ASSUME NEW i \in DOMAIN outbox, outbox[i].chunk # 0, out[k] = outbox[i].chunk
                 PROVE  FALSE
      BY DEF Manager!Elements
    <3>1. out[k] < outbox[i].chunk
      BY <1>0 DEF Manager!OutboxInOrder, Manager!OutInOrder
    <3>2. QED
      BY <1>0, <3>1, Ranges
  <2>4. QED
    BY <2>1, <2>2, <2>3 DEF Manager!InTransit
<1>4. Manager!WorkerInOrder
  BY <1>0 DEF Manager!NoneLeftOut, Manager!WorkerInOrder
<1>5. QED
  BY <1>0, <1>2, <1>3, <1>4 DEF ChunksAccountedFor, Manager!ProcessedOnce

\* No chunk is processed twice or in the wrong order, and none is lost but those
\* given to a worker that failed, whenever it fails (protocol-manager.ts).
THEOREM ChunksAccountedForCorrect == BytesSpec => []ChunksAccountedFor
<1>1. BytesInit => Manager!HandOverInv
  BY ManagerInit DEF BytesInit
<1>2. Manager!HandOverInv /\ [BytesNext]_allVars => Manager!HandOverInv'
  BY HandOverStep
<1>3. Manager!HandOverInv => ChunksAccountedFor
  BY HandOverSays
<1>4. QED
  BY <1>1, <1>2, <1>3, PTL DEF BytesSpec
-----------------------------------------------------------------------------
(* What was found and what comes next make up the packets of the stream.   *)

\* The packets E are those of the stream R up to offset P, whatever comes behind.
Reads(R, E, P) ==
  \A c \in Seq(Byte) : FramesFrom(R \o c, 0) = E \o FramesFrom(R \o c, P)

Promise == Whole => Reads(received, emitted, Consumed)
Done == Whole /\ pc = "idle" => FramesFrom(received, Consumed) = <<>>

ParserReads == ParserSafe /\ Promise /\ Done

\* The packets of a stream are packets with their places.
LEMMA FramesTyped ==
  ASSUME config \in ConfigType, NEW st \in Seq(Byte), NEW p \in 0 .. Len(st)
  PROVE  FramesFrom(st, p) \in Seq(FrameSet)
BY FramesUnfold DEF FrameRule

\* What is promised depends on the configuration alone, which no step changes.
LEMMA ReadsSame ==
  ASSUME config \in ConfigType, UNCHANGED config, NEW R \in Seq(Byte), NEW E, NEW P \in 0 .. Len(R)
  PROVE  /\ Reads(R, E, P)' <=> Reads(R, E, P)
         /\ FramesFrom(R, P)' = FramesFrom(R, P)
         /\ (DependsOnChunks' <=> DependsOnChunks) /\ (WindowCovers' <=> WindowCovers)
<1>1. ASSUME NEW c \in Seq(Byte)
      PROVE  /\ FramesFrom(R \o c, 0)' = FramesFrom(R \o c, 0)
             /\ FramesFrom(R \o c, P)' = FramesFrom(R \o c, P)
  <2> DEFINE st == R \o c
  <2>1. st \in Seq(Byte) /\ 0 \in 0 .. Len(st) /\ P \in 0 .. Len(st)
    <3>1. st \in Seq(Byte) /\ Len(st) = Len(R) + Len(c) /\ Len(R) \in Nat /\ Len(c) \in Nat
      BY Concat, LenProperties
    <3> HIDE DEF st
    <3> QED
      BY <3>1
  <2>2. \A t \in Seq(Byte) : \A p \in 0 .. Len(t) : FramesFrom(t, p)' = FramesFrom(t, p)
    BY SameFrames
  <2> HIDE DEF st
  <2>3. FramesFrom(st, 0)' = FramesFrom(st, 0) /\ FramesFrom(st, P)' = FramesFrom(st, P)
    BY <2>1, <2>2 DEF st
  <2> QED
    BY <2>3 DEF st
<1>2. Reads(R, E, P)' <=> Reads(R, E, P)
  BY <1>1 DEF Reads
<1>3. FramesFrom(R, P)' = FramesFrom(R, P)
  BY SameFrames
<1>4. /\ headerLength' = headerLength /\ footerLength' = footerLength
      /\ getChecksumLength' = getChecksumLength
  BY SameVerdict
<1>5. DependsOnChunks' <=> DependsOnChunks
  BY <1>4 DEF DependsOnChunks
<1>6. WindowCovers' <=> WindowCovers
  BY <1>4 DEF WindowCovers, UsesWindow, WindowEnd
<1> QED
  BY <1>2, <1>3, <1>5, <1>6

\* A fresh parser has read nothing of an empty stream.
LEMMA ReadsFresh ==
  ASSUME config \in ConfigType
  PROVE  Reads(<<>>, <<>>, 0) /\ FramesFrom(<<>>, 0) = <<>>
<1>1. <<>> \in Seq(Byte) /\ Len(<<>>) = 0 /\ 0 \in 0 .. Len(<<>>) /\ config.length \in Nat
      /\ Drop(<<>>, 0) = <<>>
  BY ConfigFacts DEF Drop
<1>2. ASSUME NEW c \in Seq(Byte)
      PROVE  FramesFrom(<<>> \o c, 0) = <<>> \o FramesFrom(<<>> \o c, 0)
  <2>1. <<>> \o c = c /\ 0 \in 0 .. Len(c)
    BY ConcatNone, LenProperties
  <2>2. FramesFrom(c, 0) \in Seq(FrameSet)
    BY <2>1, FramesTyped
  <2>3. <<>> \o FramesFrom(c, 0) = FramesFrom(c, 0)
    BY <2>2, ConcatNone
  <2> QED
    BY <2>1, <2>3
<1>3. FramesFrom(<<>>, 0) = <<>>
  <2>1. StreamStarts(<<>>) = {} /\ (config.length > 0 => FixedStarts(<<>>, 0) = {})
    BY <1>1, TooShort, NoFixed
  <2> QED
    BY <1>1, <2>1, NothingLeft
<1> QED
  BY <1>2, <1>3 DEF Reads

\* ParserReads holds at first, ...
LEMMA ParserReadsInit == Init => ParserReads
<1> SUFFICES ASSUME Init PROVE ParserReads
  OBVIOUS
<1>1. ParserSafe /\ received = <<>> /\ buffer = <<>> /\ emitted = <<>> /\ config \in ConfigType
      /\ Len(<<>>) = 0
  BY ParserSafeInit DEF Init, ParserSafe, ParserType
<1>2. Consumed = 0
  BY <1>1 DEF Consumed
<1> QED
  BY <1>1, <1>2, ReadsFresh DEF ParserReads, Promise, Done

\* ... an iteration keeps what is promised and what is done, ...
LEMMA IterateReadsOn ==
  ASSUME ParserReads, Iterate
  PROVE  Promise' /\ Done'
<1>1. /\ config \in ConfigType /\ buffer \in Seq(Byte) /\ received \in Seq(Byte) /\ emitted \in Seq(FrameSet)
      /\ Len(buffer) \in Nat /\ Len(received) \in Nat /\ ParserSafe /\ ParserType
      /\ Len(buffer) <= Len(received) /\ buffer = Drop(received, Consumed)
  BY LenProperties DEF ParserReads, ParserSafe, ParserType
<1>2. ParserType' /\ pc = "loop"
  BY <1>1, IterateSafe, IterateCases DEF ParserSafe
<1>3. UNCHANGED <<config, received, overflowed>>
  BY <1>1, IterateCases, IterateMoves DEF ParserSafe, Passes, Emits
<1>4. Whole' => Whole
  <2>1. 0 \in 0 .. Len(received)
    BY <1>1
  <2> QED
    BY <1>1, <1>3, <2>1, ReadsSame DEF Whole
<1> SUFFICES ASSUME Whole
             PROVE  Reads(received, emitted, Consumed)' /\ (pc' = "idle" => FramesFrom(received, Consumed)' = <<>>)
  BY <1>4 DEF Promise, Done
<1>5. Reads(received, emitted, Consumed)
  BY DEF ParserReads, Promise
<1>6. Consumed' \in 0 .. Len(received) /\ Consumed \in 0 .. Len(received)
  <2>1. Consumed' = Len(received) - Len(buffer') /\ Len(buffer') \in Nat /\ Len(buffer') <= Len(received)
    BY <1>2, <1>3, LenProperties DEF ParserType, Consumed
  <2>2. Consumed = Len(received) - Len(buffer)
    BY DEF Consumed
  <2> QED
    BY <1>1, <2>1, <2>2
<1>7. SUFFICES /\ Reads(received, emitted', Consumed')
               /\ pc' = "idle" => FramesFrom(received, Consumed') = <<>>
  <2>1. received' \in Seq(Byte) /\ Consumed' \in 0 .. Len(received') /\ received' = received
    BY <1>1, <1>3, <1>6
  <2>2. \A r \in Seq(Byte) : \A e : \A p \in 0 .. Len(r) :
          (Reads(r, e, p)' <=> Reads(r, e, p)) /\ FramesFrom(r, p)' = FramesFrom(r, p)
    BY <1>1, <1>3, ReadsSame
  <2>3. /\ Reads(received, emitted, Consumed)' <=> Reads(received', emitted', Consumed')
        /\ FramesFrom(received, Consumed)' = FramesFrom(received', Consumed')
    BY <2>1, <2>2
  <2> QED
    BY <2>1, <2>3
<1>8. CASE \E d \in 0 .. Len(buffer) :
             Passes(d) /\ ReadsAs(0, d) /\ (pc' = "idle" => FramesFrom(received, Consumed + d) = <<>>)
  <2>1. PICK d \in 0 .. Len(buffer) :
             Passes(d) /\ ReadsAs(0, d) /\ (pc' = "idle" => FramesFrom(received, Consumed + d) = <<>>)
    BY <1>8
  <2>2. Consumed' = Consumed + d /\ Consumed + 0 = Consumed /\ emitted' = emitted
    BY <1>1, <1>6, <2>1, Shortened DEF Passes
  <2> QED
    BY <1>5, <2>1, <2>2 DEF Reads, ReadsAs
<1>9. CASE \E o \in Nat : \E k \in Nat :
             /\ o + k <= Len(buffer) /\ Emits(o, k)
             /\ ReadsFirst(0, [at |-> Consumed + o, packet |-> SubSeq(buffer, o + 1, o + k)], o + k)
  <2>1. PICK o \in Nat, k \in Nat :
             /\ o + k <= Len(buffer) /\ Emits(o, k)
             /\ ReadsFirst(0, [at |-> Consumed + o, packet |-> SubSeq(buffer, o + 1, o + k)], o + k)
    BY <1>9
  <2> DEFINE e == [at |-> Consumed + o, packet |-> SubSeq(buffer, o + 1, o + k)]
  <2>2. o + k \in 0 .. Len(buffer) /\ Consumed + 0 = Consumed
    BY <1>1, <1>6, <2>1
  <2>3. emitted' = Append(emitted, e) /\ Consumed' = Consumed + (o + k) /\ pc' = "loop"
    BY <1>1, <1>2, <2>1, <2>2, Shortened DEF Emits
  <2>4. e \in FrameSet
    <3>1. Consumed + o \in Nat
      BY <1>1, <1>6
    <3>2. SubSeq(buffer, o + 1, o + k) \in Seq(Byte)
      <4>1. o + 1 \in Nat \ {0} /\ o + k \in Int
        OBVIOUS
      <4> QED
        BY <1>1, <2>1, <4>1, Sub
    <3> QED
      BY <3>1, <3>2 DEF FrameSet
  <2>5. ReadsFirst(0, e, o + k)
    BY <2>1
  <2> HIDE DEF e
  <2>6. emitted' = emitted \o <<e>> /\ <<e>> \in Seq(FrameSet)
    BY <1>1, <2>3, <2>4
  <2>7. ASSUME NEW c \in Seq(Byte)
        PROVE  FramesFrom(received \o c, 0) = emitted' \o FramesFrom(received \o c, Consumed')
    <3> DEFINE f == FramesFrom(received \o c, Consumed')
    <3>1. FramesFrom(received \o c, 0) = emitted \o (<<e>> \o f)
      BY <1>5, <2>2, <2>3, <2>5 DEF Reads, ReadsFirst
    <3>2. f \in Seq(FrameSet)
      <4>1. received \o c \in Seq(Byte) /\ Len(received \o c) = Len(received) + Len(c) /\ Len(c) \in Nat
        BY <1>1, Concat, LenProperties
      <4>2. Consumed' \in 0 .. Len(received \o c)
        BY <1>1, <1>6, <4>1
      <4> QED
        BY <1>1, <4>1, <4>2, FramesTyped
    <3> HIDE DEF f
    <3>3. (emitted \o <<e>>) \o f = emitted \o (<<e>> \o f)
      BY <1>1, <2>6, <3>2, ConcatThree
    <3> QED
      BY <2>6, <3>1, <3>3 DEF f
  <2> QED
    BY <2>3, <2>7 DEF Reads
<1> QED
  BY <1>1, <1>8, <1>9, IterateReads DEF ReadsOn

\* ... so does a call, ...
LEMMA ParseReadsOn ==
  ASSUME ParserReads, NEW chunk \in Seq(Byte), NEW silent \in BOOLEAN, ParseChunk(chunk, silent)
  PROVE  Promise' /\ Done'
<1>1. /\ config \in ConfigType /\ received \in Seq(Byte) /\ ParserType /\ Len(received) \in Nat
  BY LenProperties DEF ParserReads, ParserSafe, ParserType
<1>2. /\ Before(silent) \in Seq(Byte) /\ Start(silent) \in 0 .. Len(Before(silent))
      /\ received' = Before(silent) \o chunk /\ emitted' = Found(silent)
      /\ pc' = "loop" /\ UNCHANGED config
  BY <1>1, ChunkMoves
<1>3. ~overflowed' => Consumed' = Start(silent) /\ (silent \/ ~overflowed)
  <2>1. PICK x \in 0 .. (Len(Before(silent)) - Start(silent) + Len(chunk)) :
          Consumed' = Start(silent) + x /\ (~overflowed' => x = 0 /\ (silent \/ ~overflowed))
    BY <1>1, ChunkMoves
  <2> QED
    BY <1>2, <2>1
<1>4. Whole' => ~DependsOnChunks /\ WindowCovers
  <2>1. 0 \in 0 .. Len(received)
    BY <1>1
  <2> QED
    BY <1>1, <1>2, <2>1, ReadsSame DEF Whole
<1>5. Done'
  BY <1>2 DEF Done
<1> SUFFICES ASSUME Whole' PROVE Reads(received, emitted, Consumed)'
  BY <1>5 DEF Promise
<1>6. Consumed' = Start(silent) /\ (silent \/ ~overflowed)
  BY <1>3 DEF Whole
<1>7. Reads(Before(silent), Found(silent), Start(silent))
  <2>1. CASE silent
    BY <1>1, <2>1, ReadsFresh DEF Before, Found, Start
  <2>2. CASE ~silent
    BY <1>4, <1>6, <2>2 DEF Before, Found, Start, ParserReads, Promise, Whole
  <2> QED
    BY <2>1, <2>2
<1>8. Reads(Before(silent) \o chunk, Found(silent), Start(silent))
  <2> SUFFICES ASSUME NEW c \in Seq(Byte)
               PROVE  FramesFrom((Before(silent) \o chunk) \o c, 0)
                        = Found(silent) \o FramesFrom((Before(silent) \o chunk) \o c, Start(silent))
    BY DEF Reads
  <2>1. chunk \o c \in Seq(Byte)
    BY Concat
  <2>2. (Before(silent) \o chunk) \o c = Before(silent) \o (chunk \o c)
    <3> DEFINE b == Before(silent)
    <3>1. b \in Seq(Byte)
      BY <1>2
    <3> HIDE DEF b
    <3>2. (b \o chunk) \o c = b \o (chunk \o c)
      BY <3>1, ConcatThree
    <3> QED
      BY <3>2 DEF b
  <2> QED
    BY <1>7, <2>1, <2>2 DEF Reads
<1>9. received' \in Seq(Byte) /\ Consumed' \in 0 .. Len(received') /\ Reads(received', emitted', Consumed')
  <2>1. Before(silent) \o chunk \in Seq(Byte) /\ Len(Before(silent) \o chunk) = Len(Before(silent)) + Len(chunk)
        /\ Len(Before(silent)) \in Nat /\ Len(chunk) \in Nat
    BY <1>2, Concat, LenProperties
  <2>2. Start(silent) \in 0 .. Len(Before(silent) \o chunk)
    BY <1>2, <2>1
  <2> QED
    BY <1>2, <1>6, <1>8, <2>1, <2>2
<1>10. \A r \in Seq(Byte) : \A e : \A p \in 0 .. Len(r) : Reads(r, e, p)' <=> Reads(r, e, p)
  BY <1>1, <1>2, ReadsSame
<1> QED
  BY <1>9, <1>10

\* ... so that every step of the parser keeps it, ...
LEMMA ParserReadsStep ==
  ASSUME ParserReads, Next
  PROVE  ParserReads'
<1>1. ASSUME NEW chunk \in BoundedSeq(Byte, MaxChunk), NEW silent \in BOOLEAN, ParseChunk(chunk, silent)
      PROVE  ParserReads'
  <2>1. chunk \in Seq(Byte)
    BY ChunksAreBytes
  <2>2. ParserSafe'
    BY <1>1, <2>1, ParseKeepsType, ParseRemembers, ParseKeepsGenuine DEF ParserReads, ParserSafe
  <2> QED
    BY <1>1, <2>1, <2>2, ParseReadsOn DEF ParserReads
<1>2. CASE Iterate
  BY <1>2, IterateSafe, IterateReadsOn DEF ParserReads
<1> QED
  BY <1>1, <1>2 DEF Next

\* ... and the steps of others.
LEMMA ParserReadsStays ==
  ASSUME ParserReads, UNCHANGED vars
  PROVE  ParserReads'
<1>1. UNCHANGED config /\ UNCHANGED <<buffer, scanned, pc, received, emitted, overflowed>>
  BY DEF vars
<1>2. config \in ConfigType /\ received \in Seq(Byte) /\ Consumed' = Consumed
      /\ Consumed \in 0 .. Len(received) /\ ParserSafe'
  <2>1. /\ config \in ConfigType /\ received \in Seq(Byte) /\ Len(received) \in Nat /\ Len(buffer) \in Nat
        /\ Len(buffer) <= Len(received)
    BY LenProperties DEF ParserReads, ParserSafe, ParserType
  <2>2. Consumed' = Consumed /\ Consumed \in 0 .. Len(received)
    BY <1>1, <2>1 DEF Consumed
  <2> QED
    BY <2>1, <2>2, ParserSafeStays DEF ParserReads
<1> DEFINE R == received
           E == emitted
           P == Consumed
<1>3. R' = R /\ E' = E /\ P' = P /\ R \in Seq(Byte) /\ P \in 0 .. Len(R)
  BY <1>1, <1>2
<1>4. \A r \in Seq(Byte) : \A e : \A p \in 0 .. Len(r) :
        /\ Reads(r, e, p)' <=> Reads(r, e, p)
        /\ FramesFrom(r, p)' = FramesFrom(r, p)
        /\ (DependsOnChunks' <=> DependsOnChunks) /\ (WindowCovers' <=> WindowCovers)
  BY <1>1, <1>2, ReadsSame
<1> HIDE DEF R, E, P
<1>5. /\ Reads(R, E, P)' <=> Reads(R, E, P)
      /\ FramesFrom(R, P)' = FramesFrom(R, P)
      /\ (DependsOnChunks' <=> DependsOnChunks) /\ (WindowCovers' <=> WindowCovers)
  BY <1>3, <1>4
<1>6. Whole' <=> Whole
  BY <1>1, <1>5 DEF Whole
<1>7. Reads(received, emitted, Consumed)' <=> Reads(received, emitted, Consumed)
  BY <1>5 DEF R, E, P
<1>8. FramesFrom(received, Consumed)' = FramesFrom(received, Consumed)
  BY <1>5 DEF R, P
<1> QED
  BY <1>1, <1>2, <1>6, <1>7, <1>8 DEF ParserReads, Promise, Done

\* Nothing is left to read when the call ends: the packets are those of the stream.
LEMMA ReadsTheStream ==
  ASSUME ParserReads
  PROVE  FramesOfTheStream
<1>1. received \in Seq(Byte) /\ emitted \in Seq(FrameSet)
  BY DEF ParserReads, ParserSafe, ParserType
<1> SUFFICES ASSUME pc = "idle", Whole PROVE emitted = FramesFrom(received, 0)
  BY DEF FramesOfTheStream, Whole
<1>2. <<>> \in Seq(Byte) /\ received \o <<>> = received /\ emitted \o <<>> = emitted
  BY <1>1, ConcatNone
<1>3. FramesFrom(received \o <<>>, 0) = emitted \o FramesFrom(received \o <<>>, Consumed)
  BY <1>2 DEF ParserReads, Promise, Reads
<1>4. FramesFrom(received, Consumed) = <<>>
  BY DEF ParserReads, Done
<1> QED
  BY <1>2, <1>3, <1>4

-----------------------------------------------------------------------------
(* Packets that are built.                                                 *)

\* The types of a setting.
LEMMA SettingFacts ==
  ASSUME NEW s \in Settings
  PROVE  /\ s.header \in Seq(Byte) /\ s.footer \in Seq(Byte)
         /\ s.checksum \in Standard1Byte \cup {"none", "script"}
         /\ s.checksum2 \in {"none", "xor_add", "script"}
         /\ s.script.is = "number" => s.script.value \in Int
BY BuildersAssumption DEF Settings

\* A byte is the byte of itself.
LEMMA WrapTwice == \A n \in Int : Wrap(Wrap(n)) = Wrap(n)
BY ByteAssumption DEF Wrap

\* What goes on the wire is the same for bytes and for numbers that agree in their low bits.
LEMMA SameOnTheWire ==
  ASSUME NEW a \in Seq(Int), NEW b \in Seq(Int), NEW m \in Int, NEW n \in Int, Wrap(m) = Wrap(n)
  PROVE  OnTheWire(a \o <<m>> \o b) = OnTheWire(a \o <<n>> \o b)
<1> DEFINE u == a \o <<m>> \o b
           v == a \o <<n>> \o b
<1>1. DOMAIN u = DOMAIN v /\ \A i \in DOMAIN u : u[i] = v[i] \/ (u[i] = m /\ v[i] = n)
  <2>1. <<m>> \in Seq(Int) /\ <<n>> \in Seq(Int) /\ Len(<<m>>) = 1 /\ Len(<<n>>) = 1
    OBVIOUS
  <2> QED
    BY <2>1
<1> HIDE DEF u, v
<1>2. \A i \in DOMAIN u : Wrap(u[i]) = Wrap(v[i])
  BY <1>1
<1>3. OnTheWire(u) = OnTheWire(v)
  BY <1>1, <1>2 DEF OnTheWire
<1> QED
  BY <1>3 DEF u, v

\* framePacket and constructCommandPacket agree where both know the checksum.
LEMMA FramedGenerated ==
  ASSUME NEW s \in Settings, NEW payload \in Seq(Byte), s.checksum # "bestin_sum",
         s.checksum = "script" => s.script.is = "number",
         s.checksum = "none" /\ s.checksum2 = "script" =>
           s.script.is = "list" /\ Len(s.script.value) = 2
  PROVE  OnTheWire(Framed(s, payload)) = OnTheWire(Generated(s, payload))
<1> DEFINE covered == s.header \o payload
<1>1. CASE s.checksum \in Standard1Byte
  <2>1. s.checksum \in Standard1Byte \ {"bestin_sum"} /\ s.checksum # "script" /\ s.checksum # "none"
    BY <1>1 DEF Standard1Byte
  <2>2. FrameChecksum(s, covered) = <<Standard(s, covered)>>
    BY <2>1, Zenon DEF FrameChecksum
  <2>3. GeneratedChecksum(s, covered) = <<Standard(s, covered)>>
    BY <2>1 DEF GeneratedChecksum
  <2> QED
    BY <2>2, <2>3 DEF Framed, Generated
<1>2. CASE s.checksum = "script"
  <2>0. s.checksum \notin Standard1Byte
    BY <1>2 DEF Standard1Byte
  <2>1. FrameChecksum(s, covered) = <<s.script.value>>
    BY <1>2, <2>0 DEF FrameChecksum
  <2>2. GeneratedChecksum(s, covered) = <<Wrap(s.script.value)>>
    BY <1>2, <2>0 DEF GeneratedChecksum
  <2>3. /\ s.script.value \in Int /\ Wrap(s.script.value) \in Int
        /\ Wrap(Wrap(s.script.value)) = Wrap(s.script.value)
    BY <1>2, SettingFacts, WrapTwice, WrapType
  <2>4. covered \in Seq(Int) /\ s.footer \in Seq(Int)
    <3>1. covered \in Seq(Byte) /\ s.footer \in Seq(Byte)
      BY SettingFacts, Concat
    <3>2. ASSUME NEW t \in Seq(Byte) PROVE t \in Seq(Int)
      <4>1. \A i \in 1 .. Len(t) : t[i] \in Int
        BY Bytes, ElementOfSeq
      <4> QED
        BY <4>1, LenProperties
    <3> HIDE DEF covered
    <3> QED
      BY <3>1, <3>2
  <2> HIDE DEF covered
  <2>5. OnTheWire(covered \o <<s.script.value>> \o s.footer)
          = OnTheWire(covered \o <<Wrap(s.script.value)>> \o s.footer)
    BY <2>3, <2>4, SameOnTheWire
  <2> QED
    BY <2>1, <2>2, <2>5 DEF Framed, Generated, covered
<1>3. CASE s.checksum = "none"
  <2>0. s.checksum \notin Standard1Byte
    BY <1>3 DEF Standard1Byte
  <2>1. FrameChecksum(s, covered) = GeneratedChecksum(s, covered)
    BY <1>3, <2>0, SettingFacts DEF FrameChecksum, GeneratedChecksum
  <2> QED
    BY <2>1 DEF Framed, Generated
<1> QED
  BY <1>1, <1>2, <1>3, SettingFacts

\* constructCustomPacket with all parts builds what framePacket builds.
LEMMA FramedCustom ==
  ASSUME NEW s \in Settings, NEW payload, "none" \in {s.checksum, s.checksum2},
         "script" \notin {s.checksum, s.checksum2}
  PROVE  CustomPacket(s, AllParts, payload) = Framed(s, payload)
<1> DEFINE covered == s.header \o payload
           sum == CASE "checksum" \notin AllParts -> <<>>
                    [] "checksum" \in AllParts /\ s.checksum2 = "xor_add" -> XorAdd(covered)
                    [] "checksum" \in AllParts /\ s.checksum2 = "none" /\ s.checksum # "none" ->
                         <<CalculateChecksum(s.checksum, Len(s.header), covered)>>
                    [] OTHER -> <<>>
<1>1. AllParts = {"header", "checksum", "footer"}
  BY DEF AllParts
<1>2. CustomPacket(s, AllParts, payload) = covered \o sum \o s.footer
  BY <1>1 DEF CustomPacket
<1>3. sum = FrameChecksum(s, covered)
  <2>1. CASE s.checksum2 = "xor_add"
    <3>1. s.checksum = "none" /\ s.checksum \notin Standard1Byte
      BY <2>1 DEF Standard1Byte
    <3> QED
      BY <1>1, <2>1, <3>1 DEF FrameChecksum
  <2>2. CASE s.checksum2 = "none" /\ s.checksum # "none"
    <3>1. s.checksum \in Standard1Byte
      BY <2>2, SettingFacts
    <3> QED
      BY <1>1, <2>2, <3>1 DEF FrameChecksum, Standard
  <2>3. CASE s.checksum2 = "none" /\ s.checksum = "none"
    <3>1. s.checksum \notin Standard1Byte
      BY <2>3 DEF Standard1Byte
    <3> QED
      BY <1>1, <2>3, <3>1 DEF FrameChecksum
  <2> QED
    BY <2>1, <2>2, <2>3, SettingFacts
<1> HIDE DEF sum
<1> QED
  BY <1>2, <1>3 DEF Framed

\* So does the action of an automation, where the header is counted.
LEMMA FramedSent ==
  ASSUME NEW s \in Settings, NEW payload,
         s.checksum # "script", s.checksum = "none" => s.checksum2 # "script",
         s.header # <<>> => s.checksum \notin SkipsHeader
  PROVE  SentPackets(s, AllParts, payload) = {Framed(s, payload)}
<1> DEFINE covered == s.header \o payload
           sums == CASE "checksum" \notin AllParts -> {<<>>}
                     [] "checksum" \in AllParts /\ s.checksum \in Standard1Byte ->
                          {<<CalculateChecksum(s.checksum, 0, covered)>>}
                     [] "checksum" \in AllParts /\ s.checksum = "none" /\ s.checksum2 # "script" ->
                          {IF s.checksum2 = "xor_add" THEN XorAdd(covered) ELSE <<>>}
                     [] OTHER -> {}
<1>1. AllParts = {"header", "checksum", "footer"}
  BY DEF AllParts
<1>2. SentPackets(s, AllParts, payload) = {covered \o sum \o s.footer : sum \in sums}
  BY <1>1 DEF SentPackets
<1>3. sums = {FrameChecksum(s, covered)}
  <2>1. CASE s.checksum \in Standard1Byte
    <3>1. s.checksum # "none"
      BY <2>1 DEF Standard1Byte
    <3>2. CalculateChecksum(s.checksum, 0, covered) = CalculateChecksum(s.checksum, Len(s.header), covered)
      <4>1. CASE s.header = <<>>
        <5>1. Len(s.header) = 0
          BY <4>1
        <5> QED
          BY <5>1
      <4>2. CASE s.checksum \notin SkipsHeader
        BY <4>2 DEF CalculateChecksum
      <4> QED
        BY <4>1, <4>2
    <3>3. sums = {<<CalculateChecksum(s.checksum, 0, covered)>>}
      BY <1>1, <2>1, <3>1
    <3>4. FrameChecksum(s, covered) = <<CalculateChecksum(s.checksum, Len(s.header), covered)>>
      <4>1. s.checksum # "script"
        OBVIOUS
      <4> QED
        BY <2>1, <3>1, <4>1, Zenon DEF FrameChecksum, Standard
    <3> QED
      BY <3>2, <3>3, <3>4
  <2>2. CASE s.checksum = "none"
    <3>1. s.checksum \notin Standard1Byte
      BY <2>2 DEF Standard1Byte
    <3>2. sums = {IF s.checksum2 = "xor_add" THEN XorAdd(covered) ELSE <<>>}
      BY <1>1, <2>2, <3>1
    <3>3. FrameChecksum(s, covered) = IF s.checksum2 = "xor_add" THEN XorAdd(covered) ELSE <<>>
      BY <2>2, <3>1, SettingFacts DEF FrameChecksum
    <3> QED
      BY <3>2, <3>3
  <2> QED
    BY <2>1, <2>2, SettingFacts
<1> HIDE DEF sums
<1> QED
  BY <1>2, <1>3 DEF Framed

\* The builders agree whatever the settings and however long the payloads.
LEMMA BuildersDoAgree == BuildersAgree
<1> SUFFICES ASSUME NEW s \in Settings, NEW payload \in BoundedSeq(Byte, MaxPayload)
             PROVE  LET used == IF s.checksum # "none" THEN s.checksum ELSE s.checksum2
                        fits == /\ s.checksum # "none" => s.script.is = "number"
                                /\ s.checksum = "none" => s.script.is = "list" /\ Len(s.script.value) = 2
                    IN /\ s.checksum # "bestin_sum" /\ (used = "script" => fits)
                            => OnTheWire(Framed(s, payload)) = OnTheWire(Generated(s, payload))
                       /\ "none" \in {s.checksum, s.checksum2} /\ "script" \notin {s.checksum, s.checksum2}
                            => CustomPacket(s, AllParts, payload) = Framed(s, payload)
                       /\ used # "script" /\ (s.header # <<>> => s.checksum \notin SkipsHeader)
                            => SentPackets(s, AllParts, payload) = {Framed(s, payload)}
  BY DEF BuildersAgree
<1> DEFINE used == IF s.checksum # "none" THEN s.checksum ELSE s.checksum2
           fits == /\ s.checksum # "none" => s.script.is = "number"
                   /\ s.checksum = "none" => s.script.is = "list" /\ Len(s.script.value) = 2
<1>0. payload \in Seq(Byte)
  BY DEF BoundedSeq, SeqOf
<1>1. ASSUME s.checksum # "bestin_sum", used = "script" => fits
      PROVE  OnTheWire(Framed(s, payload)) = OnTheWire(Generated(s, payload))
  <2>1. /\ s.checksum = "script" => s.script.is = "number"
        /\ s.checksum = "none" /\ s.checksum2 = "script" => s.script.is = "list" /\ Len(s.script.value) = 2
    BY <1>1
  <2> QED
    BY <1>0, <1>1, <2>1, FramedGenerated
<1>2. ASSUME "none" \in {s.checksum, s.checksum2}, "script" \notin {s.checksum, s.checksum2}
      PROVE  CustomPacket(s, AllParts, payload) = Framed(s, payload)
  BY <1>2, FramedCustom
<1>3. ASSUME used # "script", s.header # <<>> => s.checksum \notin SkipsHeader
      PROVE  SentPackets(s, AllParts, payload) = {Framed(s, payload)}
  <2>1. s.checksum # "script" /\ (s.checksum = "none" => s.checksum2 # "script")
    BY <1>3
  <2> QED
    BY <1>3, <2>1, FramedSent
<1> QED
  BY <1>1, <1>2, <1>3

\* The four parts of a packet, where they lie in it.
Parts(R, H, P, C, F) ==
  /\ Len(R) = Len(H) + Len(P) + Len(C) + Len(F)
  /\ SubSeq(R, 1, Len(H)) = H
  /\ SubSeq(R, 1, Len(H) + Len(P)) = H \o P
  /\ \A i \in 1 .. Len(C) : R[Len(H) + Len(P) + i] = C[i]
  /\ SubSeq(R, Len(H) + Len(P) + Len(C) + 1, Len(R)) = F

\* The first of two sequences put together, and the second.
LEMMA FirstOfBoth ==
  ASSUME NEW S, NEW s \in Seq(S), NEW t \in Seq(S)
  PROVE  SubSeq(s \o t, 1, Len(s)) = s /\ Drop(s \o t, Len(s)) = t
<1>1. 1 \in Nat \ {0} /\ Len(s) \in Int /\ Len(s) <= Len(s) /\ Len(s) \in 0 .. Len(s) /\ Len(s) \in Nat
  BY LenProperties
<1>2. SubSeq(s \o t, 1, Len(s)) = SubSeq(s, 1, Len(s))
  BY <1>1, PieceOfBoth
<1>3. SubSeq(s, 1, Len(s)) = s
  BY <1>1, DropNone DEF Drop
<1>4. Drop(s \o t, Len(s)) = Drop(s, Len(s)) \o t
  BY <1>1, DropBoth
<1>5. Drop(s, Len(s)) = <<>>
  <2>1. Drop(s, Len(s)) \in Seq(S) /\ Len(Drop(s, Len(s))) = 0
    BY <1>1, Dropped
  <2> QED
    BY <2>1, EmptySeq
<1> QED
  BY <1>2, <1>3, <1>4, <1>5, ConcatNone

\* The four parts of a packet, by their places.
LEMMA PutTogether ==
  ASSUME NEW S, NEW H \in Seq(S), NEW P \in Seq(S), NEW C \in Seq(S), NEW F \in Seq(S)
  PROVE  Parts(H \o P \o C \o F, H, P, C, F)
<1> DEFINE a == H \o P
           b == a \o C
           R == b \o F
<1>1. a \in Seq(S) /\ Len(a) = Len(H) + Len(P)
  BY Concat
<1>2. b \in Seq(S) /\ Len(b) = Len(a) + Len(C) /\ \A i \in 1 .. Len(C) : b[Len(a) + i] = C[i]
  <2> HIDE DEF a
  <2>1. a \in Seq(S)
    BY <1>1
  <2> QED
    BY ONLY <2>1, C \in Seq(S), Concat
<1>3. R \in Seq(S) /\ Len(R) = Len(b) + Len(F) /\ \A i \in 1 .. Len(b) : R[i] = b[i]
  <2> HIDE DEF b
  <2>1. b \in Seq(S)
    BY <1>2
  <2> QED
    BY ONLY <2>1, F \in Seq(S), Concat
<1>4. SubSeq(R, 1, Len(b)) = b /\ Drop(R, Len(b)) = F
  <2> HIDE DEF b
  <2> QED
    BY <1>2, FirstOfBoth
<1>5. SubSeq(b, 1, Len(a)) = a
  <2> HIDE DEF a
  <2> QED
    BY <1>1, FirstOfBoth
<1>6. SubSeq(a, 1, Len(H)) = H
  BY FirstOfBoth
<1> HIDE DEF R, b, a
<1>7. /\ Len(H) \in Nat /\ Len(P) \in Nat /\ Len(C) \in Nat /\ Len(F) \in Nat /\ 1 \in Nat \ {0}
      /\ Len(H) \in Int /\ Len(a) \in Int /\ Len(a) <= Len(b) /\ Len(H) <= Len(a) /\ Len(H) <= Len(b)
  BY <1>1, <1>2, LenProperties
<1>8. SubSeq(R, 1, Len(a)) = SubSeq(b, 1, Len(a)) /\ SubSeq(R, 1, Len(H)) = SubSeq(b, 1, Len(H))
  <2>1. SubSeq(b \o F, 1, Len(a)) = SubSeq(b, 1, Len(a))
    BY <1>2, <1>7, PieceOfBoth
  <2>2. SubSeq(b \o F, 1, Len(H)) = SubSeq(b, 1, Len(H))
    BY <1>2, <1>7, PieceOfBoth
  <2> QED
    BY <2>1, <2>2 DEF R
<1>9. SubSeq(b, 1, Len(H)) = SubSeq(a, 1, Len(H))
  <2>1. SubSeq(a \o C, 1, Len(H)) = SubSeq(a, 1, Len(H))
    BY <1>1, <1>7, PieceOfBoth
  <2> QED
    BY <2>1 DEF b
<1>10. \A i \in 1 .. Len(C) : R[Len(a) + i] = C[i]
  <2>1. \A i \in 1 .. Len(C) : Len(a) + i \in 1 .. Len(b)
    BY <1>1, <1>2, <1>7
  <2> QED
    BY <1>2, <1>3, <2>1
<1>11. Len(R) = Len(H) + Len(P) + Len(C) + Len(F) /\ Len(b) = Len(H) + Len(P) + Len(C)
  BY <1>1, <1>2, <1>3
<1>12. SubSeq(R, Len(H) + Len(P) + Len(C) + 1, Len(R)) = F
  BY <1>4, <1>11 DEF Drop
<1>13. SubSeq(R, 1, Len(H)) = H /\ SubSeq(R, 1, Len(H) + Len(P)) = H \o P
       /\ \A i \in 1 .. Len(C) : R[Len(H) + Len(P) + i] = C[i]
  BY <1>1, <1>5, <1>6, <1>8, <1>9, <1>10 DEF a
<1>14. Parts(R, H, P, C, F)
  BY <1>11, <1>12, <1>13 DEF Parts
<1> QED
  BY <1>14 DEF R, b, a

\* The checksum the settings of the parser ask for.
SumOf(covered) ==
  CASE config.checksum = "none" -> <<>>
    [] config.checksum = "xor_add" -> XorAdd(covered)
    [] OTHER -> <<CalculateChecksum(config.checksum, headerLength, covered)>>

\* What is built with the settings of the parser.
LEMMA OwnPacket ==
  ASSUME config \in ConfigType, NEW payload
  PROVE  CustomPacket(Own, AllParts, payload)
           = config.header \o payload \o SumOf(config.header \o payload) \o config.footer
<1> DEFINE s == Own
           covered == config.header \o payload
           sum == CASE "checksum" \notin AllParts -> <<>>
                    [] "checksum" \in AllParts /\ s.checksum2 = "xor_add" -> XorAdd(covered)
                    [] "checksum" \in AllParts /\ s.checksum2 = "none" /\ s.checksum # "none" ->
                         <<CalculateChecksum(s.checksum, Len(s.header), covered)>>
                    [] OTHER -> <<>>
<1>1. AllParts = {"header", "checksum", "footer"}
  BY DEF AllParts
<1>2. /\ s.header = config.header /\ s.footer = config.footer
      /\ s.checksum = (IF config.checksum = "xor_add" THEN "none" ELSE config.checksum)
      /\ s.checksum2 = (IF config.checksum = "xor_add" THEN "xor_add" ELSE "none")
  BY DEF Own
<1>3. CustomPacket(s, AllParts, payload) = covered \o sum \o config.footer
  BY <1>1, <1>2 DEF CustomPacket
<1> HIDE DEF s
<1>4. sum = SumOf(covered)
  <2>1. CASE config.checksum = "none"
    BY <1>1, <1>2, <2>1 DEF SumOf
  <2>2. CASE config.checksum = "xor_add"
    BY <1>1, <1>2, <2>2 DEF SumOf
  <2>3. CASE config.checksum # "none" /\ config.checksum # "xor_add"
    BY <1>1, <1>2, <2>3 DEF SumOf, headerLength
  <2> QED
    BY <2>1, <2>2, <2>3
<1> HIDE DEF sum
<1> QED
  BY <1>3, <1>4 DEF s

\* The bytes of a checksum, and that they fit.
LEMMA SumFits ==
  ASSUME config \in ConfigType, NEW covered, NEW packet, NEW stop \in Nat,
         Len(packet) - footerLength - getChecksumLength = stop,
         SubSeq(packet, 1, stop) = covered,
         \A i \in 1 .. Len(SumOf(covered)) : packet[stop + i] = SumOf(covered)[i]
  PROVE  ChecksumFits(packet, footerLength)
<1>1. CASE config.checksum = "none"
  BY <1>1 DEF ChecksumFits
<1>2. CASE config.checksum = "xor_add"
  <2>1. SumOf(covered) = XorAdd(covered)
    BY <1>2 DEF SumOf
  <2>2. PICK a, b : XorAdd(covered) = <<a, b>>
    BY DEF XorAdd
  <2>3. packet[stop + 1] = a /\ packet[stop + 2] = b
    <3>1. 1 \in 1 .. Len(<<a, b>>) /\ 2 \in 1 .. Len(<<a, b>>) /\ <<a, b>>[1] = a /\ <<a, b>>[2] = b
      OBVIOUS
    <3> QED
      BY <2>1, <2>2, <3>1
  <2> QED
    BY <1>2, <2>2, <2>3 DEF ChecksumFits
<1>3. CASE config.checksum # "none" /\ config.checksum # "xor_add"
  <2> DEFINE v == CalculateChecksum(config.checksum, headerLength, covered)
  <2>1. SumOf(covered) = <<v>>
    BY <1>3 DEF SumOf
  <2> HIDE DEF v
  <2>2. packet[stop + 1] = v
    <3>1. 1 \in 1 .. Len(<<v>>) /\ <<v>>[1] = v
      OBVIOUS
    <3> QED
      BY <2>1, <3>1
  <2> QED
    BY <1>3, <2>2 DEF ChecksumFits, v
<1> QED
  BY <1>1, <1>2, <1>3

\* Length and type of its checksum.
LEMMA SumIs ==
  ASSUME config \in ConfigType, NEW covered
  PROVE  \E S : Byte \subseteq S /\ SumOf(covered) \in Seq(S) /\ Len(SumOf(covered)) = getChecksumLength
<1>1. CASE config.checksum = "none"
  <2>1. SumOf(covered) = <<>> /\ getChecksumLength = 0
    BY <1>1 DEF SumOf, getChecksumLength
  <2>2. <<>> \in Seq(Byte) /\ Len(<<>>) = 0
    OBVIOUS
  <2> QED
    BY <2>1, <2>2
<1>2. CASE config.checksum = "xor_add"
  <2>1. SumOf(covered) = XorAdd(covered) /\ getChecksumLength = 2
    BY <1>2 DEF SumOf, getChecksumLength
  <2>2. PICK a, b : XorAdd(covered) = <<a, b>>
    BY DEF XorAdd
  <2> DEFINE S == Byte \cup {a, b}
  <2>3. Byte \subseteq S /\ a \in S /\ b \in S
    OBVIOUS
  <2> HIDE DEF S
  <2>4. <<a, b>> \in Seq(S) /\ Len(<<a, b>>) = 2
    BY <2>3
  <2> QED
    BY <2>1, <2>2, <2>3, <2>4
<1>3. CASE config.checksum # "none" /\ config.checksum # "xor_add"
  <2> DEFINE v == CalculateChecksum(config.checksum, headerLength, covered)
             S == Byte \cup {v}
  <2>1. SumOf(covered) = <<v>> /\ getChecksumLength = 1
    BY <1>3 DEF SumOf, getChecksumLength
  <2> HIDE DEF v
  <2>2. Byte \subseteq S /\ v \in S
    OBVIOUS
  <2> HIDE DEF S
  <2>3. <<v>> \in Seq(S) /\ Len(<<v>>) = 1
    BY <2>2
  <2> QED
    BY <2>1, <2>2, <2>3
<1> QED
  BY <1>1, <1>2, <1>3

\* A packet that is built starts with the header, ends with the footer, has a payload
\* and verifies.
LEMMA BuiltVerifies ==
  ASSUME config \in ConfigType, NEW packet \in Seq(Byte), IsBuilt(packet), isLengthAllowed(Len(packet))
  PROVE  /\ verifyChecksum(packet) /\ 0 \in HeaderPlaces(packet)
         /\ headerLength + getChecksumLength + footerLength < Len(packet)
         /\ SubSeq(packet, Len(packet) - footerLength + 1, Len(packet)) = config.footer
<1> DEFINE h == headerLength
           k == getChecksumLength
           f == footerLength
           n == Len(packet) - h - k - f
           P == SubSeq(packet, h + 1, h + n)
           H == config.header
           F == config.footer
           C == SumOf(H \o P)
<1>1. /\ H \in Seq(Byte) /\ F \in Seq(Byte) /\ h \in Nat /\ k \in {0, 1, 2} /\ f \in Nat
      /\ Len(packet) \in Nat /\ Len(H) = h /\ Len(F) = f
  BY ConfigFacts, LenProperties DEF headerLength, footerLength
<1>2. n > 0 /\ packet = CustomPacket(Own, AllParts, P)
  BY DEF IsBuilt
<1>3. packet = H \o P \o C \o F
  BY <1>2, OwnPacket
<1> HIDE DEF h, k, f, H, F
<1>4. n \in Nat /\ h + k + f < Len(packet) /\ h + n <= Len(packet) /\ h + n - (h + 1) + 1 = n
      /\ h + n + k + f = Len(packet) /\ h + 1 \in Nat \ {0} /\ h + n \in Int /\ h + 1 <= h + n
      /\ Len(packet) - f - k = h + n /\ h + n + k + 1 = Len(packet) - f + 1 /\ h + n \in Nat
      /\ Len(packet) - 2 - f >= h + n + k - 2
  BY <1>1, <1>2
<1> HIDE DEF n
<1>5. P \in Seq(Byte) /\ Len(P) = n
  <2>1. SubSeq(packet, h + 1, h + n) \in Seq(Byte) /\ Len(SubSeq(packet, h + 1, h + n)) = n
    <3> DEFINE a == h + 1
               b == h + n
    <3>1. a \in Nat \ {0} /\ b \in Int /\ b <= Len(packet) /\ a <= b /\ b - a + 1 = n
      <4>1. h \in Nat /\ n \in Nat /\ h + n <= Len(packet) /\ n > 0 /\ Len(packet) \in Nat
        BY <1>1, <1>2, <1>4
      <4> QED
        BY ONLY <4>1
    <3> HIDE DEF a, b
    <3>2. SubSeq(packet, a, b) \in Seq(Byte) /\ Len(SubSeq(packet, a, b)) = n
      BY ONLY <3>1, packet \in Seq(Byte), Sub
    <3> QED
      BY <3>2 DEF a, b
  <2> QED
    BY <2>1
<1> HIDE DEF P, C
<1>6. PICK S : Byte \subseteq S /\ C \in Seq(S) /\ Len(C) = k
  BY SumIs DEF C, k
<1>7. H \in Seq(S) /\ P \in Seq(S) /\ F \in Seq(S)
  <2>1. ASSUME NEW t \in Seq(Byte) PROVE t \in Seq(S)
    <3>1. \A i \in 1 .. Len(t) : t[i] \in S
      BY <1>6, ElementOfSeq
    <3> QED
      BY <3>1, LenProperties
  <2> QED
    BY <1>1, <1>5, <2>1
<1>8. Parts(packet, H, P, C, F)
  BY <1>3, <1>6, <1>7, PutTogether
<1>9. /\ SubSeq(packet, 1, h) = H
      /\ SubSeq(packet, 1, h + n) = H \o P
      /\ \A i \in 1 .. Len(C) : packet[h + n + i] = C[i]
      /\ SubSeq(packet, Len(packet) - f + 1, Len(packet)) = F
  <2>1. /\ SubSeq(packet, 1, h) = H
        /\ SubSeq(packet, 1, h + n) = H \o P
        /\ \A i \in 1 .. Len(C) : packet[h + n + i] = C[i]
        /\ SubSeq(packet, h + n + k + 1, Len(packet)) = F
    BY <1>1, <1>5, <1>6, <1>8 DEF Parts
  <2> QED
    BY <1>4, <2>1
<1>10. ChecksumFits(packet, footerLength)
  <2>1. /\ Len(packet) - footerLength - getChecksumLength = h + n
        /\ \A i \in 1 .. Len(SumOf(H \o P)) : packet[h + n + i] = SumOf(H \o P)[i]
    BY <1>4, <1>9 DEF f, k, C
  <2> QED
    BY <1>4, <1>9, <2>1, SumFits
<1>11. config.checksum = "xor_add" => Len(packet) - 2 - footerLength >= headerLength
  <2>1. config.checksum = "xor_add" => k = 2
    BY ConfigFacts DEF k
  <2>2. k = 2 => Len(packet) - 2 - f >= h
    BY <1>1, <1>4
  <2> QED
    BY <2>1, <2>2 DEF f, h
<1>12. 0 \in HeaderPlaces(packet)
  <2>1. 0 \in 0 .. (Len(packet) - h) /\ 0 + 1 = 1 /\ 0 + h = h
    BY <1>1, <1>4
  <2> QED
    BY <1>9, <2>1 DEF HeaderPlaces, h, H
<1> QED
  BY <1>4, <1>9, <1>10, <1>11, <1>12 DEF verifyChecksum, h, k, f, F

\* A built packet that arrives alone is found whole.
LEMMA BuiltRead ==
  ASSUME ParserReads
  PROVE  BuiltIsRead
<1> SUFFICES ASSUME pc = "idle", ~overflowed, ~DependsOnChunks, received # <<>>,
                    getChecksumLength > 0 \/ config.footer # <<>> \/ config.length > 0,
                    config.length \in {0, Len(received)},
                    isLengthAllowed(Len(received)), ValidStart(received[1]),
                    IsBuilt(received), ~Anticipated(received)
             PROVE  emitted = <<[at |-> 0, packet |-> received]>>
  BY DEF BuiltIsRead
<1> DEFINE R == received
           L == Len(received)
<1>1. /\ config \in ConfigType /\ R \in Seq(Byte) /\ L \in Nat /\ L > 0 /\ L = Len(R)
      /\ headerLength \in Nat /\ footerLength \in Nat /\ getChecksumLength \in {0, 1, 2}
      /\ config.length \in Nat /\ (footerLength = 0 <=> config.footer = <<>>)
  <2>1. config \in ConfigType /\ R \in Seq(Byte)
    BY DEF ParserReads, ParserSafe, ParserType
  <2>2. L \in Nat /\ L # 0
    BY <2>1, LenProperties, EmptySeq
  <2> QED
    BY <2>1, <2>2, ConfigFacts
<1>2. /\ verifyChecksum(R) /\ 0 \in HeaderPlaces(R)
      /\ headerLength + getChecksumLength + footerLength < L
      /\ SubSeq(R, L - footerLength + 1, L) = config.footer
  BY <1>1, BuiltVerifies
<1>3. Take(R, L) = R /\ SubSeq(R, 1, L) = R /\ Drop(R, 0) = R
  BY <1>1, DropNone DEF Take, Drop
<1>4. config.length > 0 => config.length = L /\ headerLength = 0
  BY <1>1 DEF DependsOnChunks
<1>5. WindowCovers
  BY <1>1, <1>2, <1>4 DEF WindowCovers, WindowEnd
<1>6. emitted = FramesFrom(R, 0)
  BY <1>5, ReadsTheStream DEF FramesOfTheStream
<1> HIDE DEF R, L
<1>7. Leads(R, 0, L)
  <2>1. CASE config.length = 0
    <3>1. 0 \in StreamStarts(R)
      BY <1>1, <1>2 DEF StreamStarts, R
    <3>2. L \in Candidates(R)
      <4>1. CASE config.footer # <<>>
        <5>1. L \in (headerLength + 1 + getChecksumLength + footerLength) .. Len(R)
          BY <1>1, <1>2
        <5>2. L \in FooterEnds(R, headerLength + 1 + getChecksumLength + footerLength)
          BY <1>2, <5>1 DEF FooterEnds
        <5> QED
          BY <1>2, <1>3, <4>1, <5>2 DEF Candidates
      <4>2. CASE config.footer = <<>>
        <5>1. L \in (headerLength + getChecksumLength) .. Len(R) /\ getChecksumLength > 0
          BY <1>1, <1>2, <2>1, <4>2
        <5> QED
          BY <1>2, <1>3, <4>2, <5>1 DEF Candidates
      <4> QED
        BY <4>1, <4>2
    <3>3. ASSUME NEW x \in Candidates(R) PROVE L <= x
      <4>1. x \in 1 .. L
        BY <1>1, CandidatesLie
      <4>2. x = L
        <5> SUFFICES ASSUME x # L PROVE Anticipated(R)
          BY DEF R
        <5>1. CASE config.footer # <<>>
          <6>1. /\ x \in FooterEnds(R, headerLength + 1 + getChecksumLength + footerLength)
                /\ isLengthAllowed(x) => verifyChecksum(Take(R, x))
            BY <5>1 DEF Candidates
          <6> QED
            BY <1>1, <5>1, <6>1 DEF Anticipated
        <5>2. CASE config.footer = <<>>
          <6>1. /\ x \in (headerLength + getChecksumLength) .. Len(R)
                /\ verifyChecksum(Take(R, x))
            BY <5>2 DEF Candidates
          <6>2. x \in (headerLength + getChecksumLength) .. (Len(R) - 1)
            BY <1>1, <6>1
          <6> QED
            BY <2>1, <5>2, <6>1, <6>2 DEF Anticipated
        <5> QED
          BY <5>1, <5>2
      <4> QED
        BY <1>1, <4>2
    <3>4. ~(config.length > 0)
      BY <2>1
    <3> QED
      BY <3>1, <3>2, <3>3, <3>4 DEF Leads
  <2>2. CASE config.length > 0
    <3>1. 0 .. (Len(R) - config.length) = {0} /\ 0 + 1 = 1 /\ 0 + config.length = L
      BY <1>1, <1>4, <2>2
    <3>2. 0 \in FixedStarts(R, 0)
      BY <1>2, <1>3, <3>1 DEF FixedStarts, R
    <3>3. \A x \in FixedStarts(R, 0) : x = 0
      BY <3>1 DEF FixedStarts
    <3>4. config.length # 0
      BY <2>2
    <3> QED
      BY <1>4, <2>2, <3>2, <3>3, <3>4 DEF Leads
  <2> QED
    BY <1>1, <2>1, <2>2
<1>8. FramesFrom(R, 0) = <<[at |-> 0, packet |-> R]>> \o FramesFrom(R, L)
  <2>1. /\ 0 \in 0 .. Len(R) /\ 0 \in Nat /\ L \in Nat /\ 0 + L <= Len(R)
        /\ 0 + 0 = 0 /\ 0 + 0 + L = L /\ 0 + 1 = 1 /\ 0 + L = L
    BY <1>1
  <2>2. BeginsWith(R, 0, R, 0, L)
    BY <1>1, <1>3, <1>7, <2>1, PieceFirst
  <2>3. isLengthAllowed(L)
    BY DEF L
  <2> QED
    BY <1>3, <2>1, <2>2, <2>3 DEF BeginsWith
<1>9. FramesFrom(R, L) = <<>>
  <2>1. L \in 0 .. Len(R)
    BY <1>1
  <2> DEFINE b == Drop(R, L)
  <2>2. b \in Seq(Byte) /\ Len(b) = 0
    BY <1>1, <2>1, Dropped
  <2> HIDE DEF b
  <2>3. StreamStarts(b) = {} /\ (config.length > 0 => FixedStarts(b, 0) = {})
    BY <1>1, <2>2, TooShort, NoFixed
  <2> QED
    BY <1>1, <2>1, <2>3, NothingLeft DEF b
<1> QED
  BY <1>6, <1>8, <1>9 DEF R

\* Each part of what is said of the parser.
LEMMA ReadsSoundly ==
  ASSUME ParserReads
  PROVE  FramesAreSound
BY ReadsTheStream, RemembersInVain, BuiltRead, BuildersDoAgree DEF FramesAreSound, ParserReads, ParserSafe

-----------------------------------------------------------------------------
(* The theorems about the parser.                                          *)

\* The steps of the other parts leave the parser alone.
LEMMA ParserStepOnly == [BytesNext]_allVars => [Next]_vars
<1>1. ParserStep => Next
  BY DEF ParserStep
<1>2. ManagerStep \/ DeviceStep \/ MatchStep \/ StoreStep => UNCHANGED vars
  BY DEF ManagerStep, DeviceStep, MatchStep, StoreStep
<1>3. UNCHANGED allVars => UNCHANGED vars
  BY DEF allVars
<1> QED
  BY <1>1, <1>2, <1>3 DEF BytesNext

\* Between any two steps the parser stands where reading the whole stream at once
\* would stand: its inductive invariant (packet-parser.ts, parseChunk).
THEOREM ParserReadsAlways == BytesSpec => []ParserReads
<1>1. BytesInit => ParserReads
  BY ParserReadsInit DEF BytesInit
<1>2. ParserReads /\ [BytesNext]_allVars => ParserReads'
  BY ParserStepOnly, ParserReadsStep, ParserReadsStays
<1> QED
  BY <1>1, <1>2, PTL DEF BytesSpec

\* However a stream is cut into chunks, parseChunk finds the packets of the stream;
\* they verify and lie in it one after the other, the sweep leaves out only lengths
\* tried in vain, what the bridge builds is read back, and its builders agree
\* (packet-parser.ts, command.generator.ts).
THEOREM FramesAreSoundCorrect == BytesSpec => []FramesAreSound
<1>1. ParserReads => FramesAreSound
  BY ReadsSoundly
<1> QED
  BY <1>1, ParserReadsAlways, PTL

\* Every iteration of the loop of parseChunk ends it or consumes bytes.
THEOREM IterationsConsumeCorrect == BytesSpec => IterationsConsume
<1>1. ParserReads /\ [BytesNext]_allVars
        => [pc = "loop" => pc' = "idle" \/ Len(buffer') < Len(buffer)]_vars
  <2>1. ParserReads => ParserSafe
    BY DEF ParserReads
  <2> QED
    BY <2>1, ParserStepOnly, IterationConsumes
<1> QED
  BY <1>1, ParserReadsAlways, PTL DEF BytesSpec, IterationsConsume

-----------------------------------------------------------------------------
(* EntityStates.                                                           *)

\* A schema takes a number out of a packet, the same when an action gives it.
LEMMA ExtractIs ==
  ASSUME NEW s \in Schema, ~s.cel, NEW packet \in Seq(Nat), NEW header \in Nat
  PROVE  /\ Store!Extract(s, packet, header) \in Int
         /\ Store!Extract(Store!Given(s), packet, header) = Store!Extract(s, packet, header)
<1> DEFINE from == Store!Place(s, header)
           Is(f) == f = [i \in 0 .. 1 |-> IF i = 0 THEN 0 ELSE f[i - 1] * ByteSize + packet[from + i]]
           number == CHOOSE f : Is(f)
           g == [i \in 0 .. 1 |-> IF i = 0 THEN 0 ELSE packet[from + 1]]
<1>1. from \in Nat
  BY DEF Store!Place, Schema, Store!Start
<1>2. CASE from + 1 > Len(packet)
  BY <1>2 DEF Store!Extract, Store!Given, Store!Place, Schema, Store!Missing
<1>3. CASE ~(from + 1 > Len(packet))
  <2>1. packet[from + 1] \in Nat /\ Len(packet) \in Nat
    BY <1>1, <1>3
  <2>2. Is(g)
    BY <2>1, DescriptionsAssumption
  <2>3. Is(number)
    BY <2>2
  <2> HIDE DEF number
  <2>4. number[0] = 0 /\ number[1] = number[0] * ByteSize + packet[from + 1]
    BY <2>3
  <2>5. number[1] \in Int
    BY <2>1, <2>4, DescriptionsAssumption
  <2>6. Store!Extract(s, packet, header) = number[1]
    BY <1>3 DEF Store!Extract, number, Schema
  <2>7. Store!Extract(Store!Given(s), packet, header) = number[1]
    BY <1>3 DEF Store!Extract, Store!Given, number, Schema, Store!Place
  <2>8. QED
    BY <2>5, <2>6, <2>7
<1>4. QED
  BY <1>2, <1>3

\* A schema that an action gives matches what the same schema of the entity does.
LEMMA MatchesGiven ==
  ASSUME NEW s \in Schema, ~s.cel, NEW packet
  PROVE  Store!MatchesState(Store!Given(s), packet, 0) = Store!MatchesState(s, packet, 0)
BY DEF Store!MatchesState, Store!Given, Store!Place, Schema

\* Entities whose schemas are no expressions.
InSchemas(d) == Store!InSchemas(d)

\* An update that says nothing.
Quiet == Store!Says(Store!None, Store!None, Store!None)

\* What an action finds of flags is what the schemas of the entity say.
Repeats(given, d, packet) ==
  /\ DOMAIN given.flags \subseteq DOMAIN d.flags
  /\ \A k \in DOMAIN given.flags : given.flags[k] = Store!MatchesState(d.flags[k], packet, d.header)
  /\ given.words = Store!None

\* A flag holds in a report if an action with the entity's own schemas finds it.
LEMMA HoldsSame ==
  ASSUME NEW d, NEW packet, NEW given, Repeats(given, d, packet), NEW flag, NEW how
  PROVE  Store!Holds(d, flag, how, packet, given) = Store!Holds(d, flag, how, packet, Quiet)
<1>1. DOMAIN Quiet.flags = {}
  BY DEF Quiet, Store!Says, Store!None
<1>2. CASE how = "lock"
  BY <1>2 DEF Store!Holds
<1>3. CASE how # "lock" /\ flag \in DOMAIN given.flags
  <2>1. Store!Holds(d, flag, how, packet, given) = Store!MatchesState(d.flags[flag], packet, d.header)
    BY <1>3 DEF Store!Holds, Repeats
  <2>2. Store!Holds(d, flag, how, packet, Quiet)
          = (flag \in DOMAIN d.flags /\ Store!MatchesState(d.flags[flag], packet, d.header))
    BY <1>1, <1>3 DEF Store!Holds
  <2>3. flag \in DOMAIN d.flags /\ Store!MatchesState(d.flags[flag], packet, d.header) \in BOOLEAN
    BY <1>3 DEF Repeats, Store!MatchesState
  <2>4. QED
    BY <2>1, <2>2, <2>3
<1>4. CASE how # "lock" /\ flag \notin DOMAIN given.flags
  BY <1>1, <1>4 DEF Store!Holds
<1>5. QED
  BY <1>2, <1>3, <1>4

\* The words a type makes of such flags are the same.
LEMMA WordsSame ==
  ASSUME NEW d, NEW packet, NEW given, Repeats(given, d, packet)
  PROVE  Store!Words(d, packet, given) = Store!Words(d, packet, Quiet)
<1>1. ASSUME NEW group
      PROVE  Store!FirstHeld(d, group, packet, given) = Store!FirstHeld(d, group, packet, Quiet)
  <2> DEFINE held(g) == {i \in DOMAIN group.flags : Store!Holds(d, group.flags[i], group.how, packet, g)}
  <2>1. held(given) = held(Quiet)
    BY HoldsSame
  <2>2. \A g : Store!FirstHeld(d, group, packet, g) = {i \in held(g) : \A j \in held(g) : i <= j}
    BY DEF Store!FirstHeld
  <2> HIDE DEF held
  <2>3. QED
    BY <2>1, <2>2
<1>2. given.words = Quiet.words
  BY DEF Repeats, Quiet, Store!Says
<1>3. ASSUME NEW group
      PROVE  Store!WordsOf(d, group, packet, given) = Store!WordsOf(d, group, packet, Quiet)
  BY <1>1, <1>2 DEF Store!WordsOf, Store!KeepsWord
<1> DEFINE groups == Store!GroupsOf(d.type)
           of(a) == {i \in DOMAIN groups : groups[i].attribute = a}
           said(g, a) == UNION {Store!WordsOf(d, groups[i], packet, g) : i \in of(a)}
           attributes == {groups[i].attribute : i \in DOMAIN groups}
           the(S) == CHOOSE w \in S : TRUE
<1>4. \A a : said(given, a) = said(Quiet, a)
  <2> HIDE DEF groups, of
  <2>1. QED
    BY <1>3
<1>5. \A g : Store!Words(d, packet, g) =
              [a \in {a \in attributes : said(g, a) # {}} |-> the(said(g, a))]
  BY DEF Store!Words
<1> HIDE DEF said, attributes, the
<1>6. QED
  BY <1>4, <1>5
\* What a report of a packet says, when the header is empty.
LEMMA ReportIs ==
  ASSUME NEW d, InSchemas(d), NEW packet
  PROVE  Store!Report(d, packet) = Store!Normalize(d, packet, Quiet)
<1>1. \A h : {k \in DOMAIN d.flags : d.flags[k].cel /\ h} = {}
  BY DEF InSchemas, Store!InSchemas
<1>2. {k \in DOMAIN d.flags : d.flags[k].cel /\ Store!InPacket(d.flags[k].at, packet)} = {}
  BY DEF InSchemas, Store!InSchemas
<1>3. {k \in DOMAIN d.values : d.values[k].cel /\ Store!InPacket(d.values[k].at, packet)} = {}
  BY DEF InSchemas, Store!InSchemas
<1>4. [k \in {} |-> packet[d.flags[k].at + 1] = d.flags[k].byte] = Store!None
  BY DEF Store!None
<1>5. [k \in {} |-> packet[d.values[k].at + 1]] = Store!None
  BY DEF Store!None
<1>6. Store!Evaluated(d, packet) = Quiet
  BY <1>2, <1>3, <1>4, <1>5 DEF Store!Evaluated, Quiet
<1>7. QED
  BY <1>6 DEF Store!Report

\* What an action with schemas and a packet finds.
LEMMA FoundIs ==
  ASSUME NEW d, DescriptionOK(d), InSchemas(d), d.header = 0,
         NEW packet \in Seq(Nat), packet # <<>>, NEW schemas
  PROVE  LET found == Store!Found(d, [schemas |-> schemas, literal |-> {}], packet)
             read(k) == Store!Extract(d.values[k], packet, 0)
         IN /\ Repeats(found, d, packet)
            /\ DOMAIN found.values \subseteq DOMAIN d.values
            /\ \A k \in DOMAIN found.values : found.values[k] = read(k) /\ read(k) # Store!Missing
<1> DEFINE action == [schemas |-> schemas, literal |-> {}]
           found == Store!Found(d, action, packet)
           read(k) == Store!Extract(d.values[k], packet, 0)
           F == schemas \cap DOMAIN d.flags
           V == {k \in schemas \cap DOMAIN d.values :
                   Store!ExtractFromSchema(Store!Given(d.values[k]), packet) # Store!Missing}
<1>1. action.schemas = schemas /\ action.literal = {}
  OBVIOUS
<1>2. found = Store!Says([k \in F |-> Store!MatchesState(Store!Given(d.flags[k]), packet, d.header)],
                         [k \in V |-> Store!ExtractFromSchema(Store!Given(d.values[k]), packet)],
                         Store!None)
  <2> HIDE DEF action
  <2>1. QED
    BY <1>1 DEF Store!Found
<1>3. \A k \in F : Store!MatchesState(Store!Given(d.flags[k]), packet, d.header)
                     = Store!MatchesState(d.flags[k], packet, d.header)
  BY MatchesGiven DEF DescriptionOK, InSchemas, Store!InSchemas
<1>4. \A k \in schemas \cap DOMAIN d.values :
         Store!ExtractFromSchema(Store!Given(d.values[k]), packet) = read(k)
  <2>1. ASSUME NEW k \in schemas \cap DOMAIN d.values
        PROVE  Store!ExtractFromSchema(Store!Given(d.values[k]), packet) = read(k)
    <3>1. d.values[k] \in Schema /\ ~d.values[k].cel /\ 0 \in Nat
      BY DEF DescriptionOK, InSchemas, Store!InSchemas
    <3>2. QED
      BY <3>1, ExtractIs DEF Store!ExtractFromSchema
  <2>2. QED
    BY <2>1
<1> HIDE DEF read, action
<1>5. /\ DOMAIN found.flags = F /\ DOMAIN found.values = V /\ found.words = Store!None
      /\ \A k \in F : found.flags[k] = Store!MatchesState(Store!Given(d.flags[k]), packet, d.header)
      /\ \A k \in V : found.values[k] = Store!ExtractFromSchema(Store!Given(d.values[k]), packet)
  <2> HIDE DEF found, F, V
  <2>1. QED
    BY <1>2 DEF Store!Says
<1> HIDE DEF found
<1>6. Repeats(found, d, packet)
  BY <1>3, <1>5 DEF Repeats
<1>7. \A k \in DOMAIN found.values : found.values[k] = read(k) /\ read(k) # Store!Missing
  BY <1>4, <1>5
<1>8. DOMAIN found.values \subseteq DOMAIN d.values
  BY <1>5
<1>9. QED
  BY <1>6, <1>7, <1>8 DEF found, read, action

\* The values of an update are those of a report, but for a valve beyond its limit.
LEMMA ValuesSame ==
  ASSUME NEW d, DescriptionOK(d), InSchemas(d), d.header = 0,
         NEW packet \in Seq(Nat), NEW given, DOMAIN given.values \subseteq DOMAIN d.values,
         \A k \in DOMAIN given.values :
            /\ given.values[k] = Store!Extract(d.values[k], packet, 0)
            /\ given.values[k] # Store!Missing,
         NEW k \in DOMAIN Store!Numbers(d, packet, Quiet)
  PROVE  /\ k \in DOMAIN Store!Numbers(d, packet, given)
         /\ \/ Store!Numbers(d, packet, given)[k] = Store!Numbers(d, packet, Quiet)[k]
            \/ /\ d.type = "valve"
               /\ ~(Store!Numbers(d, packet, given)[k] <= FullyOpen)
<1> DEFINE read == Store!Extract(d.values[k], packet, 0)
           quiet == Store!Reread(d, k, packet, Quiet)
           told == Store!Reread(d, k, packet, given)
<1>1. DOMAIN Quiet.values = {}
  BY DEF Quiet, Store!Says, Store!None
<1>2. k \in DOMAIN d.values /\ quiet # Store!Missing /\ Store!Numbers(d, packet, Quiet)[k] = quiet
  BY <1>1 DEF Store!Numbers, Store!Joined
<1>3. read \in Int
  BY <1>2, ExtractIs DEF DescriptionOK, InSchemas, Store!InSchemas
<1>4. FullyOpen \in Nat
  BY DescriptionsAssumption
<1>5. quiet = IF read = Store!Missing THEN Store!Missing
              ELSE IF d.type = "valve" /\ read > FullyOpen THEN FullyOpen ELSE read
  BY <1>1 DEF Store!Reread
<1>6. /\ told # Store!Missing
      /\ told = quiet \/ (d.type = "valve" /\ ~(told <= FullyOpen))
  <2>1. CASE k \notin DOMAIN given.values
    <3>1. told = quiet
      BY <1>5, <2>1 DEF Store!Reread
    <3>2. QED
      BY <1>2, <3>1
  <2>2. CASE k \in DOMAIN given.values
    <3>1. given.values[k] = read /\ read # Store!Missing
      BY <2>2
    <3>2. CASE read # 0
      <4>1. told = read
        BY <2>2, <3>1, <3>2 DEF Store!Reread
      <4>2. QED
        BY <1>3, <1>4, <1>5, <3>1, <4>1
    <3>3. CASE read = 0
      <4>1. ~(read > FullyOpen)
        BY <1>4, <3>3
      <4>2. told = read /\ quiet = read
        BY <1>5, <2>2, <3>1, <3>3, <4>1 DEF Store!Reread
      <4>3. QED
        BY <1>2, <4>2
    <3>4. QED
      BY <3>2, <3>3
  <2>3. QED
    BY <2>1, <2>2
<1> HIDE DEF told, quiet
<1>7. k \in DOMAIN Store!Numbers(d, packet, given) /\ Store!Numbers(d, packet, given)[k] = told
  BY <1>2, <1>6 DEF Store!Numbers, Store!Joined, told
<1>8. QED
  BY <1>2, <1>6, <1>7
-----------------------------------------------------------------------------
(* The steps.                                                              *)

\* What is shown after an update is applied.
LEMMA Applied ==
  ASSUME NEW update, update # Store!Nothing, Store!Apply(update)
  PROVE  deviceStates' = Store!Else(update, deviceStates)
BY DEF Store!Apply

\* An update with the entity's schemas and a packet means what its report means.
LEMMA UpdateShows ==
  ASSUME DescriptionOK(described), described.header = 0, NEW packet \in Seq(Nat) \cup {<<>>},
         NEW action \in Store!Actions(described), Store!Update(action, packet),
         described.type = "valve" =>
            \A k \in DOMAIN deviceStates'.values : deviceStates'.values[k] <= FullyOpen
  PROVE  Store!UpdateMeansReport'
<1> DEFINE d == described
           given == [schemas |-> spoken'.names, literal |-> {}]
           update == Store!Updated(d, given, packet)
           report == Store!Report(d, packet)
<1>1. SUFFICES ASSUME Store!ByPacket', update # Store!Nothing
               PROVE  /\ \A k \in DOMAIN report.words : deviceStates'.words[k] = report.words[k]
                      /\ \A k \in DOMAIN report.values : deviceStates'.values[k] = report.values[k]
  <2>1. described' = described /\ spoken'.packet = packet
    BY DEF Store!Update, Store!Step
  <2>2. QED
    BY <2>1 DEF Store!UpdateMeansReport, Store!Shows
<1>2. /\ described' = described
      /\ spoken' = [kind |-> "update", packet |-> packet, names |-> action.schemas \cup action.literal]
      /\ Store!Apply(Store!Updated(described, action, packet))
  BY DEF Store!Update, Store!Step
<1>3. packet # <<>> /\ "ON" \notin spoken'.names /\ InSchemas(d) /\ packet \in Seq(Nat)
  BY <1>1, <1>2 DEF Store!ByPacket, InSchemas, Store!InSchemas
<1>4. action = given
  <2>1. action \in [schemas : SUBSET (DOMAIN d.flags \cup DOMAIN d.values), literal : {{}, {"ON"}}]
    BY DEF Store!Actions
  <2>2. action.literal = {} /\ spoken'.names = action.schemas
    BY <1>2, <1>3, <2>1
  <2>3. QED
    BY <2>1, <2>2
<1> DEFINE found == Store!Found(d, given, packet)
<1>5. /\ Repeats(found, d, packet)
      /\ DOMAIN found.values \subseteq DOMAIN d.values
      /\ \A k \in DOMAIN found.values : /\ found.values[k] = Store!Extract(d.values[k], packet, 0)
                                        /\ found.values[k] # Store!Missing
  <2>1. /\ Repeats(found, d, packet)
        /\ DOMAIN found.values \subseteq DOMAIN d.values
        /\ \A k \in DOMAIN found.values :
              /\ found.values[k] = Store!Extract(d.values[k], packet, 0)
              /\ Store!Extract(d.values[k], packet, 0) # Store!Missing
    BY <1>3, FoundIs
  <2>2. QED
    BY <2>1
<1>6. update = Store!Normalize(d, packet, found)
  <2>1. SubSeq(packet, d.header + 1, Len(packet)) = packet
    BY <1>3
  <2>2. update = Store!Normalize(d, SubSeq(packet, d.header + 1, Len(packet)), found)
    BY <1>1 DEF Store!Updated
  <2>3. QED
    BY <2>1, <2>2
<1>7. report = Store!Normalize(d, packet, Quiet)
  BY <1>3, ReportIs
<1> HIDE DEF found, given
<1>8. update.words = report.words
  <2>1. Store!Words(d, packet, found) = Store!Words(d, packet, Quiet)
    BY <1>5, WordsSame
  <2>2. found.words = Quiet.words
    BY <1>5 DEF Repeats, Quiet, Store!Says
  <2>3. \A g : Store!Normalize(d, packet, g).words
                 = Store!Joined(Store!Joined(Store!Words(d, packet, g), g.words),
                                Store!OffAction(d, Store!Words(d, packet, g)))
    BY DEF Store!Normalize, Store!Says
  <2>4. QED
    BY <1>6, <1>7, <2>1, <2>2, <2>3
<1>9. /\ update.values = Store!Numbers(d, packet, found)
      /\ report.values = Store!Numbers(d, packet, Quiet)
  BY <1>6, <1>7 DEF Store!Normalize, Store!Says
<1> HIDE DEF update
<1>10. deviceStates' = Store!Else(update, deviceStates)
  BY <1>1, <1>2, <1>4, Applied DEF update
<1>11. /\ \A k \in DOMAIN update.words : deviceStates'.words[k] = update.words[k]
       /\ \A k \in DOMAIN update.values :
             k \in DOMAIN deviceStates'.values /\ deviceStates'.values[k] = update.values[k]
  BY <1>10 DEF Store!Else, Store!Joined, Store!Says
<1> HIDE DEF report
<1>12. ASSUME NEW k \in DOMAIN report.values PROVE deviceStates'.values[k] = report.values[k]
  <2>1. /\ k \in DOMAIN update.values
        /\ \/ update.values[k] = report.values[k]
           \/ d.type = "valve" /\ ~(update.values[k] <= FullyOpen)
    BY <1>3, <1>5, <1>9, ValuesSame
  <2>2. k \in DOMAIN deviceStates'.values /\ deviceStates'.values[k] = update.values[k]
    BY <1>11, <2>1
  <2>3. QED
    BY <2>1, <2>2
<1>13. \A k \in DOMAIN report.words : deviceStates'.words[k] = report.words[k]
  BY <1>8, <1>11
<1>14. QED
  BY <1>12, <1>13 DEF report
\* What StoreHolds says besides.
Kept(d, state, topic, cache) ==
  /\ state # Store!Nothing => topic = Store!Published(d, state)
  /\ d.internal => topic = {}
  /\ cache \in {{}, {state}}
  /\ d.type \notin {"climate", "valve"} => DOMAIN state.flags \subseteq {"oscillating"}

\* An update carries only flags that a normalized state keeps.
Bare(d, update) == d.type \notin {"climate", "valve"} => DOMAIN update.flags \subseteq {"oscillating"}

\* Normalizing leaves only such flags.
LEMMA NormalizedIsBare ==
  ASSUME NEW d, DescriptionOK(d), NEW packet, NEW given, DOMAIN given.flags \subseteq DOMAIN d.flags
  PROVE  Bare(d, Store!Normalize(d, packet, given))
<1> DEFINE groups == Store!GroupsOf(d.type)
           cleaned == UNION {Store!Cleaned(d, groups[i], packet, given) : i \in DOMAIN groups}
           swings == d.type = "fan" /\ Store!Holds(d, "oscillating", "always", packet, given)
<1>1. SUFFICES ASSUME d.type \notin {"climate", "valve"}
               PROVE  DOMAIN Store!Flags(d, packet, given) \subseteq {"oscillating"}
  BY DEF Bare, Store!Normalize, Store!Says
<1>2. \A i \in DOMAIN groups : groups[i].how \in {"always", "lock"}
  BY <1>1 DEF DescriptionOK, StoreTypes, Store!GroupsOf, Store!Group
<1>3. ASSUME NEW i \in DOMAIN groups
      PROVE  Store!Cleaned(d, groups[i], packet, given) = {groups[i].flags[j] : j \in DOMAIN groups[i].flags}
  <2> DEFINE g == groups[i]
  <2>1. g.how \notin {"unset", "first"}
    BY <1>2
  <2> HIDE DEF g
  <2>2. Store!Cleaned(d, g, packet, given) = {g.flags[j] : j \in DOMAIN g.flags}
    BY <2>1 DEF Store!Cleaned
  <2>3. QED
    BY <2>2 DEF g
<1>4. cleaned = FlagsOf(d.type)
  <2> HIDE DEF groups
  <2>1. cleaned = UNION {{groups[i].flags[j] : j \in DOMAIN groups[i].flags} : i \in DOMAIN groups}
    BY <1>3
  <2>2. QED
    BY <2>1 DEF FlagsOf, groups
<1>5. DOMAIN given.flags \ (cleaned \cup {"oscillating"}) = {}
  <2> HIDE DEF cleaned
  <2>1. QED
    BY <1>4 DEF DescriptionOK
<1>6. DOMAIN Store!Flags(d, packet, given)
        = {k \in {"oscillating"} : swings} \cup (DOMAIN given.flags \ (cleaned \cup {"oscillating"}))
  BY DEF Store!Flags, Store!Joined
<1> HIDE DEF swings, cleaned
<1>7. QED
  BY <1>5, <1>6

\* A report carries only flags that a normalized state keeps.
LEMMA ReportIsBare ==
  ASSUME NEW d, DescriptionOK(d), NEW packet
  PROVE  Bare(d, Store!Report(d, packet))
<1>1. DOMAIN Store!Evaluated(d, packet).flags \subseteq DOMAIN d.flags
  BY DEF Store!Evaluated, Store!Says
<1>2. QED
  BY <1>1, NormalizedIsBare DEF Store!Report

\* A word that an automation gives carries only such flags.
LEMMA WordIsBare ==
  /\ \A d, words : Bare(d, Store!Says(Store!None, Store!None, words))
  /\ \A d : Bare(d, Store!Nothing)
BY DEF Bare, Store!Says, Store!None, Store!Nothing

\* An update by an action carries only such flags.
LEMMA UpdatedIsBare ==
  ASSUME NEW d, DescriptionOK(d), NEW action, NEW packet
  PROVE  Bare(d, Store!Updated(d, action, packet))
<1> DEFINE found == Store!Found(d, action, packet)
<1>1. DOMAIN found.flags \subseteq DOMAIN d.flags
  <2>1. CASE packet = <<>>
    BY <2>1 DEF Store!Found, Store!Says, Store!None
  <2>2. CASE packet # <<>>
    BY <2>2 DEF Store!Found, Store!Says
  <2>3. QED
    BY <2>1, <2>2
<1> HIDE DEF found
<1>2. \/ Store!Updated(d, action, packet) = Store!Nothing
      \/ Store!Updated(d, action, packet)
           = Store!Normalize(d, SubSeq(packet, d.header + 1, Len(packet)), found)
  BY DEF Store!Updated, found
<1>3. QED
  BY <1>1, <1>2, WordIsBare, NormalizedIsBare

\* Applying such an update keeps the state, the topic and the cache agreed.
LEMMA ApplyKeeps ==
  ASSUME NEW update, Bare(described, update), Store!Apply(update),
         Kept(described, deviceStates, retained, cachedStates)
  PROVE  Kept(described, deviceStates', retained', cachedStates')
<1> DEFINE merged == Store!Else(update, deviceStates)
<1>1. CASE update = Store!Nothing \/ merged = deviceStates
  BY <1>1 DEF Store!Apply
<1>2. CASE ~(update = Store!Nothing \/ merged = deviceStates)
  <2>1. /\ deviceStates' = merged /\ cachedStates' = {}
        /\ retained' = IF described.internal THEN retained ELSE {merged}
    BY <1>2 DEF Store!Apply
  <2>2. DOMAIN merged.flags = DOMAIN update.flags \cup DOMAIN deviceStates.flags
    BY DEF Store!Else, Store!Says, Store!Joined
  <2> HIDE DEF merged
  <2>3. QED
    BY <2>1, <2>2 DEF Kept, Bare, Store!Published
<1>3. QED
  BY <1>1, <1>2

\* The state an entity starts with has only such flags.
LEMMA DefaultIsBare == \A d : Bare(d, Store!Default(d))
BY WordIsBare DEF Store!Default

\* The inductive invariant of EntityStates.
StoreInv == described \in Descriptions /\ Store!StoreHolds

\* The conditions under which UpdateMeansReport is claimed.
Plain == /\ described.header = 0
         /\ described.type = "valve" =>
                \A k \in DOMAIN deviceStates.values : deviceStates.values[k] <= FullyOpen

\* What StoreHolds says of a state, part by part.
LEMMA StoreIs ==
  Store!StoreHolds <=> /\ Plain => Store!UpdateMeansReport
                       /\ Kept(described, deviceStates, retained, cachedStates)
BY DEF Store!StoreHolds, Kept, Plain

\* What it says of the next state.
LEMMA StoreIsNext ==
  Store!StoreHolds' <=> /\ Plain' => Store!UpdateMeansReport'
                        /\ Kept(described', deviceStates', retained', cachedStates')
BY DEF Store!StoreHolds, Kept, Plain, Store!Published

\* The invariant of EntityStates holds at first.
LEMMA StoreInit == Store!Init => StoreInv
<1> SUFFICES ASSUME Store!Init PROVE StoreInv
  OBVIOUS
<1>1. Store!UpdateMeansReport
  BY DEF Store!Init, Store!UpdateMeansReport, Store!ByPacket
<1>2. Kept(described, deviceStates, retained, cachedStates)
  BY DefaultIsBare DEF Store!Init, Kept, Store!Published, Bare
<1>3. QED
  BY <1>1, <1>2, StoreIs DEF StoreInv, Store!Init

\* Every step of EntityStates keeps its invariant.
LEMMA StoreStepInv ==
  ASSUME StoreInv, [Store!Next]_storeVars
  PROVE  StoreInv'
<1>1. described \in Descriptions /\ DescriptionOK(described)
  BY DescriptionsAssumption DEF StoreInv
<1>2. Kept(described, deviceStates, retained, cachedStates) /\ (Plain => Store!UpdateMeansReport)
  BY StoreIs DEF StoreInv
<1>3. SUFFICES /\ described' = described
               /\ Plain' => Store!UpdateMeansReport'
               /\ Kept(described, deviceStates', retained', cachedStates')
  BY <1>1, StoreIsNext DEF StoreInv
<1>4. ASSUME spoken'.kind # "update" PROVE Store!UpdateMeansReport'
  BY <1>4 DEF Store!UpdateMeansReport, Store!ByPacket
<1>5. ASSUME NEW packet \in Reports, Store!Hear(packet)
      PROVE  /\ described' = described
             /\ Plain' => Store!UpdateMeansReport'
             /\ Kept(described, deviceStates', retained', cachedStates')
  <2>1. described' = described /\ spoken'.kind = "report" /\ Store!Apply(Store!Report(described, packet))
    BY <1>5 DEF Store!Hear, Store!Step
  <2>2. QED
    BY <1>1, <1>2, <1>4, <2>1, ReportIsBare, ApplyKeeps
<1>6. ASSUME NEW action \in Store!Actions(described), NEW packet \in Reports \cup {<<>>},
             Store!Update(action, packet)
      PROVE  /\ described' = described
             /\ Plain' => Store!UpdateMeansReport'
             /\ Kept(described, deviceStates', retained', cachedStates')
  <2>1. described' = described /\ Store!Apply(Store!Updated(described, action, packet))
    BY <1>6 DEF Store!Update, Store!Step
  <2>2. Kept(described, deviceStates', retained', cachedStates')
    BY <1>1, <1>2, <2>1, UpdatedIsBare, ApplyKeeps
  <2>3. packet \in Seq(Nat) \cup {<<>>}
    BY DescriptionsAssumption
  <2>4. ASSUME Plain' PROVE Store!UpdateMeansReport'
    BY <1>1, <1>6, <2>1, <2>3, <2>4, UpdateShows DEF Plain
  <2>5. QED
    BY <2>1, <2>2, <2>4
<1>7. ASSUME NEW group, NEW i, Store!Command(group, i)
      PROVE  /\ described' = described
             /\ Plain' => Store!UpdateMeansReport'
             /\ Kept(described, deviceStates', retained', cachedStates')
  <2> DEFINE update == Store!Says(Store!None, Store!None, Store!Only(group.attribute, group.words[i]))
  <2>1. described' = described /\ spoken'.kind = "command" /\ Store!Apply(update)
    BY <1>7 DEF Store!Command, Store!Step
  <2>2. Bare(described, update)
    BY WordIsBare
  <2> HIDE DEF update
  <2>3. QED
    BY <1>1, <1>2, <1>4, <2>1, <2>2, ApplyKeeps
<1>8. CASE Store!Read
  <2>1. /\ UNCHANGED <<described, deviceStates, retained, spoken>>
        /\ cachedStates' \in {cachedStates, {deviceStates}}
    BY <1>8 DEF Store!Read
  <2>2. Plain' => Plain
    BY <2>1 DEF Plain
  <2>3. Store!UpdateMeansReport => Store!UpdateMeansReport'
    BY <2>1 DEF Store!UpdateMeansReport, Store!ByPacket, Store!Shows, Store!InSchemas
  <2>4. Kept(described, deviceStates', retained', cachedStates')
    BY <1>2, <2>1 DEF Kept
  <2>5. QED
    BY <1>2, <2>1, <2>2, <2>3, <2>4
<1>9. CASE Store!Restart
  <2> DEFINE default == Store!Default(described)
  <2>1. /\ described' = described /\ spoken'.kind = "start"
        /\ deviceStates' = default /\ cachedStates' = {}
        /\ retained' = IF Store!Published(described, default) = {} THEN retained
                       ELSE Store!Published(described, default)
    BY <1>9 DEF Store!Restart, Store!Step
  <2>2. Bare(described, default)
    BY DefaultIsBare
  <2> HIDE DEF default
  <2>3. Kept(described, deviceStates', retained', cachedStates')
    BY <1>2, <2>1, <2>2 DEF Kept, Bare, Store!Published
  <2>4. QED
    BY <1>4, <2>1, <2>3
<1>10. CASE UNCHANGED storeVars
  <2>1. UNCHANGED <<described, deviceStates, retained, cachedStates, spoken>>
    BY <1>10 DEF storeVars
  <2>2. Plain' => Plain
    BY <2>1 DEF Plain
  <2>3. Store!UpdateMeansReport => Store!UpdateMeansReport'
    BY <2>1 DEF Store!UpdateMeansReport, Store!ByPacket, Store!Shows, Store!InSchemas
  <2>4. QED
    BY <1>2, <2>1, <2>2, <2>3
<1>11. QED
  BY <1>5, <1>6, <1>7, <1>8, <1>9, <1>10 DEF Store!Next

-----------------------------------------------------------------------------
(* Counting up.                                                            *)

\* A function on 0 .. N is defined by its value at the number before.
Counted(g, N, first, onward) ==
  g[0] = first /\ \A n \in 1 .. N : g[n] = onward[<<n, g[n - 1]>>]

\* A function that counts up from its first value exists.
LEMMA CountedUp ==
  ASSUME NEW N \in Nat, NEW V, NEW first \in V, NEW onward \in [(1 .. N) \X V -> V]
  PROVE  \E g \in [0 .. N -> V] : Counted(g, N, first, onward)
<1> DEFINE Upto(k) == \E g \in [0 .. k -> V] :
                         g[0] = first /\ \A n \in 1 .. k : g[n] = onward[<<n, g[n - 1]>>]
           S == {k \in Nat : k <= N => Upto(k)}
<1>1. 0 \in S
  <2> DEFINE h == [n \in 0 .. 0 |-> first]
  <2>1. h \in [0 .. 0 -> V] /\ h[0] = first /\ \A n \in 1 .. 0 : FALSE
    OBVIOUS
  <2> HIDE DEF h
  <2>2. Upto(0)
    BY <2>1
  <2>3. QED
    BY <2>2
<1>2. ASSUME NEW k \in Nat, k \in S PROVE k + 1 \in S
  <2>1. SUFFICES ASSUME k + 1 <= N PROVE Upto(k + 1)
    OBVIOUS
  <2>2. PICK g \in [0 .. k -> V] :
          g[0] = first /\ \A n \in 1 .. k : g[n] = onward[<<n, g[n - 1]>>]
    BY <1>2, <2>1
  <2> DEFINE h == [n \in 0 .. k + 1 |-> IF n = k + 1 THEN onward[<<n, g[k]>>] ELSE g[n]]
  <2>3. k + 1 \in 1 .. N /\ g[k] \in V
    BY <2>1, <2>2
  <2>4. onward[<<k + 1, g[k]>>] \in V
    BY <2>3
  <2>5. h \in [0 .. k + 1 -> V]
    BY <2>2, <2>4
  <2>6. h[0] = first /\ \A n \in 1 .. k + 1 : h[n] = onward[<<n, h[n - 1]>>]
    BY <2>2, <2>3
  <2>7. QED
    BY <2>5, <2>6
<1> HIDE DEF S
<1>3. N \in S
  BY <1>1, <1>2, NatIsInduced
<1>4. Upto(N)
  BY <1>3 DEF S
<1>5. QED
  BY <1>4 DEF Counted

\* What holds at 0 and goes on holds up to N.
LEMMA InTurn ==
  ASSUME NEW N \in Nat, NEW S, 0 \in S, \A n \in 1 .. N : n - 1 \in S => n \in S
  PROVE  \A n \in 0 .. N : n \in S
<1> DEFINE T == {n \in Nat : n <= N => n \in S}
<1>1. 0 \in T
  OBVIOUS
<1>2. ASSUME NEW n \in Nat, n \in T PROVE n + 1 \in T
  <2>1. CASE n + 1 <= N
    <3>1. n + 1 \in 1 .. N /\ (n + 1) - 1 = n /\ n \in S
      BY <1>2, <2>1
    <3>2. QED
      BY <3>1
  <2>2. QED
    BY <2>1
<1> HIDE DEF T
<1>3. \A n \in Nat : n \in T
  BY <1>1, <1>2, NatIsInduced
<1>4. QED
  BY <1>3 DEF T

-----------------------------------------------------------------------------
(* PacketMatching.                                                         *)

\* The id of device j, and the entity that takes what it finds.
Id(j)  == setup.devices[j].id
\* The ids of the devices.
EntityIds == {setup.devices[j].id : j \in DOMAIN setup.devices}
To(j)  == Match!Target(setup.devices[j])
\* What device j makes of a packet.
Tells(j, packet) == Match!ParseData(setup.devices[j], packet)

\* States of all entities.
StatesType == [EntityIds -> [Match!Properties -> Int]]
\* What processing a packet builds up.
Acc == [states : StatesType, fired : SUBSET DOMAIN setup.triggers]

\* A device tells numbers of known properties.
LEMMA TellsIs ==
  ASSUME SetupOK(setup), NEW packet \in Seq(Nat), NEW j \in DOMAIN setup.devices
  PROVE  /\ DOMAIN Tells(j, packet) \subseteq Match!Properties
         /\ \A p \in DOMAIN Tells(j, packet) : Tells(j, packet)[p] \in Int
<1> DEFINE dev == setup.devices[j]
<1>1. Match!ByteAt(dev.at, packet) \in Int
  <2> DEFINE i == IF dev.at = Match!Start THEN setup.header ELSE dev.at
  <2>1. i \in Nat
    BY DEF SetupOK, Match!Start
  <2>2. CASE i < Len(packet)
    <3>1. i + 1 \in 1 .. Len(packet)
      BY <2>1, <2>2
    <3>2. packet[i + 1] \in Nat
      BY <3>1
    <3> HIDE DEF i
    <3>3. QED
      BY <2>2, <3>2 DEF Match!ByteAt, i
  <2>3. CASE ~(i < Len(packet))
    BY <2>3 DEF Match!ByteAt, Match!Unset
  <2>4. QED
    BY <2>2, <2>3
<1>2. CASE dev.type = "binary_sensor"
  BY <1>2 DEF Tells, Match!ParseData, Match!Properties, Match!On, Match!Off, Match!Unset
<1>3. CASE dev.type # "binary_sensor"
  BY <1>1, <1>3 DEF Tells, Match!ParseData, Match!Properties
<1>4. QED
  BY <1>2, <1>3

\* The state of its target with what device j tells.
Merged(acc, j, packet) ==
  [p \in Match!Properties |-> IF p \in DOMAIN Tells(j, packet) THEN Tells(j, packet)[p]
                              ELSE acc.states[To(j)][p]]
\* Whether that is a change.
Changes(acc, j, packet) ==
  ~Match!IsNull(Tells(j, packet)) /\ Merged(acc, j, packet) # acc.states[To(j)]

\* What Apply does, point by point.
LEMMA AppliedIs ==
  ASSUME SetupOK(setup), NEW packet \in Seq(Nat), NEW j \in DOMAIN setup.devices, NEW acc \in Acc
  PROVE  LET new == Match!Apply(acc, setup.devices[j], packet)
         IN /\ new \in Acc
            /\ \A e \in EntityIds :
                  new.states[e] = IF e = To(j) /\ Changes(acc, j, packet)
                                  THEN Merged(acc, j, packet) ELSE acc.states[e]
            /\ new.fired = acc.fired \cup
                  (IF Changes(acc, j, packet) /\ To(j) \notin setup.internal
                   THEN Match!StateTriggers(To(j), Merged(acc, j, packet)) ELSE {})
<1> DEFINE new == Match!Apply(acc, setup.devices[j], packet)
           merged == Merged(acc, j, packet)
           changes == Changes(acc, j, packet)
<1>1. /\ new.states = [acc.states EXCEPT ![To(j)] = IF changes THEN merged ELSE @]
      /\ new.fired = acc.fired \cup (IF changes /\ To(j) \notin setup.internal
                                     THEN Match!StateTriggers(To(j), merged) ELSE {})
      /\ new = [states |-> new.states, fired |-> new.fired]
  BY DEF Match!Apply, Merged, Changes, To, Tells
<1>2. To(j) \in EntityIds => merged \in [Match!Properties -> Int]
  <2>1. ASSUME To(j) \in EntityIds, NEW p \in Match!Properties
        PROVE  (IF p \in DOMAIN Tells(j, packet) THEN Tells(j, packet)[p] ELSE acc.states[To(j)][p]) \in Int
    <3>1. acc.states[To(j)][p] \in Int
      BY <2>1 DEF Acc, StatesType
    <3>2. QED
      BY <3>1, TellsIs
  <2>2. QED
    BY <2>1 DEF Merged
<1> HIDE DEF new, merged, changes
<1>3. acc.states \in StatesType /\ acc.fired \in SUBSET DOMAIN setup.triggers
  BY DEF Acc
<1>4. new.states \in StatesType
  <2>1. CASE To(j) \in EntityIds
    BY <1>1, <1>2, <1>3, <2>1 DEF StatesType
  <2>2. CASE To(j) \notin EntityIds
    BY <1>1, <1>3, <2>2 DEF StatesType
  <2>3. QED
    BY <2>1, <2>2
<1>5. Match!StateTriggers(To(j), merged) \subseteq DOMAIN setup.triggers
  BY DEF Match!StateTriggers
<1>6. new \in Acc
  BY <1>1, <1>3, <1>4, <1>5 DEF Acc
<1>7. ASSUME NEW e \in EntityIds
      PROVE  new.states[e] = IF e = To(j) /\ changes THEN merged ELSE acc.states[e]
  BY <1>1, <1>3 DEF StatesType
<1>8. QED
  BY <1>1, <1>6, <1>7 DEF new, merged, changes

\* The places of the devices.
Devices == DOMAIN setup.devices
\* Only device j writes the state of its entity.
Sole(j) == Match!Own(Id(j))

\* What the first n devices have made of a packet.
ByDevices(acc, packet) ==
  \A e \in EntityIds, p \in Match!Properties :
     \/ acc.states[e][p] = states[e][p]
     \/ \E j \in Devices : p \in DOMAIN Tells(j, packet) /\ acc.states[e][p] = Tells(j, packet)[p]
\* What the first n tell of their own entities is shown.
ShownBy(acc, n, packet) ==
  \A j \in 1 .. n : Sole(j) =>
     \A p \in DOMAIN Tells(j, packet) : acc.states[Id(j)][p] = Tells(j, packet)[p]
\* The entities of the others are as before.
Untold(acc, n) == \A j \in Devices : j > n /\ Sole(j) => acc.states[Id(j)] = states[Id(j)]
\* What has fired, fired for a packet trigger or for what a device told.
FiredBy(acc, n, packet) ==
  \A i \in acc.fired :
     \/ i \in Match!PacketTriggers(packet)
     \/ /\ setup.triggers[i].type = "state"
        /\ \E j \in 1 .. n : /\ To(j) = setup.triggers[i].entity
                             /\ setup.triggers[i].property \in DOMAIN Tells(j, packet) =>
                                   Match!MatchesValue(setup.triggers[i],
                                                      Tells(j, packet)[setup.triggers[i].property])
\* What was to fire has.
Fires(acc, n, packet) ==
  /\ Match!PacketTriggers(packet) \subseteq acc.fired
  /\ \A j \in 1 .. n : Sole(j) /\ Id(j) \notin setup.internal /\ acc.states[Id(j)] # states[Id(j)] =>
        Match!StateTriggers(Id(j), Tells(j, packet)) \subseteq acc.fired

\* The invariant of the loop over the devices.
Through(acc, n, packet) ==
  /\ acc \in Acc /\ ByDevices(acc, packet) /\ ShownBy(acc, n, packet) /\ Untold(acc, n)
  /\ FiredBy(acc, n, packet) /\ Fires(acc, n, packet)

\* Only device j writes the state of its entity, if that is its own.
LEMMA SoleWriter ==
  ASSUME SetupOK(setup), NEW j \in Devices, Sole(j), NEW n \in Devices
  PROVE  To(n) = Id(j) <=> n = j
BY DEF SetupOK, Sole, Match!Own, To, Id, Devices

\* A state trigger on what a device tells also matches when that is merged.
LEMMA MergedTriggers ==
  ASSUME SetupOK(setup), NEW packet \in Seq(Nat), NEW j \in Devices, NEW acc, NEW id
  PROVE  Match!StateTriggers(id, Tells(j, packet))
           \subseteq Match!StateTriggers(id, Merged(acc, j, packet))
<1> SUFFICES ASSUME NEW i \in Match!StateTriggers(id, Tells(j, packet))
             PROVE  i \in Match!StateTriggers(id, Merged(acc, j, packet))
  OBVIOUS
<1> DEFINE t == setup.triggers[i]
           told == Match!Property(Tells(j, packet), t.property)
           now == Match!Property(Merged(acc, j, packet), t.property)
<1>1. i \in DOMAIN setup.triggers /\ t.type = "state" /\ t.entity = id /\ Match!MatchesValue(t, told)
  BY DEF Match!StateTriggers
<1>2. CASE t.property \in DOMAIN Tells(j, packet)
  <2>1. now = told
    BY <1>2, TellsIs DEF Match!Property, Merged, Devices
  <2>2. QED
    BY <1>1, <2>1 DEF Match!StateTriggers
<1>3. CASE t.property \notin DOMAIN Tells(j, packet)
  <2>1. told = Match!Unset
    BY <1>3 DEF Match!Property
  <2>2. t.op \in {"any", "eq", "gte"} /\ t.than \in Nat
    BY <1>1 DEF SetupOK
  <2> HIDE DEF t, told, now
  <2>3. t.op = "any"
    <3>1. CASE t.op = "eq"
      BY <1>1, <2>1, <2>2, <3>1 DEF Match!MatchesValue, Match!Unset
    <3>2. CASE t.op = "gte"
      BY <1>1, <2>1, <2>2, <3>2 DEF Match!MatchesValue
    <3>3. QED
      BY <2>2, <3>1, <3>2
  <2>4. Match!MatchesValue(t, now)
    BY <2>3 DEF Match!MatchesValue
  <2>5. QED
    BY <1>1, <2>4 DEF Match!StateTriggers, t, now
<1>4. QED
  BY <1>2, <1>3

\* One more device keeps the invariant of the loop.
LEMMA ThroughOne ==
  ASSUME SetupOK(setup), NEW packet \in Seq(Nat), NEW n \in Devices, NEW acc, Through(acc, n - 1, packet)
  PROVE  Through(Match!Apply(acc, setup.devices[n], packet), n, packet)
<1> DEFINE new == Match!Apply(acc, setup.devices[n], packet)
           merged == Merged(acc, n, packet)
           changes == Changes(acc, n, packet)
           tells == Tells(n, packet)
<1>0. n \in Nat /\ n >= 1 /\ Devices = 1 .. Len(setup.devices) /\ Len(setup.devices) \in Nat
  BY DEF Devices, SetupOK
<1>1. /\ new \in Acc
      /\ \A e \in EntityIds :
            new.states[e] = IF e = To(n) /\ changes THEN merged ELSE acc.states[e]
      /\ new.fired = acc.fired \cup
            (IF changes /\ To(n) \notin setup.internal THEN Match!StateTriggers(To(n), merged) ELSE {})
  BY AppliedIs DEF Through, Devices
<1>2. \A p \in Match!Properties :
         merged[p] = IF p \in DOMAIN tells THEN tells[p] ELSE acc.states[To(n)][p]
  BY DEF Merged
<1>3. DOMAIN tells \subseteq Match!Properties
  BY TellsIs DEF Devices
<1>4. \A j \in Devices : Id(j) \in EntityIds
  BY DEF Id, EntityIds, Devices
<1>5. changes <=> ~(DOMAIN tells = {}) /\ merged # acc.states[To(n)]
  BY DEF Changes, Match!IsNull
<1> HIDE DEF new, merged, changes, tells
<1>6. ByDevices(new, packet)
  <2> SUFFICES ASSUME NEW e \in EntityIds, NEW p \in Match!Properties
               PROVE  \/ new.states[e][p] = states[e][p]
                      \/ \E j \in Devices : /\ p \in DOMAIN Tells(j, packet)
                                            /\ new.states[e][p] = Tells(j, packet)[p]
    BY DEF ByDevices
  <2>1. CASE new.states[e][p] = acc.states[e][p]
    BY <2>1 DEF Through, ByDevices
  <2>2. CASE new.states[e][p] # acc.states[e][p]
    <3>1. e = To(n) /\ new.states[e] = merged
      BY <1>1, <2>2
    <3>2. p \in DOMAIN tells /\ new.states[e][p] = tells[p]
      BY <1>2, <2>2, <3>1
    <3>3. QED
      BY <3>2 DEF tells
  <2>3. QED
    BY <2>1, <2>2
<1>7. ASSUME NEW j \in Devices, j # n, Sole(j) PROVE new.states[Id(j)] = acc.states[Id(j)]
  BY <1>1, <1>4, <1>7, SoleWriter
<1>8. ShownBy(new, n, packet)
  <2> SUFFICES ASSUME NEW j \in 1 .. n, Sole(j), NEW p \in DOMAIN Tells(j, packet)
               PROVE  new.states[Id(j)][p] = Tells(j, packet)[p]
    BY DEF ShownBy
  <2>1. j \in Devices
    BY <1>0
  <2>2. CASE j # n
    <3>1. j \in 1 .. n - 1
      BY <1>0, <2>2
    <3>2. acc.states[Id(j)][p] = Tells(j, packet)[p]
      BY <3>1 DEF Through, ShownBy
    <3>3. QED
      BY <1>7, <2>1, <2>2, <3>2
  <2>3. CASE j = n
    <3>1. To(n) = Id(j) /\ Id(j) \in EntityIds
      BY <1>4, <2>1, <2>3, SoleWriter
    <3>2. p \in DOMAIN tells /\ p \in Match!Properties /\ Tells(j, packet)[p] = tells[p]
      BY <1>3, <2>3 DEF tells
    <3>3. merged[p] = tells[p]
      BY <1>2, <3>2
    <3>4. new.states[Id(j)] = merged
      BY <1>1, <1>5, <3>1, <3>2
    <3>5. QED
      BY <3>2, <3>3, <3>4
  <2>4. QED
    BY <2>2, <2>3
<1>9. Untold(new, n)
  <2> SUFFICES ASSUME NEW j \in Devices, j > n, Sole(j) PROVE new.states[Id(j)] = states[Id(j)]
    BY DEF Untold
  <2>1. j > n - 1 /\ j # n
    BY <1>0
  <2>2. QED
    BY <1>7, <2>1 DEF Through, Untold
<1>10. FiredBy(new, n, packet)
  <2> SUFFICES ASSUME NEW i \in new.fired
               PROVE \/ i \in Match!PacketTriggers(packet)
                     \/ /\ setup.triggers[i].type = "state"
                        /\ \E j \in 1 .. n :
                              /\ To(j) = setup.triggers[i].entity
                              /\ setup.triggers[i].property \in DOMAIN Tells(j, packet) =>
                                    Match!MatchesValue(setup.triggers[i],
                                                       Tells(j, packet)[setup.triggers[i].property])
    BY DEF FiredBy
  <2>1. CASE i \in acc.fired
    <3>1. 1 .. n - 1 \subseteq 1 .. n
      BY <1>0
    <3>2. QED
      BY <2>1, <3>1 DEF Through, FiredBy
  <2>2. CASE i \notin acc.fired
    <3> DEFINE t == setup.triggers[i]
    <3>1. i \in Match!StateTriggers(To(n), merged)
      BY <1>1, <2>2
    <3>2. t.type = "state" /\ t.entity = To(n)
          /\ Match!MatchesValue(t, Match!Property(merged, t.property))
      BY <3>1 DEF Match!StateTriggers
    <3>3. ASSUME t.property \in DOMAIN tells PROVE Match!MatchesValue(t, tells[t.property])
      <4>1. DOMAIN merged = Match!Properties
        BY DEF merged, Merged
      <4>2. Match!Property(merged, t.property) = tells[t.property]
        BY <1>2, <1>3, <3>3, <4>1 DEF Match!Property
      <4>3. QED
        BY <3>2, <4>2
    <3>4. n \in 1 .. n
      BY <1>0
    <3>5. QED
      BY <3>2, <3>3, <3>4 DEF tells
  <2>3. QED
    BY <2>1, <2>2
<1>11. Fires(new, n, packet)
  <2>1. acc.fired \subseteq new.fired
    BY <1>1
  <2>2. ASSUME NEW j \in 1 .. n, Sole(j), Id(j) \notin setup.internal, new.states[Id(j)] # states[Id(j)]
        PROVE  Match!StateTriggers(Id(j), Tells(j, packet)) \subseteq new.fired
    <3>1. j \in Devices
      BY <1>0
    <3>2. CASE j # n
      <4>1. j \in 1 .. n - 1 /\ acc.states[Id(j)] # states[Id(j)]
        BY <1>0, <1>7, <2>2, <3>1, <3>2
      <4>2. QED
        BY <2>1, <2>2, <4>1 DEF Through, Fires
    <3>3. CASE j = n
      <4>1. To(n) = Id(j) /\ Id(j) \in EntityIds
        BY <1>4, <2>2, <3>1, <3>3, SoleWriter
      <4>2. j > n - 1
        BY <1>0, <3>3
      <4>3. acc.states[Id(j)] = states[Id(j)]
        BY <2>2, <3>1, <4>2 DEF Through, Untold
      <4>4. changes
        BY <1>1, <2>2, <4>1, <4>3
      <4>5. Match!StateTriggers(Id(j), merged) \subseteq new.fired
        BY <1>1, <2>2, <4>1, <4>4
      <4>6. Match!StateTriggers(Id(j), Tells(j, packet)) \subseteq Match!StateTriggers(Id(j), merged)
        BY <3>1, <3>3, MergedTriggers DEF merged
      <4>7. QED
        BY <4>5, <4>6
    <3>4. QED
      BY <3>2, <3>3
  <2>3. QED
    BY <2>1, <2>2 DEF Through, Fires
<1>12. QED
  BY <1>1, <1>6, <1>8, <1>9, <1>10, <1>11 DEF Through, new

\* The loop over all devices ends with its invariant.
LEMMA ProcessedIs ==
  ASSUME SetupOK(setup), states \in StatesType, NEW packet \in Seq(Nat)
  PROVE  Through(Match!Processed(packet), Len(setup.devices), packet)
<1> DEFINE N == Len(setup.devices)
           first == [states |-> states, fired |-> Match!PacketTriggers(packet)]
           onward == [x \in (1 .. N) \X Acc |-> Match!Apply(x[2], setup.devices[x[1]], packet)]
           acc == CHOOSE acc : acc = [n \in 0 .. N |->
                     IF n = 0 THEN [states |-> states, fired |-> Match!PacketTriggers(packet)]
                     ELSE Match!Apply(acc[n - 1], setup.devices[n], packet)]
<1>1. N \in Nat /\ Devices = 1 .. N
  BY DEF SetupOK, Devices
<1>2. first \in Acc
  BY DEF Acc, Match!PacketTriggers
<1>3. \A n \in 1 .. N : \A before \in Acc : Match!Apply(before, setup.devices[n], packet) \in Acc
  <2>1. ASSUME NEW n \in 1 .. N, NEW before \in Acc
        PROVE  Match!Apply(before, setup.devices[n], packet) \in Acc
    <3>1. n \in DOMAIN setup.devices
      BY <1>1 DEF Devices
    <3>2. QED
      BY <3>1, AppliedIs
  <2>2. QED
    BY <2>1
<1>4. onward \in [(1 .. N) \X Acc -> Acc]
  <2> HIDE DEF N, first, acc
  <2>1. QED
    BY <1>3
<1>5. PICK g \in [0 .. N -> Acc] : g[0] = first /\ \A n \in 1 .. N : g[n] = onward[<<n, g[n - 1]>>]
  <2>1. \E g \in [0 .. N -> Acc] : Counted(g, N, first, onward)
    <3> HIDE DEF onward, N, first, acc
    <3>1. QED
      BY <1>1, <1>2, <1>4, CountedUp
  <2>2. QED
    BY <2>1 DEF Counted
<1>6. g = [n \in 0 .. N |->
             IF n = 0 THEN first ELSE Match!Apply(g[n - 1], setup.devices[n], packet)]
  <2>1. ASSUME NEW n \in 0 .. N
        PROVE  g[n] = IF n = 0 THEN first ELSE Match!Apply(g[n - 1], setup.devices[n], packet)
    <3> HIDE DEF first, N, acc
    <3>1. CASE n = 0
      BY <1>5, <3>1
    <3>2. CASE n # 0
      <4>1. n \in 1 .. N /\ g[n - 1] \in Acc
        BY <1>1, <1>5, <3>2
      <4>2. QED
        BY <1>5, <3>2, <4>1
    <3>3. QED
      BY <3>1, <3>2
  <2> HIDE DEF first, N, acc, onward
  <2>2. QED
    BY <1>5, <2>1
<1>7. \A n \in 0 .. N :
         acc[n] = IF n = 0 THEN first ELSE Match!Apply(acc[n - 1], setup.devices[n], packet)
  <2>1. acc = [n \in 0 .. N |->
             IF n = 0 THEN first ELSE Match!Apply(acc[n - 1], setup.devices[n], packet)]
    BY <1>6
  <2> HIDE DEF first, N, acc
  <2>2. QED
    BY <2>1
<1>8. Match!Processed(packet) = acc[N]
  BY DEF Match!Processed
<1> HIDE DEF acc, onward, N
<1> DEFINE S == {n \in 0 .. N : Through(acc[n], n, packet)}
<1>9. 0 \in S
  <2>1. acc[0] = first
    BY <1>1, <1>7
  <2>2. ByDevices(first, packet) /\ Untold(first, 0) /\ FiredBy(first, 0, packet)
    BY DEF ByDevices, Untold, FiredBy
  <2>3. ShownBy(first, 0, packet) /\ Fires(first, 0, packet)
    BY DEF ShownBy, Fires
  <2>4. QED
    BY <1>1, <1>2, <2>1, <2>2, <2>3 DEF Through
<1>10. ASSUME NEW n \in 1 .. N, n - 1 \in S PROVE n \in S
  <2>1. Through(acc[n - 1], n - 1, packet) /\ n \in Devices /\ n \in 0 .. N /\ n # 0
    BY <1>1, <1>10
  <2>2. acc[n] = Match!Apply(acc[n - 1], setup.devices[n], packet)
    BY <1>7, <2>1
  <2>3. Through(Match!Apply(acc[n - 1], setup.devices[n], packet), n, packet)
    BY <2>1, ThroughOne
  <2>4. QED
    BY <2>1, <2>2, <2>3
<1> HIDE DEF S
<1>11. \A n \in 0 .. N : n \in S
  BY <1>1, <1>9, <1>10, InTurn
<1>12. N \in S
  BY <1>1, <1>11
<1>13. QED
  BY <1>8, <1>12 DEF S, N

\* The inductive invariant of PacketMatching.
MatchInv == setup \in Setups /\ states \in StatesType /\ Match!AnalysisForetells

\* The invariant of PacketMatching holds at first.
LEMMA MatchInit == Match!Init => MatchInv
<1> SUFFICES ASSUME Match!Init PROVE MatchInv
  OBVIOUS
<1>1. setup \in Setups /\ states = [e \in EntityIds |-> Match!NoState]
  BY DEF Match!Init, EntityIds
<1>2. states \in StatesType
  BY <1>1 DEF StatesType, Match!NoState, Match!Unset
<1>3. last = [packet |-> <<>>, before |-> states, fired |-> {}, foretold |-> {}, matches |-> {}]
  BY DEF Match!Init
<1>4. Match!AnalysisForetells
  BY <1>3 DEF Match!AnalysisForetells, Match!OnState
<1>5. QED
  BY <1>1, <1>2, <1>4 DEF MatchInv

\* A packet keeps it: the analysis foretells what the loop over the devices does.
LEMMA ReceiveForetells ==
  ASSUME MatchInv, NEW packet \in Packets, Match!Receive(packet)
  PROVE  MatchInv'
<1> DEFINE acc == Match!Processed(packet)
           N == Len(setup.devices)
<1>1. SetupOK(setup) /\ packet \in Seq(Nat) /\ states \in StatesType
  BY SetupsAssumption DEF MatchInv
<1>2. Through(acc, N, packet)
  BY <1>1, ProcessedIs
<1>3. /\ setup' = setup /\ states' = acc.states /\ last'.before = states /\ last'.fired = acc.fired
      /\ last'.foretold = Match!Foretold(packet) /\ last'.matches = Match!Matches(packet)
  BY DEF Match!Receive
<1>4. states' \in StatesType /\ StatesType' = StatesType
  <2>1. acc.states \in StatesType
    BY <1>2 DEF Through, Acc
  <2>2. EntityIds' = EntityIds
    BY <1>3 DEF EntityIds
  <2>3. QED
    BY <1>3, <2>1, <2>2 DEF StatesType
<1> HIDE DEF acc, N
<1>5. /\ \A j \in Devices : DOMAIN Tells(j, packet) # {} =>
             [entity |-> Id(j), state |-> Tells(j, packet)] \in Match!Matches(packet)
      /\ \A m \in Match!Matches(packet) : \E j \in Devices :
             /\ m = [entity |-> Id(j), state |-> Tells(j, packet)]
             /\ DOMAIN Tells(j, packet) # {}
  BY DEF Match!Matches, Match!IsNull, Devices, Id, Tells
<1>6. \A j \in Devices : j \in 1 .. N /\ Id(j) \in EntityIds /\ DOMAIN Tells(j, packet) \subseteq Match!Properties
  BY <1>1, TellsIs DEF Devices, SetupOK, Id, EntityIds, N
<1>7. \A e : Match!Own(e)' = Match!Own(e)
  BY <1>3 DEF Match!Own
<1>8. ASSUME NEW e \in EntityIds, NEW p \in Match!Properties
      PROVE  \/ states'[e][p] = states[e][p]
             \/ \E m \in Match!Matches(packet) : p \in DOMAIN m.state /\ states'[e][p] = m.state[p]
  <2>1. CASE acc.states[e][p] = states[e][p]
    BY <1>3, <2>1
  <2>2. CASE acc.states[e][p] # states[e][p]
    <3>1. PICK j \in Devices : p \in DOMAIN Tells(j, packet) /\ acc.states[e][p] = Tells(j, packet)[p]
      BY <1>2, <2>2 DEF Through, ByDevices
    <3> DEFINE m == [entity |-> Id(j), state |-> Tells(j, packet)]
    <3>2. m \in Match!Matches(packet) /\ m.state = Tells(j, packet)
      BY <1>5, <3>1
    <3>3. QED
      BY <1>3, <3>1, <3>2
  <2>3. QED
    BY <2>1, <2>2
<1>9. \A i : i \in Match!PacketTriggers(packet) => setup.triggers[i].type # "state"
  BY DEF Match!PacketTriggers
<1>10. \A e, s, i : i \in Match!StateTriggers(e, s) =>
             setup.triggers[i].type = "state" /\ setup.triggers[i].entity = e
  BY DEF Match!StateTriggers
<1>11. /\ Match!PacketTriggers(packet) \subseteq acc.fired
       /\ \A i \in acc.fired : i \in Match!PacketTriggers(packet) \/ setup.triggers[i].type = "state"
  BY <1>2 DEF Through, Fires, FiredBy
<1>12. ASSUME NEW i
       PROVE  i \in Match!Foretold(packet)
                <=> \/ i \in Match!PacketTriggers(packet)
                    \/ \E m \in Match!Matches(packet) : i \in Match!StateTriggers(m.entity, m.state)
  BY DEF Match!Foretold
<1>13. last'.fired \ Match!OnState(last.fired)' = last'.foretold \ Match!OnState(last.foretold)'
  <2>1. last'.fired \ Match!OnState(last.fired)' = {i \in acc.fired : setup.triggers[i].type # "state"}
    BY <1>3 DEF Match!OnState
  <2>2. last'.foretold \ Match!OnState(last.foretold)'
          = {i \in Match!Foretold(packet) : setup.triggers[i].type # "state"}
    BY <1>3 DEF Match!OnState
  <2>3. {i \in acc.fired : setup.triggers[i].type # "state"} = Match!PacketTriggers(packet)
    BY <1>9, <1>11
  <2>4. {i \in Match!Foretold(packet) : setup.triggers[i].type # "state"} = Match!PacketTriggers(packet)
    BY <1>9, <1>10, <1>12
  <2>5. QED
    BY <2>1, <2>2, <2>3, <2>4
<1>14. ASSUME NEW m \in Match!Matches(packet), Match!Own(m.entity), NEW p \in DOMAIN m.state
       PROVE  states'[m.entity][p] = m.state[p]
  <2>1. PICK j \in Devices : m = [entity |-> Id(j), state |-> Tells(j, packet)]
    BY <1>5
  <2>2. m.entity = Id(j) /\ m.state = Tells(j, packet)
    BY <2>1
  <2>3. Sole(j) /\ j \in 1 .. N
    BY <1>6, <1>14, <2>2 DEF Sole
  <2>4. acc.states[Id(j)][p] = Tells(j, packet)[p]
    BY <1>2, <1>14, <2>2, <2>3 DEF Through, ShownBy
  <2>5. QED
    BY <1>3, <2>2, <2>4
<1>15. ASSUME NEW i \in acc.fired, setup.triggers[i].type = "state", Match!Own(setup.triggers[i].entity),
              NEW m \in Match!Matches(packet), m.entity = setup.triggers[i].entity,
              setup.triggers[i].property \in DOMAIN m.state
       PROVE  i \in Match!Foretold(packet)
  <2> DEFINE t == setup.triggers[i]
  <2>1. PICK j \in Devices : m = [entity |-> Id(j), state |-> Tells(j, packet)]
    BY <1>5
  <2>2. m.entity = Id(j) /\ m.state = Tells(j, packet)
    BY <2>1
  <2>3. PICK k \in 1 .. N : /\ To(k) = t.entity
                            /\ t.property \in DOMAIN Tells(k, packet) =>
                                  Match!MatchesValue(t, Tells(k, packet)[t.property])
    BY <1>2, <1>9, <1>15 DEF Through, FiredBy
  <2>4. k \in Devices /\ Sole(j)
    BY <1>1, <1>15, <2>2 DEF Devices, SetupOK, N, Sole
  <2>5. k = j
    BY <1>1, <1>15, <2>2, <2>3, <2>4, SoleWriter
  <2>6. Match!MatchesValue(t, Match!Property(m.state, t.property))
    BY <1>15, <2>2, <2>3, <2>5 DEF Match!Property
  <2>7. i \in DOMAIN setup.triggers
    BY <1>2, <1>15 DEF Through, Acc
  <2>8. i \in Match!StateTriggers(m.entity, m.state)
    BY <1>15, <2>6, <2>7 DEF Match!StateTriggers
  <2>9. QED
    BY <1>12, <2>8
<1>16. ASSUME NEW i \in Match!Foretold(packet), setup.triggers[i].type = "state",
              Match!Own(setup.triggers[i].entity), setup.triggers[i].entity \notin setup.internal,
              states'[setup.triggers[i].entity] # states[setup.triggers[i].entity]
       PROVE  i \in acc.fired
  <2>1. PICK m \in Match!Matches(packet) : i \in Match!StateTriggers(m.entity, m.state)
    BY <1>9, <1>12, <1>16
  <2>2. PICK j \in Devices : m = [entity |-> Id(j), state |-> Tells(j, packet)]
    BY <1>5
  <2>3. m.entity = Id(j) /\ m.state = Tells(j, packet) /\ setup.triggers[i].entity = Id(j)
    BY <1>10, <2>1, <2>2
  <2>4. Sole(j) /\ j \in 1 .. N /\ acc.states[Id(j)] # states[Id(j)] /\ Id(j) \notin setup.internal
    BY <1>3, <1>6, <1>16, <2>3 DEF Sole
  <2>5. QED
    BY <1>2, <2>1, <2>3, <2>4 DEF Through, Fires
<1>17. Match!AnalysisForetells'
  <2>1. \A e \in DOMAIN states', p \in Match!Properties :
           \/ states'[e][p] = last'.before[e][p]
           \/ \E m \in last'.matches : p \in DOMAIN m.state /\ states'[e][p] = m.state[p]
    <3>1. DOMAIN states' = EntityIds
      BY <1>4 DEF StatesType
    <3>2. QED
      BY <1>3, <1>8, <3>1
  <2>2. \A m \in last'.matches : Match!Own(m.entity)' =>
           \A p \in DOMAIN m.state : states'[m.entity][p] = m.state[p]
    BY <1>3, <1>7, <1>14
  <2>3. ASSUME NEW i \in Match!OnState(last.fired)', Match!Own(Match!Entity(i))',
               NEW s \in Match!SaidOf(Match!Entity(i))', setup'.triggers[i].property \in DOMAIN s
        PROVE  i \in last'.foretold
    <3>1. i \in acc.fired /\ setup.triggers[i].type = "state" /\ Match!Own(setup.triggers[i].entity)
      BY <1>3, <1>7, <2>3 DEF Match!OnState, Match!Entity, Match!Own
    <3>2. PICK m \in Match!Matches(packet) : m.entity = setup.triggers[i].entity /\ s = m.state
      BY <1>3, <2>3 DEF Match!SaidOf, Match!Entity
    <3>3. QED
      BY <1>3, <1>15, <2>3, <3>1, <3>2
  <2>4. ASSUME NEW i \in Match!OnState(last.foretold)', Match!Own(Match!Entity(i))',
               Match!Entity(i)' \notin setup'.internal,
               states'[Match!Entity(i)'] # last'.before[Match!Entity(i)']
        PROVE  i \in last'.fired
    <3>1. i \in Match!Foretold(packet) /\ setup.triggers[i].type = "state"
      BY <1>3, <2>4 DEF Match!OnState
    <3>2. Match!Entity(i)' = setup.triggers[i].entity
      BY <1>3 DEF Match!Entity
    <3>3. Match!Own(setup.triggers[i].entity)
      BY <1>3, <2>4 DEF Match!Own, Match!Entity
    <3>4. QED
      BY <1>3, <1>16, <2>4, <3>1, <3>2, <3>3
  <2>5. QED
    BY <1>13, <2>1, <2>2, <2>3, <2>4 DEF Match!AnalysisForetells
<1>18. QED
  BY <1>3, <1>4, <1>17 DEF MatchInv

\* Every step of PacketMatching keeps its invariant.
LEMMA MatchStepInv ==
  ASSUME MatchInv, [Match!Next]_matchVars
  PROVE  MatchInv'
<1>1. CASE Match!Next
  BY <1>1, ReceiveForetells DEF Match!Next
<1>2. CASE UNCHANGED matchVars
  BY <1>2 DEF matchVars, MatchInv, Match!AnalysisForetells, Match!Own, Match!OnState, Match!Entity,
              Match!SaidOf, Match!Target, StatesType, EntityIds
<1>3. QED
  BY <1>1, <1>2

-----------------------------------------------------------------------------
(* DeviceCommands.                                                         *)

\* Powers are positive, and each is the base times the one before.
LEMMA PowerIs ==
  ASSUME NEW base \in Nat \ {0}, NEW k \in Nat
  PROVE  /\ Device!Power(base, k) \in Nat \ {0}
         /\ k = 0 => Device!Power(base, k) = 1
         /\ k > 0 => Device!Power(base, k) = base * Device!Power(base, k - 1)
<1> DEFINE f(m) == CHOOSE p : p = [i \in 0 .. m |-> IF i = 0 THEN 1 ELSE base * p[i - 1]]
           V == Nat \ {0}
<1>1. ASSUME NEW m \in Nat
      PROVE  /\ Device!Power(base, m) = f(m)[m]
             /\ f(m)[0] = 1
             /\ \A i \in 1 .. m : f(m)[i] = base * f(m)[i - 1]
             /\ \A i \in 0 .. m : f(m)[i] \in V
  <2> DEFINE onward == [x \in (1 .. m) \X V |-> base * x[2]]
  <2>1. \A x \in V : base * x \in V
    OBVIOUS
  <2>2. onward \in [(1 .. m) \X V -> V]
    <3> HIDE DEF V
    <3>1. QED
      BY <2>1
  <2>3. 1 \in V
    OBVIOUS
  <2>4. PICK g \in [0 .. m -> V] : g[0] = 1 /\ \A n \in 1 .. m : g[n] = onward[<<n, g[n - 1]>>]
    <3>1. \E g \in [0 .. m -> V] : Counted(g, m, 1, onward)
      <4> HIDE DEF onward, V, f
      <4>1. QED
        BY <2>2, <2>3, CountedUp
    <3>2. QED
      BY <3>1 DEF Counted
  <2>5. g = [i \in 0 .. m |-> IF i = 0 THEN 1 ELSE base * g[i - 1]]
    <3>1. ASSUME NEW i \in 0 .. m PROVE g[i] = IF i = 0 THEN 1 ELSE base * g[i - 1]
      <4> HIDE DEF V, f
      <4>1. CASE i = 0
        BY <2>4, <4>1
      <4>2. CASE i # 0
        <5>1. i \in 1 .. m /\ g[i - 1] \in V
          BY <2>4, <4>2
        <5>2. QED
          BY <2>4, <4>2, <5>1
      <4>3. QED
        BY <4>1, <4>2
    <3> HIDE DEF V, f, onward
    <3>2. QED
      BY <2>4, <3>1
  <2>6. f(m) = [i \in 0 .. m |-> IF i = 0 THEN 1 ELSE base * f(m)[i - 1]]
    BY <2>5
  <2>7. Device!Power(base, m) = f(m)[m]
    BY DEF Device!Power
  <2> HIDE DEF f, onward, V
  <2>8. f(m)[0] = 1 /\ \A i \in 1 .. m : f(m)[i] = base * f(m)[i - 1]
    <3>1. 0 \in 0 .. m /\ \A i \in 1 .. m : i \in 0 .. m /\ i # 0
      OBVIOUS
    <3>2. \A i \in 0 .. m : f(m)[i] = IF i = 0 THEN 1 ELSE base * f(m)[i - 1]
      BY <2>6
    <3>3. QED
      BY <3>1, <3>2
  <2>9. \A i \in 0 .. m : f(m)[i] \in V
    <3> DEFINE S == {i \in 0 .. m : f(m)[i] \in V}
    <3>1. 0 \in S
      BY <2>3, <2>8
    <3>2. \A i \in 1 .. m : i - 1 \in S => i \in S
      BY <2>1, <2>8
    <3> HIDE DEF S
    <3>3. \A i \in 0 .. m : i \in S
      BY <3>1, <3>2, InTurn
    <3>4. QED
      BY <3>3 DEF S
  <2>10. QED
    BY <2>7, <2>8, <2>9
<1> HIDE DEF f, V
<1>2. ASSUME k > 0
      PROVE  Device!Power(base, k) = base * Device!Power(base, k - 1)
  <2> DEFINE S == {i \in 0 .. k - 1 : f(k)[i] = f(k - 1)[i]}
  <2>1. k - 1 \in Nat
    BY <1>2
  <2>2. 0 \in S
    BY <1>1, <2>1
  <2>3. \A i \in 1 .. k - 1 : i - 1 \in S => i \in S
    <3>1. ASSUME NEW i \in 1 .. k - 1, i - 1 \in S PROVE i \in S
      <4>1. i \in 1 .. k /\ i \in 0 .. k - 1
        BY <1>2
      <4>2. f(k)[i] = base * f(k)[i - 1] /\ f(k - 1)[i] = base * f(k - 1)[i - 1]
        BY <1>1, <2>1, <4>1
      <4>3. f(k)[i - 1] = f(k - 1)[i - 1]
        BY <3>1
      <4>4. QED
        BY <4>1, <4>2, <4>3
    <3>2. QED
      BY <3>1
  <2> HIDE DEF S
  <2>4. \A i \in 0 .. k - 1 : i \in S
    BY <2>1, <2>2, <2>3, InTurn
  <2>5. f(k)[k - 1] = f(k - 1)[k - 1]
    BY <2>1, <2>4 DEF S
  <2>6. k \in 1 .. k
    BY <1>2
  <2>7. f(k)[k] = base * f(k)[k - 1]
    BY <1>1, <2>6
  <2>8. QED
    BY <1>1, <2>1, <2>5, <2>7
<1>3. k \in 0 .. k
  OBVIOUS
<1>4. QED
  BY <1>1, <1>2, <1>3 DEF V

\* Quotient and remainder.
LEMMA DividedIs ==
  ASSUME NEW a \in Int, NEW b \in Nat \ {0}
  PROVE  /\ a \div b \in Int /\ a % b \in 0 .. b - 1 /\ a = b * (a \div b) + (a % b)
         /\ a \in Nat => a \div b \in Nat
OBVIOUS

\* A product with a positive number is no less.
LEMMA Multiplied ==
  ASSUME NEW b \in Nat, NEW x \in Int, x >= 1
  PROVE  b * x >= b
<1>1. b * (x - 1) >= 0
  OBVIOUS
<1>2. b * x = b * (x - 1) + b
  OBVIOUS
<1>3. QED
  BY <1>1, <1>2

\* Quotient and remainder are unique.
LEMMA QuotientIs ==
  ASSUME NEW b \in Nat \ {0}, NEW q \in Int, NEW p \in Int, NEW r \in 0 .. b - 1, NEW s \in 0 .. b - 1,
         b * q + r = b * p + s
  PROVE  q = p /\ r = s
<1>1. b * (q - p) = s - r /\ b * (p - q) = r - s
  <2>1. b * (q - p) = b * q - b * p /\ b * (p - q) = b * p - b * q
    OBVIOUS
  <2> DEFINE x == b * q
             y == b * p
  <2>2. x \in Int /\ y \in Int /\ x + r = y + s
    OBVIOUS
  <2>3. b * (q - p) = x - y /\ b * (p - q) = y - x
    BY <2>1
  <2> HIDE DEF x, y
  <2>4. QED
    BY <2>2, <2>3
<1>2. ~(q - p >= 1)
  <2>1. ASSUME q - p >= 1 PROVE FALSE
    <3>1. b * (q - p) >= b
      BY <2>1, Multiplied
    <3>2. QED
      BY <1>1, <3>1
  <2>2. QED
    BY <2>1
<1>3. ~(p - q >= 1)
  <2>1. ASSUME p - q >= 1 PROVE FALSE
    <3>1. b * (p - q) >= b
      BY <2>1, Multiplied
    <3>2. QED
      BY <1>1, <3>1
  <2>2. QED
    BY <2>1
<1>4. q = p
  BY <1>2, <1>3
<1>5. QED
  BY <1>4

\* Dividing by a product is dividing twice.
LEMMA DividedTwice ==
  ASSUME NEW n \in Int, NEW b \in Nat \ {0}, NEW p \in Nat \ {0}
  PROVE  n \div (b * p) = (n \div p) \div b
<1> DEFINE m == n \div p
           r == n % p
           s == m \div b
           t == m % b
<1>1. m \in Int /\ r \in 0 .. p - 1 /\ n = p * m + r
  BY DividedIs
<1>2. s \in Int /\ t \in 0 .. b - 1 /\ m = b * s + t
  BY <1>1, DividedIs
<1> HIDE DEF m, r, s, t
<1>3. n = (b * p) * s + (p * t + r)
  <2>1. p * m = p * (b * s) + p * t
    BY <1>2
  <2>2. p * (b * s) = (b * p) * s
    BY <1>2
  <2>3. QED
    BY <1>1, <1>2, <2>1, <2>2
<1>4. b * p \in Nat \ {0}
  OBVIOUS
<1>5. p * t + r \in 0 .. (b * p) - 1
  <2>1. p * t \in Nat
    BY <1>2
  <2>2. p * (b - t) >= p
    BY <1>2, Multiplied
  <2>3. p * (b - t) = b * p - p * t
    BY <1>2
  <2>4. QED
    BY <1>1, <2>1, <2>2, <2>3
<1>6. /\ n \div (b * p) \in Int /\ n % (b * p) \in 0 .. (b * p) - 1
      /\ n = (b * p) * (n \div (b * p)) + (n % (b * p))
  BY <1>4, DividedIs
<1> DEFINE B == b * p
           u == n \div B
           v == n % B
           w == p * t + r
<1>7. B \in Nat \ {0} /\ u \in Int /\ v \in 0 .. B - 1 /\ w \in 0 .. B - 1 /\ B * u + v = B * s + w
  BY <1>3, <1>4, <1>5, <1>6
<1> HIDE DEF B, u, v, w
<1>8. u = s
  BY <1>2, <1>7, QuotientIs
<1>9. QED
  BY <1>8 DEF u, B, s, m

\* The digits of n to a base, the highest first, and the number they make.
AreDigits(digits, n, base, length) ==
  \A i \in 1 .. length : digits[i] = (n \div Device!Power(base, length - i)) % base
\* acc adds the digits up from the left.
SumsUp(acc, digits, base, length) ==
  \A i \in 0 .. length : acc[i] = IF i = 0 THEN 0 ELSE acc[i - 1] * base + digits[i]

\* The digits of n to a base make n again, up to a multiple of the power.
LEMMA NumberOfDigits ==
  ASSUME NEW n \in Int, NEW base \in Nat \ {0}, NEW length \in Nat, NEW digits,
         NEW acc, SumsUp(acc, digits, base, length), AreDigits(digits, n, base, length)
  PROVE  acc[length] = n - (n \div Device!Power(base, length)) * Device!Power(base, length)
<1> DEFINE P(k) == Device!Power(base, k)
           q(k) == n \div P(length - k)
           S == {k \in 0 .. length : acc[k] = q(k) - q(0) * P(k)}
<1> USE DEF SumsUp, AreDigits
<1>1. \A k \in Nat : P(k) \in Nat \ {0} /\ (k > 0 => P(k) = base * P(k - 1))
  BY PowerIs
<1>2. P(0) = 1
  BY PowerIs
<1>3. \A k \in 0 .. length : q(k) \in Int
  <2>1. ASSUME NEW k \in 0 .. length PROVE q(k) \in Int
    <3>1. length - k \in Nat
      OBVIOUS
    <3>2. P(length - k) \in Nat \ {0}
      BY <1>1, <3>1
    <3> HIDE DEF P
    <3>3. QED
      BY <3>2, DividedIs
  <2>2. QED
    BY <2>1
<1> HIDE DEF P
<1>4. 0 \in S
  <2>1. acc[0] = 0 /\ q(0) \in Int
    BY <1>3
  <2> HIDE DEF q
  <2>2. q(0) * P(0) = q(0)
    BY <1>2, <2>1
  <2>3. QED
    BY <2>1, <2>2
<1>5. ASSUME NEW k \in 1 .. length, k - 1 \in S PROVE k \in S
  <2>1. k \in Nat /\ k > 0 /\ k - 1 \in 0 .. length /\ k - 1 \in Nat /\ k \in 0 .. length /\ 0 \in 0 .. length
        /\ length - k \in Nat /\ length - (k - 1) = length - k + 1 /\ length - k + 1 \in Nat
    OBVIOUS
  <2>2. P(length - k + 1) = base * P(length - k) /\ P(length - k) \in Nat \ {0}
    BY <1>1, <2>1
  <2>3. q(k - 1) = q(k) \div base
    <3>1. n \div (base * P(length - k)) = (n \div P(length - k)) \div base
      BY <2>2, DividedTwice
    <3>2. QED
      BY <2>1, <2>2, <3>1
  <2>4. digits[k] = q(k) % base
    BY DEF P
  <2>5. acc[k] = acc[k - 1] * base + digits[k]
    BY <2>1
  <2>6. acc[k - 1] = q(k - 1) - q(0) * P(k - 1)
    BY <1>5
  <2>7. q(k) \in Int /\ q(k - 1) \in Int /\ q(0) \in Int /\ P(k - 1) \in Nat /\ P(k) = base * P(k - 1)
    BY <1>1, <1>3, <2>1
  <2> HIDE DEF q
  <2>8. q(k) = base * q(k - 1) + digits[k] /\ digits[k] \in Int
    <3> DEFINE u == q(k) \div base
               d == q(k) % base
    <3>1. q(k) = base * u + d /\ d \in Int
      <4> DEFINE x == q(k)
      <4>1. x \in Int
        BY <2>7
      <4> HIDE DEF x
      <4>2. x = base * (x \div base) + (x % base) /\ x % base \in 0 .. base - 1
        BY <4>1, DividedIs
      <4>3. x % base \in Int
        BY <4>2
      <4>4. QED
        BY <4>2, <4>3 DEF x
    <3>2. q(k - 1) = u /\ digits[k] = d
      BY <2>3, <2>4
    <3> HIDE DEF u, d
    <3>3. QED
      BY <2>7, <3>1, <3>2
  <2>9. acc[k] = q(k) - q(0) * P(k)
    <3>1. (q(k - 1) - q(0) * P(k - 1)) * base = base * q(k - 1) - q(0) * (base * P(k - 1))
      BY <2>7
    <3>2. base * q(k - 1) \in Int /\ q(0) * (base * P(k - 1)) \in Int
      BY <2>7
    <3>3. QED
      BY <2>5, <2>6, <2>7, <2>8, <3>1, <3>2
  <2>10. QED
    BY <2>1, <2>9
<1> HIDE DEF S
<1>6. \A k \in 0 .. length : k \in S
  BY <1>4, <1>5, InTurn
<1>7. length \in S /\ length - length = 0 /\ length - 0 = length
  BY <1>6
<1>8. acc[length] = q(length) - q(0) * P(length)
  BY <1>7 DEF S
<1>9. q(length) = n
  <2>1. q(length) = n \div 1
    BY <1>2, <1>7
  <2>2. QED
    BY <2>1
<1>10. q(0) = n \div P(length)
  BY <1>7
<1>11. QED
  BY <1>8, <1>9, <1>10 DEF P

\* The place of the i-th highest digit.
From(format, length, i) == IF format.endian = "little" THEN length + 1 - i ELSE i
\* The digits, the highest first.
HighestFirst(digits, format, length) == [i \in 1 .. length |-> digits[From(format, length, i)]]

\* Unsigned reads such digits.
LEMMA UnsignedIs ==
  ASSUME NEW n \in Int, NEW base \in Nat \ {0}, NEW format, NEW length \in Nat \ {0},
         NEW digits \in [1 .. length -> Int],
         AreDigits(HighestFirst(digits, format, length), n, base, length)
  PROVE  Device!Unsigned(digits, format, base)
           = n - (n \div Device!Power(base, length)) * Device!Power(base, length)
<1> DEFINE N == Len(digits)
           digit(i) == digits[IF format.endian = "little" THEN N + 1 - i ELSE i]
           V == Int
           acc == CHOOSE acc : acc = [i \in 0 .. N |-> IF i = 0 THEN 0 ELSE acc[i - 1] * base + digit(i)]
           onward == [x \in (1 .. N) \X V |-> x[2] * base + digit(x[1])]
<1>1. N = length /\ N \in Nat
  <2>1. digits \in Seq(Int) /\ DOMAIN digits = 1 .. length
    OBVIOUS
  <2>2. QED
    BY <2>1
<1>2. \A i \in 1 .. N : digit(i) \in Int /\ digit(i) = digits[From(format, length, i)]
  BY <1>1 DEF From
<1> HIDE DEF N, digit
<1>3. \A i \in 1 .. N : \A x \in V : x * base + digit(i) \in V
  BY <1>2
<1>4. onward \in [(1 .. N) \X V -> V]
  <2> HIDE DEF V
  <2>1. QED
    BY <1>3
<1>5. 0 \in V
  OBVIOUS
<1>6. PICK g \in [0 .. N -> V] : g[0] = 0 /\ \A i \in 1 .. N : g[i] = onward[<<i, g[i - 1]>>]
  <2>1. \E g \in [0 .. N -> V] : Counted(g, N, 0, onward)
    <3> HIDE DEF onward, V, acc
    <3>1. QED
      BY <1>1, <1>4, <1>5, CountedUp
  <2>2. QED
    BY <2>1 DEF Counted
<1>7. g = [i \in 0 .. N |-> IF i = 0 THEN 0 ELSE g[i - 1] * base + digit(i)]
  <2>1. ASSUME NEW i \in 0 .. N PROVE g[i] = IF i = 0 THEN 0 ELSE g[i - 1] * base + digit(i)
    <3> HIDE DEF V, acc
    <3>1. CASE i = 0
      BY <1>6, <3>1
    <3>2. CASE i # 0
      <4>1. i \in 1 .. N /\ g[i - 1] \in V
        BY <1>1, <1>6, <3>2
      <4>2. QED
        BY <1>6, <3>2, <4>1
    <3>3. QED
      BY <3>1, <3>2
  <2> HIDE DEF V, acc, onward
  <2>2. QED
    BY <1>6, <2>1
<1>8. acc = [i \in 0 .. N |-> IF i = 0 THEN 0 ELSE acc[i - 1] * base + digit(i)]
  BY <1>7
<1>9. Device!Unsigned(digits, format, base) = acc[N]
  BY DEF Device!Unsigned, N, digit
<1> HIDE DEF acc, onward, V
<1> DEFINE ordered == HighestFirst(digits, format, length)
<1>10. SumsUp(acc, ordered, base, length)
  <2>1. ASSUME NEW i \in 0 .. length PROVE acc[i] = IF i = 0 THEN 0 ELSE acc[i - 1] * base + ordered[i]
    <3>1. CASE i = 0
      BY <1>1, <1>8, <3>1
    <3>2. CASE i # 0
      <4>1. i \in 1 .. length
        BY <3>2
      <4>2. digit(i) = ordered[i]
        BY <1>1, <1>2, <4>1 DEF HighestFirst
      <4>3. QED
        BY <1>1, <1>8, <3>2, <4>2
    <3>3. QED
      BY <3>1, <3>2
  <2>2. QED
    BY <2>1 DEF SumsUp
<1> HIDE DEF ordered
<1>11. length \in Nat
  OBVIOUS
<1>12. acc[length] = n - (n \div Device!Power(base, length)) * Device!Power(base, length)
  BY <1>10, <1>11, NumberOfDigits, Zenon DEF ordered
<1>13. QED
  BY <1>1, <1>9, <1>12

\* An integer encoded and read, without its sign.
LEMMA IntegerBack ==
  ASSUME NEW n \in Int, NEW format, FormatOK(format), format.length <= 4
  PROVE  LET bytes == Device!EncodeInteger(n, format)
             full  == Device!Power(256, format.length)
         IN /\ Len(bytes) = format.length
            /\ Device!Unsigned(bytes, format, 256) = n - (n \div full) * full
<1> DEFINE bytes == Device!EncodeInteger(n, format)
           L == format.length
<1>1. L \in Nat \ {0} /\ format.endian \in {"big", "little"}
  BY DEF FormatOK
<1>2. \A i \in 1 .. L : Device!Place(i, format) \in Nat
  BY <1>1 DEF Device!Place
<1>3. bytes = [i \in 1 .. L |-> (n \div Device!Power(256, Device!Place(i, format))) % 256]
  <2>1. \A i \in 1 .. L : Device!Place(i, format) % 4 = Device!Place(i, format)
    <3>1. \A i \in 1 .. L : Device!Place(i, format) \in 0 .. 3
      BY <1>1 DEF Device!Place
    <3>2. \A k \in 0 .. 3 : k % 4 = k
      OBVIOUS
    <3>3. QED
      BY <3>1, <3>2
  <2>2. bytes = [i \in 1 .. L |-> (n \div Device!Power(256, Device!Place(i, format) % 4)) % 256]
    BY DEF Device!EncodeInteger
  <2>3. QED
    BY <2>1, <2>2
<1>4. \A i \in 1 .. L : (n \div Device!Power(256, Device!Place(i, format))) % 256 \in Int
  <2>1. ASSUME NEW i \in 1 .. L PROVE (n \div Device!Power(256, Device!Place(i, format))) % 256 \in Int
    <3> DEFINE p == Device!Power(256, Device!Place(i, format))
    <3>1. p \in Nat \ {0}
      <4>1. Device!Place(i, format) \in Nat /\ 256 \in Nat \ {0}
        BY <1>2
      <4>2. QED
        BY <4>1, PowerIs, Zenon
    <3> HIDE DEF p
    <3>2. n \div p \in Int
      BY <3>1, DividedIs
    <3>3. (n \div p) % 256 \in Int
      BY <3>2
    <3>4. QED
      BY <3>3 DEF p
  <2>2. QED
    BY <2>1
<1> HIDE DEF bytes, L
<1>5. bytes \in [1 .. L -> Int]
  BY <1>3, <1>4
<1>6. Len(bytes) = L
  <2>1. bytes \in Seq(Int) /\ DOMAIN bytes = 1 .. L
    BY <1>1, <1>5
  <2>2. QED
    BY <1>1, <2>1
<1>7. AreDigits(HighestFirst(bytes, format, L), n, 256, L)
  <2>1. ASSUME NEW i \in 1 .. L PROVE bytes[From(format, L, i)] = (n \div Device!Power(256, L - i)) % 256
    <3>1. From(format, L, i) \in 1 .. L /\ Device!Place(From(format, L, i), format) = L - i
      BY <1>1 DEF From, Device!Place, L
    <3>2. QED
      BY <1>3, <3>1
  <2>2. QED
    BY <2>1 DEF AreDigits, HighestFirst
<1>8. Device!Unsigned(bytes, format, 256) = n - (n \div Device!Power(256, L)) * Device!Power(256, L)
  <2>1. 256 \in Nat \ {0}
    OBVIOUS
  <2>2. QED
    BY <1>1, <1>5, <1>7, <2>1, UnsignedIs
<1>9. QED
  BY <1>6, <1>8 DEF bytes, L

\* A byte of two digits.
LEMMA DigitsIs ==
  ASSUME NEW pair \in 0 .. 99
  PROVE  Device!Digits((pair \div 10) * 16 + (pair % 10)) = pair
<1> DEFINE b == (pair \div 10) * 16 + (pair % 10)
<1>1. b \div 16 = pair \div 10 /\ b % 16 = pair % 10
  OBVIOUS
<1>2. QED
  BY <1>1 DEF Device!Digits

\* A bcd number encoded and read.
LEMMA BcdBack ==
  ASSUME NEW n \in Nat, NEW format, FormatOK(format), format.endian = "little" => format.length = 1
  PROVE  LET bytes == Device!EncodeBcd(n, format)
             full  == Device!Power(100, format.length)
         IN Device!Unsigned([i \in DOMAIN bytes |-> Device!Digits(bytes[i])], format, 100)
              = n - (n \div full) * full
<1> DEFINE bytes == Device!EncodeBcd(n, format)
           L == format.length
           pair(i) == (n \div Device!Power(100, L - i)) % 100
           digits == [i \in DOMAIN bytes |-> Device!Digits(bytes[i])]
<1>1. L \in Nat \ {0} /\ format.endian \in {"big", "little"}
  BY DEF FormatOK
<1>2. bytes = [i \in 1 .. L |-> (pair(i) \div 10) * 16 + (pair(i) % 10)]
  <2>1. (IF n < 0 THEN -n ELSE n) = n
    OBVIOUS
  <2>2. QED
    BY <2>1 DEF Device!EncodeBcd
<1>3. \A i \in 1 .. L : pair(i) \in 0 .. 99
  <2>1. ASSUME NEW i \in 1 .. L PROVE pair(i) \in 0 .. 99
    <3> DEFINE p == Device!Power(100, L - i)
    <3>1. L - i \in Nat
      BY <1>1
    <3>2. p \in Nat \ {0}
      BY <3>1, PowerIs
    <3> HIDE DEF p
    <3>3. n \div p \in Int
      BY <3>2, DividedIs
    <3>4. (n \div p) % 100 \in 0 .. 99
      BY <3>3
    <3>5. QED
      BY <3>4 DEF p
  <2>2. QED
    BY <2>1
<1> HIDE DEF bytes, L, pair
<1>4. \A i \in 1 .. L : digits[i] = pair(i)
  BY <1>2, <1>3, DigitsIs
<1>5. digits \in [1 .. L -> Int]
  <2>1. DOMAIN bytes = 1 .. L
    BY <1>2
  <2>2. DOMAIN digits = 1 .. L /\ digits = [i \in 1 .. L |-> digits[i]]
    BY <2>1
  <2>3. \A i \in 1 .. L : digits[i] \in Int
    BY <1>3, <1>4
  <2> HIDE DEF digits
  <2>4. QED
    BY <2>2, <2>3
<1>6. AreDigits(HighestFirst(digits, format, L), n, 100, L)
  <2>1. ASSUME NEW i \in 1 .. L PROVE From(format, L, i) = i
    BY <1>1 DEF From, L
  <2>2. QED
    BY <1>4, <2>1 DEF pair, AreDigits, HighestFirst
<1> HIDE DEF digits
<1>7. Device!Unsigned(digits, format, 100) = n - (n \div Device!Power(100, L)) * Device!Power(100, L)
  <2>1. 100 \in Nat \ {0} /\ n \in Int
    OBVIOUS
  <2>2. QED
    BY <1>1, <1>5, <1>6, <2>1, UnsignedIs
<1>8. QED
  BY <1>7 DEF digits, bytes, L

\* What is encoded and read again is the value, but for its rounding.
Back(e, v) == Device!Close(Device!Decoded(Device!Encoded(e, v), e.format), v, e.format.precision)

\* Twice the rounded value is within one of the value scaled.
LEMMA RoundedIs ==
  ASSUME NEW v \in Int, NEW precision \in Nat
  PROVE  LET w == v * Device!Power(10, precision)
             n == Device!Rounded(v, precision)
         IN /\ w \in Int /\ n \in Int /\ 2 * n - w \in 0 .. 1
            /\ precision = 0 => w = v
            /\ \A a : Device!Close(a, v, precision) <=> a - w \in -1 .. 1
<1> DEFINE P == Device!Power(10, precision)
           w == v * P
<1>1. P \in Nat /\ (precision = 0 => P = 1)
  BY PowerIs
<1> HIDE DEF P
<1>2. w \in Int /\ (precision = 0 => w = v)
  BY <1>1
<1>3. Device!Rounded(v, precision) = (w + 1) \div 2
  BY DEF Device!Rounded, P
<1>4. \A a : Device!Close(a, v, precision) <=> a - w \in -1 .. 1
  BY DEF Device!Close, P
<1> HIDE DEF w
<1>5. (w + 1) \div 2 \in Int /\ 2 * ((w + 1) \div 2) - w \in 0 .. 1
  BY <1>2
<1>6. QED
  BY <1>2, <1>3, <1>4, <1>5 DEF w, P

\* A whole number read back is close to the value.
LEMMA WholeBack ==
  ASSUME NEW v \in Int, NEW format, FormatOK(format), NEW a, a = 2 * Device!Rounded(v, format.precision)
  PROVE  Device!Close(a, v, format.precision)
<1> DEFINE n == Device!Rounded(v, format.precision)
           w == v * Device!Power(10, format.precision)
<1>1. format.precision \in Nat
  BY DEF FormatOK
<1>2. w \in Int /\ n \in Int /\ 2 * n - w \in 0 .. 1 /\ (\A x : Device!Close(x, v, format.precision) <=> x - w \in -1 .. 1)
  BY <1>1, RoundedIs
<1>3. a = 2 * n
  OBVIOUS
<1> HIDE DEF n, w
<1>4. a - w \in -1 .. 1
  BY <1>2, <1>3
<1>5. QED
  BY <1>2, <1>4

\* A power of 256 has a half.
LEMMA EvenPower ==
  ASSUME NEW k \in Nat \ {0}
  PROVE  LET full == Device!Power(256, k)
         IN full \in Nat \ {0} /\ full = 2 * (full \div 2) /\ full \div 2 \in Nat
<1> DEFINE full == Device!Power(256, k)
           less == Device!Power(256, k - 1)
<1>1. 256 \in Nat \ {0} /\ k \in Nat /\ k > 0 /\ k - 1 \in Nat
  OBVIOUS
<1>2. full = 256 * less /\ full \in Nat \ {0}
  BY <1>1, PowerIs
<1>3. less \in Nat \ {0}
  BY <1>1, PowerIs
<1> HIDE DEF full, less
<1>4. full \in Nat \ {0} /\ full = 2 * (full \div 2) /\ full \div 2 \in Nat
  BY <1>2, <1>3
<1>5. QED
  BY <1>4 DEF full

\* An integer comes back, with its sign if the format has one.
LEMMA IntegersBack ==
  ASSUME NEW v \in Int, NEW format, FormatOK(format), format.encode = "none", format.length <= 4,
         LET n == Device!Rounded(v, format.precision)
             full == Device!Power(256, format.length)
         IN IF format.signed THEN n \in -(full \div 2) .. full \div 2 - 1 ELSE n \in 0 .. full - 1
  PROVE  Device!Close(Device!Decoded(Device!Insert(v, format), format), v, format.precision)
<1> DEFINE n == Device!Rounded(v, format.precision)
           full == Device!Power(256, format.length)
           bytes == Device!EncodeInteger(n, format)
           u == Device!Unsigned(bytes, format, 256)
<1>1. format.precision \in Nat /\ format.length \in Nat \ {0} /\ format.signed \in BOOLEAN
  BY DEF FormatOK
<1>2. n \in Int
  BY <1>1, RoundedIs
<1>3. full \in Nat \ {0} /\ full = 2 * (full \div 2) /\ full \div 2 \in Nat
  BY <1>1, EvenPower
<1>4. Device!Insert(v, format) = bytes
  BY DEF Device!Insert
<1> HIDE DEF n, bytes
<1>5. Len(bytes) = format.length /\ u = n - (n \div full) * full
  BY <1>2, IntegerBack DEF bytes
<1>6. Device!Decoded(bytes, format) = 2 * (IF format.signed /\ u >= full \div 2 THEN u - full ELSE u)
  BY <1>5 DEF Device!Decoded
<1> HIDE DEF u, full
<1>7. CASE n >= 0
  <2>1. n \in 0 .. full - 1
    BY <1>1, <1>2, <1>3, <1>7 DEF n, full
  <2>2. n \div full = 0
    <3>1. n \div full \in Int /\ n % full \in 0 .. full - 1 /\ n = full * (n \div full) + (n % full)
      BY <1>2, <1>3, DividedIs
    <3> DEFINE q == n \div full
               d == n % full
    <3> HIDE DEF q, d
    <3>2. full * q + d = full * 0 + n /\ q \in Int /\ d \in 0 .. full - 1 /\ 0 \in Int
      BY <1>2, <1>3, <3>1 DEF q, d
    <3>3. q = 0
      BY <1>3, <2>1, <3>2, QuotientIs
    <3>4. QED
      BY <3>3 DEF q
  <2>3. u = n
    BY <1>2, <1>3, <1>5, <2>2
  <2>4. ~(format.signed /\ u >= full \div 2)
    BY <1>1, <1>2, <1>3, <2>3 DEF n, full
  <2>5. Device!Decoded(bytes, format) = 2 * n
    BY <1>6, <2>3, <2>4
  <2>6. QED
    BY <1>4, <2>5, WholeBack DEF n
<1>8. CASE n < 0
  <2>1. format.signed /\ n >= -(full \div 2)
    BY <1>1, <1>2, <1>3, <1>8 DEF n, full
  <2>2. n \div full = -1
    <3>1. n \div full \in Int /\ n % full \in 0 .. full - 1 /\ n = full * (n \div full) + (n % full)
      BY <1>2, <1>3, DividedIs
    <3> DEFINE q == n \div full
               d == n % full
               r == n + full
    <3> HIDE DEF q, d
    <3>2. full * q + d = full * (-1) + r /\ q \in Int /\ d \in 0 .. full - 1 /\ -1 \in Int /\ r \in 0 .. full - 1
      BY <1>2, <1>3, <1>8, <2>1, <3>1 DEF q, d
    <3> HIDE DEF r
    <3>3. q = -1
      BY <1>3, <3>2, QuotientIs
    <3>4. QED
      BY <3>3 DEF q
  <2>3. u = n + full
    BY <1>2, <1>3, <1>5, <2>2
  <2>4. u >= full \div 2 /\ u - full = n
    BY <1>2, <1>3, <2>1, <2>3
  <2>5. Device!Decoded(bytes, format) = 2 * n
    BY <1>6, <2>1, <2>4
  <2>6. QED
    BY <1>4, <2>5, WholeBack DEF n
<1>9. QED
  BY <1>2, <1>7, <1>8

\* A bcd number comes back.
LEMMA DigitsBack ==
  ASSUME NEW v \in Int, NEW format, FormatOK(format), format.encode = "bcd",
         Device!Rounded(v, format.precision) \in 0 .. Device!Power(100, format.length) - 1,
         format.endian = "little" => format.length = 1
  PROVE  Device!Close(Device!Decoded(Device!Insert(v, format), format), v, format.precision)
<1> DEFINE n == Device!Rounded(v, format.precision)
           full == Device!Power(100, format.length)
           bytes == Device!EncodeBcd(n, format)
           u == Device!Unsigned([i \in DOMAIN bytes |-> Device!Digits(bytes[i])], format, 100)
<1>1. full \in Nat \ {0}
  <2>1. 100 \in Nat \ {0} /\ format.length \in Nat
    BY DEF FormatOK
  <2>2. QED
    BY <2>1, PowerIs, Zenon
<1>2. n \in 0 .. full - 1
  OBVIOUS
<1>3. Device!Insert(v, format) = bytes
  BY DEF Device!Insert
<1>4. Device!Decoded(bytes, format) = 2 * u
  BY DEF Device!Decoded
<1> HIDE DEF n, bytes
<1>5. u = n - (n \div full) * full
  <2>1. n \in Nat
    BY <1>1, <1>2
  <2>2. QED
    BY <2>1, BcdBack DEF bytes
<1> HIDE DEF full, u
<1>6. n \div full = 0
  <2>1. n \div full \in Int /\ n % full \in 0 .. full - 1 /\ n = full * (n \div full) + (n % full)
    <3>1. n \in Int
      BY <1>1, <1>2
    <3>2. QED
      BY <1>1, <3>1, DividedIs
  <2> DEFINE q == n \div full
             d == n % full
  <2> HIDE DEF q, d
  <2>2. full * q + d = full * 0 + n /\ q \in Int /\ d \in 0 .. full - 1 /\ 0 \in Int
    BY <1>1, <1>2, <2>1 DEF q, d
  <2>3. q = 0
    BY <1>1, <1>2, <2>2, QuotientIs
  <2>4. QED
    BY <2>3 DEF q
<1>7. u = n
  BY <1>1, <1>2, <1>5, <1>6
<1>8. QED
  BY <1>3, <1>4, <1>7, WholeBack DEF n

\* A half degree comes back.
LEMMA HalvesBack ==
  ASSUME NEW v \in Int, NEW format, FormatOK(format), format.encode = "half",
         v * Device!Power(10, format.precision) \in 0 .. (IF format.signed THEN 127 ELSE 255)
  PROVE  Device!Close(Device!Decoded(Device!Insert(v, format), format), v, format.precision)
<1> DEFINE w == v * Device!Power(10, format.precision)
           b == ((w \div 2) % 128) + 128 * (w % 2)
<1>1. format.precision \in Nat /\ format.signed \in BOOLEAN
  BY DEF FormatOK
<1>2. \A a : Device!Close(a, v, format.precision) <=> a - w \in -1 .. 1
  BY <1>1, RoundedIs
<1>3. Device!Insert(v, format) = Device!EncodeHalf(w)
  BY DEF Device!Insert
<1>4. w \in 0 .. 255 /\ (format.signed => w <= 127)
  OBVIOUS
<1> HIDE DEF w
<1>5. Device!EncodeHalf(w) = <<b>>
  BY <1>4 DEF Device!EncodeHalf
<1>6. 2 * (b % 128) + (b \div 128) = w /\ (w <= 127 => (b \div 64) % 2 # 1)
  <2> DEFINE m == w \div 2
             h == w % 2
  <2>1. m \in 0 .. 127 /\ h \in 0 .. 1 /\ w = 2 * m + h
    BY <1>4
  <2> HIDE DEF m, h
  <2>2. b = m + 128 * h
    BY <2>1 DEF m, h
  <2> HIDE DEF b
  <2>3. CASE h = 0
    BY <2>1, <2>2, <2>3
  <2>4. CASE h = 1
    BY <2>1, <2>2, <2>4
  <2>5. QED
    BY <2>1, <2>3, <2>4
<1> HIDE DEF b
<1>7. Device!Decoded(<<b>>, format) = w
  <2>1. (IF format.endian = "little" THEN <<b>>[Len(<<b>>)] ELSE <<b>>[1]) = b
    OBVIOUS
  <2>2. ~(format.signed /\ (b \div 64) % 2 = 1)
    BY <1>1, <1>4, <1>6
  <2>3. Device!Decoded(<<b>>, format) = 2 * (b % 128) + (b \div 128)
    BY <2>1, <2>2 DEF Device!Decoded
  <2>4. QED
    BY <1>6, <2>3
<1>8. w - w \in -1 .. 1
  BY <1>4
<1>9. QED
  BY <1>2, <1>3, <1>5, <1>7, <1>8

\* A single byte of one of the other types.
LEMMA ByteBack ==
  ASSUME NEW v \in Int, NEW b, b = Device!Rounded(v, 0), b \in 0 .. 255
  PROVE  Device!Close(Device!Decoded(<<b>>, byte), v, 0)
<1>1. /\ byte.encode = "none" /\ byte.endian = "big" /\ byte.signed = FALSE /\ byte.length = 1 /\ byte.precision = 0
      /\ FormatOK(byte)
  BY DEF byte, FormatOK
<1> DEFINE full == Device!Power(256, 1)
<1>2. full = 256
  <2>1. 256 \in Nat \ {0} /\ 1 \in Nat /\ 1 > 0 /\ 1 - 1 = 0 /\ 0 \in Nat
    OBVIOUS
  <2>2. full = 256 * Device!Power(256, 0) /\ Device!Power(256, 0) = 1
    BY <2>1, PowerIs
  <2> HIDE DEF full
  <2>3. QED
    BY <2>2
<1>3. Device!Power(256, 0) = 1
  BY PowerIs
<1>4. Device!EncodeInteger(b, byte) = <<b>>
  <2>1. Device!EncodeInteger(b, byte)
          = [i \in 1 .. 1 |-> (b \div Device!Power(256, Device!Place(i, byte) % 4)) % 256]
    BY <1>1 DEF Device!EncodeInteger
  <2>2. \A i \in 1 .. 1 : Device!Place(i, byte) % 4 = 0
    BY <1>1 DEF Device!Place
  <2>3. (b \div 1) % 256 = b
    OBVIOUS
  <2>4. \A i \in 1 .. 1 : (b \div Device!Power(256, Device!Place(i, byte) % 4)) % 256 = b
    BY <1>3, <2>2, <2>3
  <2>5. QED
    BY <2>1, <2>4
<1>5. Device!Insert(v, byte) = <<b>>
  BY <1>1, <1>4 DEF Device!Insert
<1>6. LET n == Device!Rounded(v, byte.precision)
          all == Device!Power(256, byte.length)
      IN IF byte.signed THEN n \in -(all \div 2) .. all \div 2 - 1 ELSE n \in 0 .. all - 1
  BY <1>1, <1>2
<1>7. Device!Close(Device!Decoded(Device!Insert(v, byte), byte), v, byte.precision)
  BY <1>1, <1>6, IntegersBack
<1>8. QED
  BY <1>1, <1>5, <1>7

\* Every value that fits comes back, whatever the type and the format.
LEMMA ValuesBack ==
  ASSUME NEW e, EntityOK(e), e.type \in Device!Numeric, NEW v \in Int, Device!Fits(v, e)
  PROVE  Back(e, v)
<1>1. CASE e.type = "valve"
  <2>1. v \in 0 .. 200 /\ e.format = byte
    BY <1>1 DEF Device!Fits, EntityOK
  <2>2. Device!Power(10, 0) = 1
    BY PowerIs
  <2>3. Device!Rounded(v, 0) = (v + 1) \div 2
    BY <2>2 DEF Device!Rounded
  <2>4. Device!Rounded(v, 0) \in 0 .. 100
    BY <2>1, <2>3
  <2>5. Device!Encoded(e, v) = <<Device!Rounded(v, 0)>>
    BY <1>1, <2>4 DEF Device!Encoded, Device!Clamp
  <2>6. byte.precision = 0
    BY DEF byte
  <2>7. Device!Rounded(v, 0) \in 0 .. 255
    BY <2>4
  <2>8. QED
    BY <2>1, <2>5, <2>6, <2>7, ByteBack DEF Back
<1>2. CASE e.type \in {"light", "fan"}
  <2>1. e.format = byte /\ byte.precision = 0
    BY <1>2 DEF EntityOK, byte
  <2>2. Device!Rounded(v, 0) \in 0 .. 255
    BY <1>2, <2>1 DEF Device!Fits
  <2>3. Device!Encoded(e, v) = <<Device!Rounded(v, 0)>>
    BY <1>2, <2>2 DEF Device!Encoded
  <2>4. QED
    BY <2>1, <2>2, <2>3, ByteBack DEF Back
<1>3. CASE e.type \in {"number", "climate"}
  <2> DEFINE f == e.format
  <2>1. Device!Encoded(e, v) = Device!Insert(v, f) /\ FormatOK(f)
    BY <1>3 DEF Device!Encoded, EntityOK
  <2>2. CASE f.encode = "bcd"
    <3>1. /\ Device!Rounded(v, f.precision) \in 0 .. Device!Power(100, f.length) - 1
          /\ f.endian = "little" => f.length = 1
      BY <1>3, <2>2 DEF Device!Fits, Device!FitsFormat
    <3>2. QED
      BY <2>1, <2>2, <3>1, DigitsBack DEF Back
  <2>3. CASE f.encode = "half"
    <3>1. v * Device!Power(10, f.precision) \in 0 .. (IF f.signed THEN 127 ELSE 255)
      BY <1>3, <2>3 DEF Device!Fits, Device!FitsFormat
    <3>2. QED
      BY <2>1, <2>3, <3>1, HalvesBack DEF Back
  <2>4. CASE f.encode = "none"
    <3>0. f.length <= 4
      BY <1>3, <2>4 DEF Device!Fits, Device!FitsFormat
    <3>1. IF f.signed
          THEN Device!Rounded(v, f.precision)
                 \in -(Device!Power(256, f.length) \div 2) .. Device!Power(256, f.length) \div 2 - 1
          ELSE Device!Rounded(v, f.precision) \in 0 .. Device!Power(256, f.length) - 1
      BY <1>3, <2>4 DEF Device!Fits, Device!FitsFormat
    <3>2. QED
      BY <2>1, <2>4, <3>0, <3>1, IntegersBack DEF Back
  <2>5. QED
    BY <2>1, <2>2, <2>3, <2>4 DEF FormatOK
<1>4. QED
  BY <1>1, <1>2, <1>3 DEF Device!Numeric

\* What may be handed to the queue.
IsPacket(r) == r = Device!NoPacket \/ r = Device!Empty \/ \E b : r = Device!Packet(b)

\* Every command makes such a packet, or none.
LEMMA ResultIs ==
  ASSUME NEW e, EntityOK(e), NEW name, NEW v
  PROVE  IsPacket(Device!Result(e, name, v))
<1>1. IsPacket(Device!Generic(e, name, v))
  BY DEF Device!Generic, IsPacket, EntityOK, Device!Schemas
<1>2. IsPacket(Device!WithValue(e, v)) /\ IsPacket(Device!Empty) /\ IsPacket(Device!NoPacket)
  BY DEF Device!WithValue, IsPacket
<1>3. IsPacket(Device!Construct(e, name, v))
  <2> DEFINE generic == Device!Generic(e, name, v)
  <2>1. CASE e.type = "number"
    BY <1>1, <1>2, <2>1 DEF Device!Construct
  <2>2. CASE e.type = "text"
    BY <1>1, <1>2, <2>2 DEF Device!Construct
  <2>3. CASE e.type \in {"select", "light", "fan", "valve", "climate"}
    BY <1>1, <1>2, <2>3 DEF Device!Construct
  <2>4. CASE e.type = "switch"
    BY <1>1, <2>4 DEF Device!Construct
  <2>5. QED
    BY <2>1, <2>2, <2>3, <2>4 DEF EntityOK, Device!Types
<1>4. QED
  BY <1>2, <1>3 DEF Device!Result

\* The packets of this entity.
Commands == {Device!Result(entity, name, v) :
               name \in UNION {Device!NamesOf(c, entity.type) : c \in Device!Channels}, v \in Values}

\* What the last command carries is in the register once nothing waits.
Underway ==
  asked.carried =>
     /\ asked.value \in Values /\ Device!Encoded(entity, asked.value) # <<>>
     /\ Device!Encoded(entity, asked.value)
           = IF queue = <<>> THEN register ELSE queue[Len(queue)].bytes
\* A report that follows the last command shows what the device holds.
Told ==
  /\ "reported" \in DOMAIN asked
  /\ asked.reported => /\ queue = <<>> /\ entity.type \in Device!Numeric
                       /\ shown.value = Device!Decoded(register, entity.format)
\* MQTT and the web interface send the packet of the command's key.
Sent ==
  \A r \in sent :
     /\ r.channel \in Device!Channels
     /\ r.channel # "automation" /\ entity.type # "select" =>
           r.packet = Device!Result(entity, Device!KeyName(entity.type), r.value)

\* The inductive invariant of DeviceCommands.
DeviceInv == entity \in Entities /\ queue \in Seq(Commands) /\ Underway /\ Told /\ Sent

\* The invariant of DeviceCommands holds at first.
LEMMA DeviceInit == Device!Init => DeviceInv
<1> SUFFICES ASSUME Device!Init PROVE DeviceInv
  OBVIOUS
<1>1. entity \in Entities /\ queue = <<>> /\ sent = {} 
      /\ ~asked.carried /\ ~asked.reported /\ "reported" \in DOMAIN asked
  BY DEF Device!Init
<1>2. QED
  BY <1>1 DEF DeviceInv, Underway, Told, Sent

\* A command keeps it.
LEMMA CommandSends ==
  ASSUME DeviceInv, NEW c \in Device!Channels, NEW v \in Values,
         NEW name \in Device!NamesOf(c, entity.type), Device!Command(c, name, v)
  PROVE  DeviceInv'
<1> DEFINE packet == Device!Result(entity, name, v)
<1>1. EntityOK(entity)
  BY EntitiesAssumption DEF DeviceInv
<1>2. /\ entity' = entity /\ register' = register
      /\ queue' = IF Device!Sends(c, packet) THEN Append(queue, packet) ELSE queue
      /\ asked'.value = v /\ asked'.reported = FALSE
      /\ "reported" \in DOMAIN asked'
      /\ asked'.carried <=> packet.bytes # <<>> /\ packet.bytes = Device!Encoded(entity, v)
      /\ sent' = sent \cup {[channel |-> c, value |-> v, packet |-> packet]}
  BY DEF Device!Command
<1>3. packet \in Commands
  BY DEF Commands
<1>4. IsPacket(packet)
  BY <1>1, ResultIs
<1> HIDE DEF packet
<1>5. queue' \in Seq(Commands) /\ Commands' = Commands
  BY <1>2, <1>3 DEF DeviceInv, Commands
<1>6. Underway'
  <2>1. SUFFICES ASSUME asked'.carried
                 PROVE  /\ v \in Values /\ Device!Encoded(entity, v) # <<>>
                        /\ Device!Encoded(entity, v)
                              = IF queue' = <<>> THEN register ELSE queue'[Len(queue')].bytes
    BY <1>2 DEF Underway
  <2>2. packet.bytes # <<>> /\ packet.bytes = Device!Encoded(entity, v)
    BY <1>2, <2>1
  <2>3. packet.kind = "packet"
    BY <1>4, <2>2 DEF IsPacket, Device!NoPacket, Device!Empty, Device!Packet
  <2>4. queue' = Append(queue, packet)
    BY <1>2, <2>3 DEF Device!Sends
  <2>5. queue' # <<>> /\ queue'[Len(queue')] = packet
    BY <1>3, <2>4 DEF DeviceInv
  <2>6. QED
    BY <2>2, <2>5
<1>7. Told'
  BY <1>2 DEF Told
<1>8. Sent'
  <2>1. c # "automation" /\ entity.type # "select" => name = Device!KeyName(entity.type)
    BY DEF Device!Channels, Device!NamesOf, Device!MqttName
  <2>2. c # "automation" /\ entity.type # "select" =>
           packet = Device!Result(entity, Device!KeyName(entity.type), v)
    BY <2>1 DEF packet
  <2>3. QED
    BY <1>2, <2>2 DEF Sent, DeviceInv
<1>9. QED
  BY <1>2, <1>5, <1>6, <1>7, <1>8 DEF DeviceInv

\* Sending the first packet that waits keeps it.
LEMMA TransmitSends ==
  ASSUME DeviceInv, Device!Transmit
  PROVE  DeviceInv'
<1>1. /\ entity' = entity /\ asked' = asked /\ shown' = shown /\ sent' = sent
      /\ queue # <<>> /\ queue' = Tail(queue)
      /\ register' = IF Head(queue).bytes # <<>> THEN Head(queue).bytes ELSE register
  BY DEF Device!Transmit
<1>2. queue \in Seq(Commands) /\ queue' \in Seq(Commands) /\ Commands' = Commands
  BY <1>1 DEF DeviceInv, Commands
<1>3. Underway'
  <2>1. SUFFICES ASSUME asked.carried
                 PROVE  Device!Encoded(entity, asked.value)
                          = IF queue' = <<>> THEN register' ELSE queue'[Len(queue')].bytes
    BY <1>1 DEF Underway, DeviceInv
  <2>2. Device!Encoded(entity, asked.value) # <<>>
        /\ Device!Encoded(entity, asked.value) = queue[Len(queue)].bytes
    BY <1>1, <2>1 DEF Underway, DeviceInv
  <2>3. CASE queue' = <<>>
    <3>1. Len(queue) = 1
      <4>1. Len(Tail(queue)) = Len(queue) - 1 /\ Len(queue) \in Nat
        BY <1>1, <1>2
      <4>2. Tail(queue) = <<>>
        BY <1>1, <2>3
      <4>3. Len(<<>>) = 0
        OBVIOUS
      <4>4. Len(Tail(queue)) = 0
        BY <4>2, <4>3
      <4>5. QED
        BY <4>1, <4>4
    <3>2. Head(queue) = queue[Len(queue)]
      BY <1>2, <3>1
    <3>3. QED
      BY <1>1, <2>2, <2>3, <3>2
  <2>4. CASE queue' # <<>>
    <3>1. queue'[Len(queue')] = queue[Len(queue)]
      BY <1>1, <1>2, <2>4
    <3>2. QED
      BY <2>2, <2>4, <3>1
  <2>5. QED
    BY <2>3, <2>4
<1>4. Told' /\ Sent'
  BY <1>1 DEF Told, Sent, DeviceInv
<1>5. QED
  BY <1>1, <1>2, <1>3, <1>4 DEF DeviceInv

\* A report of the device keeps it.
LEMMA ReportShows ==
  ASSUME DeviceInv, Device!Report
  PROVE  DeviceInv'
<1>1. /\ entity' = entity /\ queue' = queue /\ register' = register /\ sent' = sent
      /\ entity.type \in Device!Numeric
      /\ shown'.value = Device!Decoded(register, entity.format)
      /\ asked' = [asked EXCEPT !.reported = queue = <<>>]
  BY DEF Device!Report
<1>2. Commands' = Commands
  BY <1>1 DEF Commands
<1>3. asked'.carried = asked.carried /\ asked'.value = asked.value
  BY <1>1
<1>4. asked'.reported = (queue = <<>>) /\ DOMAIN asked' = DOMAIN asked
  BY <1>1 DEF DeviceInv, Told
<1>5. QED
  BY <1>1, <1>2, <1>3, <1>4 DEF DeviceInv, Underway, Told, Sent

\* Every step of DeviceCommands keeps its invariant.
LEMMA DeviceStepInv ==
  ASSUME DeviceInv, [Device!Next]_deviceVars
  PROVE  DeviceInv'
<1>1. CASE Device!Next
  BY <1>1, CommandSends, TransmitSends, ReportShows DEF Device!Next
<1>2. CASE UNCHANGED deviceVars
  BY <1>2 DEF deviceVars, DeviceInv, Underway, Told, Sent, Commands
<1>3. QED
  BY <1>1, <1>2

\* The invariant implies what is said of commands.
LEMMA DeviceAgrees ==
  ASSUME DeviceInv
  PROVE  Device!ReportedAsAsked /\ Device!ChannelsAgree
<1>1. EntityOK(entity) /\ Values \subseteq Int
  BY EntitiesAssumption DEF DeviceInv
<1>2. Device!ReportedAsAsked
  <2> SUFFICES ASSUME asked.reported, asked.carried, Device!Fits(asked.value, entity)
               PROVE  Device!Close(shown.value, asked.value, entity.format.precision)
    BY DEF Device!ReportedAsAsked
  <2>1. /\ queue = <<>> /\ entity.type \in Device!Numeric /\ shown.value = Device!Decoded(register, entity.format)
        /\ asked.value \in Int /\ Device!Encoded(entity, asked.value) = register
    BY <1>1 DEF DeviceInv, Underway, Told
  <2>2. Back(entity, asked.value)
    BY <1>1, <2>1, ValuesBack
  <2>3. QED
    BY <2>1, <2>2 DEF Back
<1>3. Device!ChannelsAgree
  <2> SUFFICES ASSUME entity.type \in {"light", "fan", "valve", "climate", "switch"},
                      NEW a \in sent, NEW b \in sent, a.value = b.value,
                      "automation" \notin {a.channel, b.channel}
               PROVE  a.packet = b.packet
    BY DEF Device!ChannelsAgree
  <2>1. entity.type # "select" /\ a.channel # "automation" /\ b.channel # "automation"
    OBVIOUS
  <2>2. QED
    BY <2>1 DEF DeviceInv, Sent
<1>4. QED
  BY <1>2, <1>3

-----------------------------------------------------------------------------
(* The theorem about devices, packets and states.                          *)

DeviceSound == DeviceInv /\ MatchInv /\ StoreInv

\* Each part keeps its own invariant, and the others leave it alone.
LEMMA DeviceSoundStays ==
  ASSUME DeviceSound, [BytesNext]_allVars
  PROVE  DeviceSound'
<1>1. [Device!Next]_deviceVars
  BY DEF BytesNext, ParserStep, ManagerStep, DeviceStep, MatchStep, StoreStep, allVars
<1>2. [Match!Next]_matchVars
  BY DEF BytesNext, ParserStep, ManagerStep, DeviceStep, MatchStep, StoreStep, allVars
<1>3. [Store!Next]_storeVars
  BY DEF BytesNext, ParserStep, ManagerStep, DeviceStep, MatchStep, StoreStep, allVars
<1> QED
  BY <1>1, <1>2, <1>3, DeviceStepInv, MatchStepInv, StoreStepInv DEF DeviceSound

\* Their inductive invariant holds throughout (generic.device.ts, state-normalizer.ts,
\* packet-analysis.ts, state-manager.ts).
THEOREM DeviceSoundAlways == BytesSpec => []DeviceSound
<1>1. BytesInit => DeviceSound
  BY DeviceInit, MatchInit, StoreInit DEF BytesInit, DeviceSound
<1>2. DeviceSound /\ [BytesNext]_allVars => DeviceSound'
  BY DeviceSoundStays
<1> QED
  BY <1>1, <1>2, PTL DEF BytesSpec

\* A device that reports after a command shows the value asked for, in every format
\* that can hold it; MQTT and the web interface send the same packet; the analysis of
\* a packet foretells what the bridge does with it; the state automations see, the
\* retained and the cached one agree, and an update by an automation means what the
\* report of the same packet means.
THEOREM DeviceDoesAsAskedCorrect == BytesSpec => []DeviceDoesAsAsked
<1>1. DeviceSound => DeviceDoesAsAsked
  BY DeviceAgrees DEF DeviceSound, MatchInv, StoreInv, DeviceDoesAsAsked
<1> QED
  BY <1>1, DeviceSoundAlways, PTL
=============================================================================
