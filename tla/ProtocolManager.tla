--------------------------- MODULE ProtocolManager ---------------------------
(***************************************************************************)
(* How received chunks reach a packet parser: the class ProtocolManager of *)
(* packages/core/src/protocol/protocol-manager.ts and the worker thread of *)
(* packages/core/src/protocol/protocol-worker.ts.                          *)
(*                                                                         *)
(* Chunks are posted to the worker, which posts their packets back; until  *)
(* it is ready they are kept, and when it fails the main thread parses.    *)
(* The tests never start a worker (shouldUseWorker), so all of this is     *)
(* untested.  The two threads exchange messages through two queues, and    *)
(* terminate() takes effect some time after the call: the worker may still *)
(* take messages, and what it has posted is still delivered.               *)
(*                                                                         *)
(* A chunk is a number; each is one unit of the byte limit and completes   *)
(* packets, which processPacket hands to the devices at once.              *)
(***************************************************************************)
EXTENDS Integers, Sequences

CONSTANTS
  MaxChunks,   \* bound: chunks received, numbered in the order of arrival
  MaxPending   \* MAX_PENDING_BYTES

Chunks == 1..MaxChunks
\* Messages to the main thread: the worker's own, and what node:worker_threads
\* emits about it ("crash" is the event 'error', "exit" the event 'exit').
ChunkMessages == [type : {"packets", "error"}, chunk : Chunks]
PlainMessages == {[type |-> t, chunk |-> 0] : t \in {"ready", "error", "crash", "exit"}}
InitMessage   == 0

VARIABLES
  worker,      \* this.worker # null
  ready,       \* this.workerReady
  pending,     \* pendingChunks
  inbox,       \* messages posted to the worker and not taken yet
  outbox,      \* events for the main thread and not handled yet
  alive,       \* the worker thread runs
  terminated,  \* terminate() was called on it
  next,        \* the next chunk the port delivers
  out,         \* the chunks whose packets were processed, in this order
  posted       \* history: the chunks ever posted to the worker

threadVars == <<inbox, outbox, alive, terminated>>
vars == <<worker, ready, pending, threadVars, next, out, posted>>

TypeOK ==
  /\ worker \in BOOLEAN
  /\ ready \in BOOLEAN
  /\ pending \in Seq(Chunks) /\ Len(pending) <= MaxPending
  /\ inbox \in Seq(Chunks \cup {InitMessage})
  /\ outbox \in Seq(ChunkMessages \cup PlainMessages)
  /\ alive \in BOOLEAN
  /\ terminated \in BOOLEAN
  /\ next \in 1..(MaxChunks + 1)
  /\ out \in Seq(Chunks)
  /\ posted \subseteq Chunks

\* The constructor: a worker is started and given its configuration, or the
\* environment forbids it, or starting it fails.
Init ==
  /\ worker \in BOOLEAN
  /\ ready = FALSE
  /\ pending = <<>>
  /\ inbox = IF worker THEN <<InitMessage>> ELSE <<>>
  /\ outbox = <<>>
  /\ alive = worker
  /\ terminated = FALSE
  /\ next = 1
  /\ out = <<>>
  /\ posted = {}

Elements(s) == {s[i] : i \in DOMAIN s}
-----------------------------------------------------------------------------
(* The main thread.                                                        *)

\* terminateWorker.
TerminateWorker ==
  /\ worker' = FALSE
  /\ ready' = (ready /\ ~worker)
  /\ terminated' = (terminated \/ worker)

\* fallbackToMain: the main thread parses the pending chunks, then the one the
\* worker failed on.
Fallback(kept, extra) ==
  /\ out' = out \o kept \o extra
  /\ pending' = <<>>
  /\ TerminateWorker

\* handleIncomingChunk.
Receive(c) ==
  /\ c = next /\ c <= MaxChunks
  /\ next' = next + 1
  /\ UNCHANGED <<outbox, alive>>
  /\ \/ /\ worker /\ ready
        /\ inbox' = Append(inbox, c)
        /\ posted' = posted \cup {c}
        /\ UNCHANGED <<worker, ready, pending, terminated, out>>
     \/ /\ worker /\ ~ready
        /\ IF Len(pending) < MaxPending
           THEN /\ pending' = Append(pending, c)
                /\ UNCHANGED <<worker, ready, terminated, out>>
           ELSE Fallback(Append(pending, c), <<>>)
        /\ UNCHANGED <<inbox, posted>>
     \/ /\ ~worker
        /\ out' = Append(out, c)
        /\ UNCHANGED <<worker, ready, pending, terminated, inbox, posted>>

\* The message "ready": flushPendingChunks.
Ready ==
  /\ ready' = TRUE
  /\ inbox' = IF worker THEN inbox \o pending ELSE inbox
  /\ posted' = IF worker THEN posted \cup Elements(pending) ELSE posted
  /\ pending' = IF worker THEN <<>> ELSE pending
  /\ UNCHANGED <<worker, terminated, out>>

\* The main thread handles the next event of its worker.
Handle ==
  /\ outbox # <<>>
  /\ outbox' = Tail(outbox)
  /\ UNCHANGED <<alive, next>>
  /\ LET m == Head(outbox)
     IN \/ m.type = "ready" /\ Ready
        \/ /\ m.type = "packets"
           /\ out' = Append(out, m.chunk)
           /\ UNCHANGED <<worker, ready, pending, terminated, inbox, posted>>
        \/ /\ m.type \in {"error", "crash"}
           /\ Fallback(pending, IF m.chunk = 0 THEN <<>> ELSE <<m.chunk>>)
           /\ UNCHANGED <<inbox, posted>>
        \/ /\ m.type = "exit"
           /\ TerminateWorker
           /\ UNCHANGED <<pending, inbox, out, posted>>
-----------------------------------------------------------------------------
(* The worker thread.                                                      *)

Post(t, c) == outbox' = Append(outbox, [type |-> t, chunk |-> c])

\* Variant with a fault: a chunk that fails to parse is posted as parsed too.
WorkerPostsTwice ==
  /\ alive /\ inbox # <<>>
  /\ inbox' = Tail(inbox)
  /\ LET m == Head(inbox)
     IN \/ Post(IF m = InitMessage THEN "ready" ELSE "packets", m)
        \/ outbox' = outbox \o <<[type |-> "packets", chunk |-> m],
                                 [type |-> "error", chunk |-> m]>>
  /\ UNCHANGED <<worker, ready, pending, alive, terminated, next, out, posted>>

\* The worker takes a message: it makes its parser or parses a chunk, or
\* throws and reports the error with the chunk.
WorkerTakes ==
  /\ alive /\ inbox # <<>>
  /\ inbox' = Tail(inbox)
  /\ LET m == Head(inbox)
     IN \/ Post(IF m = InitMessage THEN "ready" ELSE "packets", m)
        \/ Post("error", m)
  /\ UNCHANGED <<worker, ready, pending, alive, terminated, next, out, posted>>

\* The thread ends: by itself with the events 'error' and 'exit', or because
\* it was terminated.  The messages in its inbox are gone.
WorkerEnds ==
  /\ alive
  /\ alive' = FALSE
  /\ inbox' = <<>>
  /\ \/ outbox' = outbox \o <<[type |-> "crash", chunk |-> 0],
                              [type |-> "exit", chunk |-> 0]>>
     \/ terminated /\ Post("exit", 0)
  /\ UNCHANGED <<worker, ready, pending, terminated, next, out, posted>>
-----------------------------------------------------------------------------
Next ==
  \/ \E c \in Chunks : Receive(c)
  \/ Handle
  \/ WorkerTakes
  \/ WorkerEnds

\* The event loop handles the events of the worker, and its thread is run: it
\* takes its messages, or it has ended.
Fairness == WF_vars(Handle) /\ WF_vars(WorkerTakes)

Spec     == Init /\ [][Next]_vars
FairSpec == Spec /\ Fairness
-----------------------------------------------------------------------------
(* Properties.                                                             *)

InTransit ==
  Elements(pending) \cup (Elements(inbox) \ {InitMessage})
    \cup {m.chunk : m \in {x \in Elements(outbox) : x.chunk # 0}}

\* No chunk is processed twice, by the worker and again after the fallback:
\* one that is still on its way was not processed, and nothing is repeated.
ProcessedOnce ==
  /\ \A i, j \in DOMAIN out : out[i] = out[j] => i = j
  /\ InTransit \cap Elements(out) = {}

\* Chunks are lost only if they were posted to a worker that then failed: those
\* that wait for the worker survive whatever happens to it.
LostOnlyByWorker ==
  \A c \in 1..(next - 1) :
    c \in Elements(out) \cup InTransit \/ (c \in posted /\ ~alive)

\* While the worker is in use its packets come complete and in order, although
\* the chunks take different ways before and after it is ready.
WorkerInOrder == worker => \A i \in DOMAIN out : out[i] = i

\* After a failure the packets of the two parsers may alternate, but each of
\* them hands over its own in the order of arrival.
EachParserInOrder ==
  \A i, j \in DOMAIN out :
    i < j /\ (out[i] \in posted <=> out[j] \in posted) => out[i] < out[j]

\* Kept chunks do not wait for ever.
PendingIsTaken == pending # <<>> ~> pending = <<>>
-----------------------------------------------------------------------------
(* What makes these inductive.                                             *)

\* A worker that was told to stop is no longer used, and one that ends by itself
\* says so before the event 'exit'.
WorkerFate ==
  /\ terminated => ~worker
  /\ \A i \in DOMAIN outbox :
        outbox[i].type = "exit" => ~worker \/ \E j \in 1..(i - 1) : outbox[j].type = "crash"

\* Until the worker is ready every chunk is kept and nothing else happened;
\* after that none is.
KeptUntilReady ==
  IF worker /\ ~ready
  THEN /\ Len(pending) = next - 1 /\ \A i \in DOMAIN pending : pending[i] = i
       /\ out = <<>> /\ posted = {}
       /\ \A i \in DOMAIN inbox : inbox[i] = InitMessage
       /\ \A i \in DOMAIN outbox : outbox[i].chunk = 0
  ELSE pending = <<>>

\* A chunk passes through the inbox and the outbox in the order of arrival; those
\* processed for the worker are the oldest.
InboxInOrder ==
  /\ \A i \in DOMAIN inbox : inbox[i] # InitMessage => inbox[i] \in posted
  /\ \A i, j \in DOMAIN inbox : i < j /\ inbox[j] # InitMessage => inbox[i] < inbox[j]

OutboxInOrder ==
  /\ \A i \in DOMAIN outbox : outbox[i].chunk # 0 => outbox[i].chunk \in posted
  /\ \A i, j \in DOMAIN outbox :
        i < j /\ outbox[j].chunk # 0 => outbox[i].chunk < outbox[j].chunk
  /\ \A i \in DOMAIN outbox, j \in DOMAIN inbox :
        inbox[j] # InitMessage => outbox[i].chunk < inbox[j]

OutInOrder ==
  /\ posted \subseteq 1..(next - 1)
  /\ \A i \in DOMAIN out : out[i] < next
  /\ \A i \in DOMAIN out : out[i] \in posted =>
        /\ \A j \in DOMAIN outbox : outbox[j].chunk # 0 => out[i] < outbox[j].chunk
        /\ \A j \in DOMAIN inbox : inbox[j] # InitMessage => out[i] < inbox[j]

\* While the worker is in use nothing is missing before what it posted back.
NoneLeftOut ==
  worker =>
    /\ \A i \in DOMAIN out : out[i] = i /\ out[i] \in posted
    /\ \A j \in DOMAIN outbox : \A c \in 1..(outbox[j].chunk - 1) :
          c <= Len(out) \/ \E i \in 1..(j - 1) : outbox[i].chunk = c

HandOverInv ==
  /\ TypeOK /\ WorkerFate /\ KeptUntilReady
  /\ InboxInOrder /\ OutboxInOrder /\ OutInOrder /\ NoneLeftOut
  /\ LostOnlyByWorker /\ EachParserInOrder
=============================================================================
