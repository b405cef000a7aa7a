------------------------------- MODULE LogRing -------------------------------
(***************************************************************************)
(* The ring-buffer logger (log.rs, module rb) and a task that reads it,    *)
(* as the embassy examples do: log() formats a message in a critical       *)
(* section, pushes its bytes into a ring and sends its length through a    *)
(* queue; the reader receives a length, takes that many bytes out of the   *)
(* ring and writes them to the UART while tasks and interrupts log on.     *)
(*                                                                         *)
(* Bytes are taken in pieces that each message consists of: byte <<m, i>>  *)
(* is the i-th piece of the m-th message.                                  *)
(***************************************************************************)
EXTENDS Integers, SequencesExt

CONSTANTS
  RING,      \* pieces the ring holds
  FRAMES,    \* lengths the queue holds
  BUF,       \* pieces the buffer of the reader holds
  MaxLen,    \* pieces of the longest message: the size of the formatting buffer
  MaxMsgs    \* bound on the messages logged

LogAssumption ==
  /\ RING \in Nat \ {0} /\ FRAMES \in Nat \ {0} /\ BUF \in Nat \ {0}
  /\ MaxLen \in Nat \ {0} /\ MaxMsgs \in Nat

VARIABLES
  ring_buf,     \* the bytes in the ring
  frame_queue,  \* the lengths in the queue
  log_buf,      \* the buffer of the reader
  frame_len,    \* the length the reader has received
  reader,       \* where the reader is
  lens,         \* the lengths of the messages logged so far
  cut,          \* a message was not stored whole: a byte or its length was dropped
  sent          \* the frames the reader has written

vars == <<ring_buf, frame_queue, log_buf, frame_len, reader, lens, cut, sent>>

message(m, len) == [i \in 1 .. len |-> <<m, i>>]
blank == <<0, 0>>
smaller(a, b) == IF a < b THEN a ELSE b

Init ==
  /\ ring_buf = <<>> /\ frame_queue = <<>>
  /\ log_buf = [i \in 1 .. BUF |-> blank] /\ frame_len = 0 /\ reader = "receive"
  /\ lens = <<>> /\ cut = FALSE /\ sent = <<>>

(* push_slice stores what fits.                                            *)
free == RING - Len(ring_buf)
push_slice(bytes) == ring_buf' = ring_buf \o SubSeq(bytes, 1, smaller(Len(bytes), free))

try_send(len) ==
  frame_queue' = IF Len(frame_queue) < FRAMES THEN Append(frame_queue, len) ELSE frame_queue

log(len) ==
  /\ Len(lens) < MaxMsgs
  /\ lens' = Append(lens, len)
  /\ push_slice(message(Len(lens) + 1, len))
  /\ try_send(len)
  /\ cut' = (cut \/ len > free \/ Len(frame_queue) = FRAMES)
  /\ UNCHANGED <<log_buf, frame_len, reader, sent>>

receive_behind_another ==
  /\ reader = "receive" /\ Len(frame_queue) > 1
  /\ frame_len' = Head(frame_queue)
  /\ frame_queue' = Tail(frame_queue)
  /\ reader' = "read"
  /\ UNCHANGED <<ring_buf, log_buf, lens, cut, sent>>
receive ==
  /\ reader = "receive" /\ frame_queue # <<>>
  /\ frame_len' = Head(frame_queue)
  /\ frame_queue' = Tail(frame_queue)
  /\ reader' = "read"
  /\ UNCHANGED <<ring_buf, log_buf, lens, cut, sent>>

(* pop_slice takes what there is, the rest of the buffer stays as it was.  *)
read_len == smaller(frame_len, BUF)
read_next_frame ==
  /\ reader = "read"
  /\ LET n == smaller(read_len, Len(ring_buf))
     IN  /\ log_buf' = [i \in 1 .. BUF |-> IF i <= n THEN ring_buf[i] ELSE log_buf[i]]
         /\ ring_buf' = SubSeq(ring_buf, n + 1, Len(ring_buf))
  /\ reader' = "write"
  /\ UNCHANGED <<frame_queue, frame_len, lens, cut, sent>>

(* The slice of the buffer panics when the frame is longer.                *)
write ==
  /\ reader = "write"
  /\ \/ frame_len <= BUF /\ sent' = Append(sent, SubSeq(log_buf, 1, frame_len)) /\ reader' = "receive"
     \/ frame_len > BUF /\ sent' = sent /\ reader' = "panic"
  /\ UNCHANGED <<ring_buf, frame_queue, log_buf, frame_len, lens, cut>>

Reader == receive \/ read_next_frame \/ write
Next == (\E len \in 1 .. MaxLen : log(len)) \/ Reader

(* The executor runs the reader.                                           *)
Spec == Init /\ [][Next]_vars /\ WF_vars(Reader)

-----------------------------------------------------------------------------
(* As long as every message was stored whole, what the reader writes is    *)
(* the messages: each whole, in order and once, however log() and the      *)
(* reader take turns: the lengths in the queue and the bytes in the ring   *)
(* never drift apart (log and read_next_frame of log.rs).                  *)
FramesIntact == ~ cut => \A k \in DOMAIN sent : sent[k] = message(k, lens[k])

(* As long as that holds every message logged is written in the end, and   *)
(* even after a drop the reader drains the queue, unless a frame longer    *)
(* than its buffer makes it panic.                                         *)
EverythingWritten ==
  /\ \A m \in 1 .. MaxMsgs : Len(lens) >= m /\ ~ cut ~> Len(sent) >= m \/ cut \/ reader = "panic"
  /\ frame_queue # <<>> ~> frame_queue = <<>> \/ reader = "panic"

(* Both: the messages are written, and what is written is the messages.    *)
MessagesWritten == []FramesIntact /\ EverythingWritten
=============================================================================
