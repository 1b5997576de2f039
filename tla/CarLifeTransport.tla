-------------------------- MODULE CarLifeTransport --------------------------
(***************************************************************************)
(* Transport of CarLife (transport.cpp): a TCP connection for each         *)
(* channel, a thread that reads each of them, the queue the threads share  *)
(* with the session, and close(), which any thread may call and which      *)
(* joins them all.  CarLifeSession composes these actions with the threads *)
(* that call them.                                                         *)
(***************************************************************************)
EXTENDS Integers, FiniteSets, SequencesExt

CONSTANT Channel       \* the channels in use, "CMD" among them

ASSUME TransportAssumption == "CMD" \in Channel

VARIABLES
  net,                 \* by channel: bytes of the phone, not read
  queue,               \* queue_
  out,                 \* by channel: bytes for the phone, not read
  reader,              \* by channel: "none" no thread yet, "read", "end"
  acceptor,            \* by channel: "none", "wait" in accept(), "end"
  far,                 \* channels whose other end is open
  closed,              \* closed_
  closer               \* the thread that holds close_mu_

transportVars == <<net, queue, out, reader, acceptor, far, closed, closer>>

\* The part of a sequence that is in T, in its order.
Where(seq, T) ==
  LET part[n \in 0..Len(seq)] ==
        IF n = 0 THEN <<>>
        ELSE IF seq[n] \in T THEN Append(part[n - 1], seq[n]) ELSE part[n - 1]
  IN  part[Len(seq)]

\* c.alive: set by attachFd, cleared by the reader as it ends.
Alive(c) == reader[c] = "read"

\* connectPhone has attached what would connect; serveHUPorts has attached CMD
\* and waits for the others in accept().
TransportInit ==
  /\ net = [c \in Channel |-> <<>>]
  /\ queue = <<>>
  /\ out = [c \in Channel |-> <<>>]
  /\ closed = FALSE /\ closer = "none"
  /\ \/ \E up \in SUBSET Channel :
          /\ "CMD" \in up /\ far = up
          /\ reader = [c \in Channel |-> IF c \in up THEN "read" ELSE "none"]
          /\ acceptor = [c \in Channel |-> "none"]
     \/ /\ far = {"CMD"}
        /\ reader = [c \in Channel |-> IF c = "CMD" THEN "read" ELSE "none"]
        /\ acceptor = [c \in Channel |-> IF c = "CMD" THEN "end" ELSE "wait"]

\* accept() returns: attachFd starts a reader.  It may be late: closing the
\* listener does not wake the thread, and a connection may still be waiting.
Accept(c) ==
  /\ acceptor[c] = "wait"
  /\ acceptor' = [acceptor EXCEPT ![c] = "end"]
  /\ reader' = [reader EXCEPT ![c] = "read"]
  /\ far' = far \cup {c}
  /\ UNCHANGED <<net, queue, out, closed, closer>>

\* Bug: the frame is put at the front of the queue.
ReadToFront(c) ==
  /\ Alive(c) /\ ~closed /\ net[c] # <<>>
  /\ queue' = <<Head(net[c])>> \o queue
  /\ net' = [net EXCEPT ![c] = Tail(@)]
  /\ UNCHANGED <<out, reader, acceptor, far, closed, closer>>

\* readerLoop: one frame from the socket to the queue.
Read(c) ==
  /\ Alive(c) /\ ~closed /\ net[c] # <<>>
  /\ queue' = Append(queue, Head(net[c]))
  /\ net' = [net EXCEPT ![c] = Tail(@)]
  /\ UNCHANGED <<out, reader, acceptor, far, closed, closer>>

\* readerLoop ends at the end of the stream, or once closed with what is left
\* unread; the last one alive closes the transport.
ReaderEnd(c) ==
  /\ Alive(c)
  /\ closed \/ (c \notin far /\ net[c] = <<>>)
  /\ net' = [net EXCEPT ![c] = <<>>]
  /\ reader' = [reader EXCEPT ![c] = "end"]
  /\ closed' = (closed \/ \A d \in Channel \ {c} : ~Alive(d))
  /\ UNCHANGED <<queue, out, acceptor, far, closer>>

\* send(): what the channel is left with.  A closed descriptor fails the write.
CanSend(c) == c \in Channel /\ Alive(c) /\ ~closed
Sent(sent, m) ==
  IF CanSend(m.ch) THEN [sent EXCEPT ![m.ch] = Append(@, m)] ELSE sent

\* close(): the first to come shuts the sockets, every caller joins the threads.
CloseBegin(t) ==
  /\ closer = "none"
  /\ closer' = t
  /\ closed' = TRUE
  /\ UNCHANGED <<net, queue, out, reader, acceptor, far>>

\* joinThreads.
CloseEnd(t) ==
  /\ closer = t
  /\ \A c \in Channel : ~Alive(c) /\ acceptor[c] # "wait"
  /\ closer' = "none"
  /\ UNCHANGED <<net, queue, out, reader, acceptor, far, closed>>
=============================================================================
