--------------------------- MODULE LthreadSocket ---------------------------
(***************************************************************************)
(* The socket calls of an lthread (lthread_socket.c) against a kernel that *)
(* takes and gives any part of what it is asked for: recv, recv_exact,     *)
(* readline, send, sendmsg, writev, connect and wait.                      *)
(* A byte is its number, in the stream that comes in or in the message     *)
(* that goes out.  Between two attempts the lthread may have waited, and   *)
(* more bytes, the end of the stream, a hang-up, an expiry or the          *)
(* lthread_close() of another lthread may have come.                       *)
(* The entries of an array for lthread_writev() hold the bytes of the      *)
(* message one behind another; base is the number of bytes before.         *)
(***************************************************************************)
EXTENDS Integers, Sequences

CONSTANTS
  StreamLen,      \* bound: the bytes the peer sends
  Newlines,       \* which of them are '\n'
  Lengths,        \* the length arguments
  Iovs            \* the arrays given to lthread_writev(): of [base, len]

ASSUME SocketAssumption ==
  /\ StreamLen \in Nat
  /\ Newlines \subseteq 1..StreamLen
  /\ Lengths \subseteq Nat
  /\ Iovs \subseteq Seq([base : Nat, len : Nat]) \ {<<>>}
  /\ \A v \in Iovs : v[1].base = 0 /\ \A i \in 1..Len(v) - 1 : v[i + 1].base = v[i].base + v[i].len

VARIABLES
  sk,             \* the call: its locals, its buffer and its result
  eof,            \* LT_ST_FDEOF of the lthread
  stream,         \* [sent, taken, closed]: the incoming bytes
  wire            \* the bytes of this call's message that the kernel took

sockVars == <<sk, eof, stream, wire>>

Reads == {"recv", "recv_exact", "readline"}
Sends == {"send", "sendmsg", "writev"}

Idle ==
  [pc |-> "idle", call |-> "recv", length |-> 0, done |-> 0, buf |-> <<>>,
   iov |-> <<>>, index |-> 1, entry |-> 1, n |-> 0, timed |-> FALSE, from |-> 0, ret |-> 0]

SockInit ==
  /\ sk = Idle /\ eof = FALSE /\ wire = <<>>
  /\ stream = [sent |-> 0, taken |-> 0, closed |-> FALSE]

Bytes(iov) == iov[Len(iov)].base + iov[Len(iov)].len

(* The state with which a call starts; the loops of recv_exact, readline    *)
(* and send do not start for length 0.                                      *)
Started(call, length, iov, timed) ==
  [Idle EXCEPT
     !.pc = IF length = 0 /\ call \in {"recv_exact", "readline", "send"} THEN "ret"
            ELSE IF call = "wait" THEN "wait" ELSE "loop",
     !.call = call,
     !.length = IF call = "writev" THEN Bytes(iov) ELSE length,
     !.iov = IF call = "writev" THEN iov ELSE <<>>,
     !.timed = timed /\ call \notin Sends, !.from = stream.taken]

Call ==
  /\ sk.pc = "idle"
  /\ \E call \in Reads \cup Sends \cup {"connect", "wait"}, length \in Lengths,
       iov \in Iovs, timed \in BOOLEAN :
       /\ call = "recv" => length > 0
       /\ sk' = Started(call, length, iov, timed)
  /\ wire' = <<>>
  /\ UNCHANGED <<eof, stream>>

Returns(r) == sk' = [sk EXCEPT !.pc = "ret", !.ret = r]

(* The top of the loops that look at LT_ST_FDEOF. *)
SeesEof ==
  /\ sk.pc = "loop" /\ eof /\ sk.call \notin {"writev", "connect"}
  /\ Returns(IF sk.call \in Reads THEN 0 ELSE -1)
  /\ UNCHANGED <<eof, stream, wire>>

Tries == sk.pc = "loop" /\ (eof => sk.call \in {"writev", "connect"})

(* EAGAIN, EINPROGRESS: _lthread_sched_event(). *)
Again ==
  /\ Tries
  /\ sk.call \in Reads => stream.sent = stream.taken /\ ~stream.closed
  /\ sk' = [sk EXCEPT !.pc = "wait"]
  /\ UNCHANGED <<eof, stream, wire>>

Fails == Tries /\ Returns(-1) /\ UNCHANGED <<eof, stream, wire>>

(* Mutant: every part is received at the start of the buffer. *)
FilledAtStart(buf, done, n) ==
  [i \in 1..(IF Len(buf) > n THEN Len(buf) ELSE n) |->
     IF i <= n THEN stream.taken + i ELSE buf[i]]

(* The buffer after n bytes at its offset done. *)
Filled(buf, done, n) == buf \o [i \in 1..n |-> stream.taken + i]

(* recv() gives n bytes: lthread_recv() returns them, lthread_recv_exact()  *)
(* goes on to the last one, lthread_readline(), byte by byte, to a newline. *)
Receives ==
  /\ Tries /\ sk.call \in Reads
  /\ \E n \in 1..(IF sk.call = "readline" THEN 1 ELSE sk.length - sk.done) :
       LET done == sk.done + n
           ends == \/ sk.call = "recv" \/ done = sk.length
                   \/ sk.call = "readline" /\ stream.taken + 1 \in Newlines
       IN /\ n <= stream.sent - stream.taken
          /\ stream' = [stream EXCEPT !.taken = @ + n]
          /\ sk' = [sk EXCEPT !.done = done, !.buf = Filled(@, sk.done, n),
                              !.pc = IF ends THEN "ret" ELSE "loop",
                              !.ret = IF ends THEN done ELSE 0]
  /\ UNCHANGED <<eof, wire>>

(* recv() gives 0: the end of the stream. *)
ReceivesEnd ==
  /\ Tries /\ sk.call \in Reads
  /\ stream.closed /\ stream.sent = stream.taken
  /\ Returns(IF sk.call = "recv_exact" THEN sk.done ELSE 0)
  /\ UNCHANGED <<eof, stream, wire>>

(* The kernel takes n bytes of what is left. *)
SendsPart ==
  /\ Tries /\ sk.call \in {"send", "sendmsg"}
  /\ \E n \in 0..sk.length - sk.done :
       LET done == sk.done + n
           ends == sk.call = "sendmsg" \/ done = sk.length
       IN /\ n = 0 => sk.length = 0
          /\ wire' = wire \o [i \in 1..n |-> sk.done + i]
          /\ sk' = [sk EXCEPT !.done = done, !.pc = IF ends THEN "ret" ELSE "loop",
                              !.ret = IF ends THEN done ELSE 0]
  /\ UNCHANGED <<eof, stream>>

(* writev() from the entry at index on.                                     *)
Writes ==
  /\ Tries /\ sk.call = "writev"
  /\ sk' = [sk EXCEPT !.pc = "kernel", !.entry = sk.index, !.n = 0]
  /\ UNCHANGED <<eof, stream, wire>>

(* The kernel takes m bytes of an entry and goes on to the next, or gives   *)
(* the number of those it took; 0 only for entries without bytes.           *)
Gathers ==
  /\ sk.pc = "kernel"
  /\ \E more \in BOOLEAN, m \in 0..sk.iov[sk.entry].len :
       /\ more => m = sk.iov[sk.entry].len /\ sk.entry < Len(sk.iov)
       /\ ~more /\ sk.n + m = 0 => \A e \in sk.entry..Len(sk.iov) : sk.iov[e].len = 0
       /\ wire' = wire \o [i \in 1..m |-> sk.iov[sk.entry].base + i]
       /\ sk' = [sk EXCEPT !.n = @ + m, !.entry = IF more THEN @ + 1 ELSE @,
                           !.pc = IF more THEN "kernel" ELSE "written"]
  /\ UNCHANGED <<eof, stream>>

(* n bytes are written; 0 is returned.                                      *)
Written ==
  /\ sk.pc = "written"
  /\ IF sk.n = 0 THEN Returns(0) ELSE sk' = [sk EXCEPT !.pc = "for", !.done = @ + sk.n]
  /\ UNCHANGED <<eof, stream, wire>>

(* One turn of the for loop: an entry that is used up is passed, the one    *)
(* that is not is cut.                                                      *)
PassesOrCuts ==
  /\ sk.pc = "for" /\ sk.index <= Len(sk.iov) /\ sk.n > 0
  /\ sk' = IF sk.n < sk.iov[sk.index].len
           THEN [sk EXCEPT !.iov[sk.index] = [base |-> @.base + sk.n, len |-> @.len - sk.n],
                           !.n = 0]
           ELSE [sk EXCEPT !.n = @ - sk.iov[sk.index].len, !.index = @ + 1]
  /\ UNCHANGED <<eof, stream, wire>>

(* The end of the for loop and the test of the do loop.                     *)
ForEnds ==
  /\ sk.pc = "for" /\ (sk.index > Len(sk.iov) \/ sk.n = 0)
  /\ IF sk.index > Len(sk.iov) THEN Returns(sk.done) ELSE sk' = [sk EXCEPT !.pc = "loop"]
  /\ UNCHANGED <<eof, stream, wire>>

Connects == Tries /\ sk.call = "connect" /\ Returns(0) /\ UNCHANGED <<eof, stream, wire>>

(* It is resumed by an event, which may be a hang-up or a close.            *)
Resumes == \E hup \in BOOLEAN :
  /\ sk.pc = "wait"
  /\ eof' = (eof \/ hup)
  /\ IF sk.call = "wait" THEN Returns(IF eof' THEN -1 ELSE 0)
     ELSE sk' = [sk EXCEPT !.pc = "loop"]
  /\ UNCHANGED <<stream, wire>>

Expires ==
  /\ sk.pc = "wait" /\ sk.timed
  /\ Returns(IF sk.call = "wait" /\ ~eof THEN -2 ELSE -1)
  /\ UNCHANGED <<eof, stream, wire>>

Done == sk.pc = "ret" /\ sk' = Idle /\ wire' = <<>> /\ UNCHANGED <<eof, stream>>

Peer ==
  /\ ~stream.closed
  /\ \/ stream.sent < StreamLen /\ stream' = [stream EXCEPT !.sent = @ + 1]
     \/ stream' = [stream EXCEPT !.closed = TRUE]
  /\ UNCHANGED <<sk, eof, wire>>

SockNext ==
  \/ Call \/ SeesEof \/ Again \/ Fails \/ Receives \/ ReceivesEnd \/ SendsPart
  \/ Writes \/ Gathers \/ Written \/ PassesOrCuts \/ ForEnds \/ Connects \/ Resumes \/ Expires \/ Done \/ Peer

SockSpec == SockInit /\ [][SockNext]_sockVars

----------------------------------------------------------------------------
FirstOf(n) == [i \in 1..n |-> i]

(* Whatever parts the kernel takes or gives, and however often the call     *)
(* waits in between: the bytes in the buffer are those that came next in    *)
(* the stream, in order; what went out is the beginning of the message,     *)
(* byte for byte, and nothing twice.  The numbers returned: a read that     *)
(* returns some has taken no others, and a readline ends with the first     *)
(* newline; a recv that returns 0 or -1 has taken none (recv_exact and      *)
(* readline may lose those they took).  A send that returns a number has    *)
(* sent that many, all of them unless it is a sendmsg, and a sendmsg that   *)
(* fails none; but 0 says that all is sent, and not only of a message       *)
(* without bytes: the total of lthread_writev() is dropped when the last    *)
(* entries that are left are empty.                                         *)
StreamsInOrder ==
  LET r == sk.ret
      returned == sk.pc = "ret"
  IN /\ sk.call \in Reads /\ sk.pc # "idle" =>
          /\ sk.buf = [i \in 1..sk.done |-> sk.from + i]
          /\ stream.taken = sk.from + sk.done
          /\ returned /\ r <= 0 /\ sk.call = "recv" => sk.done = 0
          /\ returned /\ r > 0 =>
               /\ r = sk.done
               /\ sk.call = "recv_exact" => r = sk.length \/ stream.closed
               /\ sk.call = "readline" =>
                    /\ r = sk.length \/ sk.buf[r] \in Newlines
                    /\ \A i \in 1..r - 1 : sk.buf[i] \notin Newlines
     /\ wire = FirstOf(Len(wire))
     /\ sk.call \in Sends /\ sk.pc # "idle" =>
          /\ Len(wire) <= sk.length
          /\ returned /\ r > 0 => r = Len(wire) /\ (sk.call # "sendmsg" => r = sk.length)
          /\ returned /\ r = 0 => Len(wire) = sk.length
          /\ returned /\ r < 0 /\ sk.call = "sendmsg" => wire = <<>>
=============================================================================
