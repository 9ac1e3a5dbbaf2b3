----------------------------- MODULE RunChroot -----------------------------
(***************************************************************************)
(* _alpm_run_chroot (util.c): a scriptlet, a hook or ldconfig runs in a    *)
(* child whose standard input and output are sockets.  The parent polls    *)
(* both, feeds the input from a callback and logs the output line by line  *)
(* from a buffer of limited size.                                          *)
(*                                                                         *)
(* The bytes of the output are "x" and "nl", the newline; of the input     *)
(* only the number matters.  A line is logged as the bytes it is made of.  *)
(***************************************************************************)
EXTENDS Integers, Sequences

CONSTANTS
    ChrootJobs,     \* what the command writes, reads and returns, and what may fail
    LineMax,        \* sizeof(ibuf)
    PipeBuf,        \* sizeof(obuf)
    SocketSize      \* what a socket holds at most; external

ASSUME ChrootAssumption == /\ LineMax \in Nat /\ LineMax > 2
                           /\ PipeBuf \in Nat \ {0} /\ SocketSize \in Nat \ {0}
                           /\ \A j \in ChrootJobs : j.output \in Seq({"x", "nl"})

VARIABLES
    cjob,       \* the job; never changes
    child,      \* "none", "runs", "gone" (its ends of the sockets are closed)
    writes,     \* the bytes that the command has still to write
    reads,      \* the bytes that it has still to read before it writes
    output,     \* bytes in the socket child2parent
    input,      \* number of bytes in the socket parent2child
    ibuf,       \* the incomplete line that has been read
    obuf,       \* olen: bytes of the callback that are not sent yet
    feed,       \* bytes that the callback has still to give
    fds,        \* the descriptors that are still polled: "c2p", "p2c"
    log,        \* the lines that have been logged
    retval, cpc

cvars == <<cjob, child, writes, reads, output, input, ibuf, obuf, feed, fds, log, retval, cpc>>

ChrootTypeOK ==
    /\ child \in {"none", "runs", "gone"}
    /\ writes \in Seq({"x", "nl"}) /\ output \in Seq({"x", "nl"}) /\ ibuf \in Seq({"x", "nl"})
    /\ {reads, input, obuf, feed} \subseteq Nat
    /\ fds \subseteq {"c2p", "p2c"}
    /\ retval \in {"none", "0", "1"}
    /\ cpc \in {"start", "poll", "wait", "done", "off"}

ChrootState(j, where) ==
    /\ cjob = j /\ child = "none" /\ writes = j.output /\ reads = j.reads
    /\ output = <<>> /\ input = 0 /\ ibuf = <<>> /\ obuf = 0 /\ feed = j.input
    /\ fds = {} /\ log = <<>> /\ retval = "none" /\ cpc = where

ChrootInit == \E j \in ChrootJobs : ChrootState(j, "start")
ChrootOff == ChrootState([output |-> <<>>, reads |-> 0, input |-> 0, feeds |-> FALSE,
                          fault |-> "none", status |-> 0], "off")

\* The working directory cannot be changed to the root; or a socket or the child cannot
\* be made; or the child runs, with its input connected if there is a callback.
Start ==
    /\ cpc = "start"
    /\ \/ /\ cjob.fault = "chdir" /\ retval' = "0" /\ cpc' = "done"
          /\ UNCHANGED <<child, fds>>
       \/ /\ cjob.fault = "fork" /\ retval' = "1" /\ cpc' = "done"
          /\ UNCHANGED <<child, fds>>
       \/ /\ cjob.fault = "none" /\ child' = "runs" /\ cpc' = "poll"
          /\ fds' = IF cjob.feeds THEN {"c2p", "p2c"} ELSE {"c2p"}
          /\ UNCHANGED retval
    /\ UNCHANGED <<cjob, writes, reads, output, input, ibuf, obuf, feed, log>>
-----------------------------------------------------------------------------
(* The command.  It reads first, waiting for the end of its input if that  *)
(* comes early, then it writes, waiting while the socket is full.          *)

ChildReads ==
    /\ child = "runs" /\ reads > 0
    /\ \/ input > 0 /\ input' = input - 1 /\ reads' = reads - 1
       \/ input = 0 /\ "p2c" \notin fds /\ reads' = 0 /\ UNCHANGED input
    /\ UNCHANGED <<cjob, child, writes, output, ibuf, obuf, feed, fds, log, retval, cpc>>

ChildWrites ==
    /\ child = "runs" /\ reads = 0 /\ writes # <<>> /\ Len(output) < SocketSize
    /\ output' = Append(output, Head(writes)) /\ writes' = Tail(writes)
    /\ UNCHANGED <<cjob, child, reads, input, ibuf, obuf, feed, fds, log, retval, cpc>>

ChildExits ==
    /\ child = "runs" /\ reads = 0 /\ writes = <<>>
    /\ child' = "gone"
    /\ UNCHANGED <<cjob, writes, reads, output, input, ibuf, obuf, feed, fds, log, retval, cpc>>
-----------------------------------------------------------------------------
(* The parent.                                                             *)

\* The complete lines of a buffer, and the rest.
Newlines(b) == {i \in DOMAIN b : b[i] = "nl"}
LastNewline(b) == IF Newlines(b) = {} THEN 0
                  ELSE CHOOSE i \in Newlines(b) : \A j \in Newlines(b) : j <= i
Lines(b) ==
    LET ends == Newlines(b)
        split[i \in 0..Len(b)] ==       \* the lines that end at or before i
           IF i = 0 THEN <<>>
           ELSE IF i \notin ends THEN split[i - 1]
           ELSE LET before == {j \in ends : j < i}
                    from == IF before = {} THEN 1
                            ELSE (CHOOSE j \in before : \A k \in before : k <= j) + 1
                IN Append(split[i - 1], SubSeq(b, from, i))
    IN split[Len(b)]

\* A line without a newline gets one when it is logged.
Line(b) == Append(b, "nl")

\* _alpm_chroot_read_from_child.
Space == LineMax - Len(ibuf) - 2


ReadFromChild ==
    IF output = <<>>        \* end of file
    THEN /\ log' = IF ibuf = <<>> THEN log ELSE Append(log, Line(ibuf))
         /\ fds' = fds \ {"c2p"}
         /\ UNCHANGED <<ibuf, output>>
    ELSE LET n == IF Len(output) < Space THEN Len(output) ELSE Space
             got == SubSeq(output, 1, n)
             buf == ibuf \o got
         IN /\ output' = SubSeq(output, n + 1, Len(output))
            /\ \/ /\ Newlines(got) # {}
                  /\ log' = log \o Lines(buf)
                  /\ ibuf' = SubSeq(buf, LastNewline(buf) + 1, Len(buf))
               \/ /\ Newlines(got) = {} /\ n = Space
                  /\ log' = Append(log, Line(buf))
                  /\ ibuf' = <<>>
               \/ /\ Newlines(got) = {} /\ n # Space
                  /\ ibuf' = buf /\ UNCHANGED log
            /\ UNCHANGED fds

PollIn ==
    /\ cpc = "poll" /\ "c2p" \in fds
    /\ output # <<>> \/ child = "gone"
    /\ ReadFromChild
    /\ UNCHANGED <<cjob, child, writes, reads, input, obuf, feed, retval, cpc>>

\* Mutant: the input of the child is not closed when the callback has no more.
PollOutKeepsOpen ==
    /\ cpc = "poll" /\ "p2c" \in fds
    /\ input < SocketSize \/ child = "gone"
    /\ LET more == IF feed < PipeBuf THEN feed ELSE PipeBuf
           len == IF obuf = 0 THEN more ELSE obuf
       IN /\ feed' = IF obuf = 0 THEN feed - more ELSE feed
          /\ \/ child = "gone" /\ fds' = fds \ {"p2c"} /\ obuf' = len /\ UNCHANGED input
             \/ /\ child = "runs"
                /\ \E n \in 0..len : /\ input + n <= SocketSize /\ (len > 0 => n > 0)
                                     /\ input' = input + n /\ obuf' = len - n
                /\ UNCHANGED fds
    /\ UNCHANGED <<cjob, child, writes, reads, output, ibuf, log, retval, cpc>>

\* _alpm_chroot_write_to_child: refill the buffer from the callback, which ends the input
\* when it has nothing; send what the socket takes; give up when the child is gone.
PollOut ==
    /\ cpc = "poll" /\ "p2c" \in fds
    /\ input < SocketSize \/ child = "gone"
    /\ LET more == IF feed < PipeBuf THEN feed ELSE PipeBuf
           len == IF obuf = 0 THEN more ELSE obuf
       IN /\ feed' = IF obuf = 0 THEN feed - more ELSE feed
          /\ \/ /\ len = 0 \/ child = "gone"
                /\ fds' = fds \ {"p2c"} /\ obuf' = len /\ UNCHANGED input
             \/ /\ len # 0 /\ child = "runs"
                /\ \E n \in 1..len : /\ input + n <= SocketSize
                                     /\ input' = input + n /\ obuf' = len - n
                /\ UNCHANGED fds
    /\ UNCHANGED <<cjob, child, writes, reads, output, ibuf, log, retval, cpc>>

\* When nothing is polled any more, what is left in the buffer is logged and the parent
\* waits for the child.
PollEnds ==
    /\ cpc = "poll" /\ fds = {}
    /\ log' = IF ibuf = <<>> THEN log ELSE Append(log, Line(ibuf))
    /\ cpc' = "wait"
    /\ UNCHANGED <<cjob, child, writes, reads, output, input, ibuf, obuf, feed, fds, retval>>

Wait ==
    /\ cpc = "wait" /\ child = "gone"
    /\ retval' = IF cjob.status = 0 THEN "0" ELSE "1"
    /\ cpc' = "done"
    /\ UNCHANGED <<cjob, child, writes, reads, output, input, ibuf, obuf, feed, fds, log>>

ChrootNext == \/ Start \/ ChildReads \/ ChildWrites \/ ChildExits
              \/ PollIn \/ PollOut \/ PollEnds \/ Wait
ChrootSpec == ChrootInit /\ [][ChrootNext]_cvars

\* The parent, and the command, which is scheduled as any process.
ChrootFairness == /\ WF_cvars(Start \/ PollIn \/ PollOut \/ PollEnds \/ Wait)
                  /\ WF_cvars(ChildReads \/ ChildWrites \/ ChildExits)
-----------------------------------------------------------------------------
(* Properties.                                                             *)

Flat(lines) ==
    LET join[n \in 0..Len(lines)] == IF n = 0 THEN <<>> ELSE join[n - 1] \o lines[n]
    IN join[Len(lines)]
Text(s) == SelectSeq(s, LAMBDA c : c = "x")

\* The buffer always has room for another byte: a full one would make read() return 0,
\* which _alpm_chroot_read_from_child takes for the end of the output.
BufferHasRoom == Space >= 1

\* While the parent reads, no byte of the output is lost, repeated or moved: the text that
\* has been logged, buffered and not read yet is the text that the command has written.
\* Once it has stopped reading, all of it has been logged.
OutputKept ==
    LET all == Text(cjob.output)
        logged == Text(Flat(log))
    IN IF cpc = "poll" /\ "c2p" \in fds
       THEN logged \o Text(ibuf) \o Text(output) \o Text(writes) = all
       ELSE child = "gone" => Len(logged) >= Len(all) /\ SubSeq(logged, 1, Len(all)) = all

\* No line is longer than the buffer allows, and every line ends where its newline is.
LinesAreWhole ==
    \A n \in DOMAIN log : /\ Len(log[n]) < LineMax
                          /\ \A i \in DOMAIN log[n] : log[n][i] = "nl" <=> i = Len(log[n])

\* A command that terminates is waited for; parent and child never wait for each other,
\* although both sockets are limited and either may be full.
ChrootEnds == cpc = "start" ~> cpc = "done"

=============================================================================
