--------------------------- MODULE DownloadProofs ---------------------------
(***************************************************************************)
(* The count of streams and the blocked hosts of Download, for every set   *)
(* of calls, any number of servers and whatever curl and the servers do.   *)
(*                                                                         *)
(* active_downloads_num is a poor count: curl overwrites it, retries and   *)
(* signatures count it up, nobody counts it down.  What makes it safe is   *)
(* that it is never below the number of transfers when it is looked at,    *)
(* and that a transfer is started outside of the filling loop only in the  *)
(* place of one whose result has just been read.                           *)
(***************************************************************************)
EXTENDS Download, FiniteSetTheorems, WellFoundedInduction, TLAPS

\* How a transfer can end.
Results == {"ok", "short", "broken", "aborted", "unmodified", "page", "nohost"}

LoopInv ==
    /\ job \in Jobs
    /\ IsFiniteSet(running)
    /\ msgs \in Seq(Transfers \X Results)
    /\ active \in Nat
    /\ Cardinality(running) + Len(msgs) <= job.streams
    /\ pc \notin {"perform", "read"} => msgs = <<>>
    /\ pc \in {"fill", "read"} => Cardinality(running) <= active
    /\ pc \notin {"fill", "perform", "read"} => running = {}

\* What adding a transfer to the running ones does to their number.
LEMMA Adding ==
  ASSUME IsFiniteSet(running), NEW x
  PROVE  /\ IsFiniteSet(running \cup {x})
         /\ Cardinality(running) \in Nat
         /\ Cardinality(running \cup {x}) \in Nat
         /\ Cardinality(running \cup {x}) <= Cardinality(running) + 1
  BY FS_AddElement, FS_CardinalityType

LEMMA LoopInitially == Init => LoopInv
<1> SUFFICES ASSUME Init PROVE LoopInv
  OBVIOUS
<1>1. IsFiniteSet(running) /\ Cardinality(running) = 0
  BY FS_EmptySet DEF Init
<1> QED
  BY <1>1, JobAssumption DEF Init, LoopInv

\* A transfer comes to its end: a result more, a transfer less.
LEMMA StopsKeeps ==
  ASSUME LoopInv, NEW x \in Transfers, pc = "perform", x \in running, running' = running \ {x},
         msgs' \in Seq(Transfers \X Results), Len(msgs') = Len(msgs) + 1,
         job' = job, active' = active, pc' = pc
  PROVE  LoopInv'
<1>1. /\ IsFiniteSet(running') /\ Cardinality(running') = Cardinality(running) - 1
      /\ Cardinality(running) \in Nat /\ Cardinality(running') \in Nat
  BY FS_RemoveElement, FS_CardinalityType DEF LoopInv
<1>2. msgs' \in Seq(Transfers \X Results) /\ Len(msgs') = Len(msgs) + 1 /\ Len(msgs) \in Nat
  BY DEF LoopInv
<1>3. Transfers' = Transfers /\ job' = job /\ active' = active /\ pc' = pc /\ pc = "perform"
  BY DEF Transfers, Payloads
<1>4. job.streams \in Nat
  BY JobAssumption DEF LoopInv
<1> QED
  BY <1>1, <1>2, <1>3, <1>4 DEF LoopInv

\* A result is read: a transfer may take the place of the one that ended.
LEMMA ReadKeeps ==
  ASSUME LoopInv, NEW y, pc = "read", msgs # <<>>, msgs' = Tail(msgs), job' = job, pc' = pc,
         \/ running' = running /\ active' \in {active, active + 1}
         \/ running' = running \cup {y} /\ active' = active + 1
  PROVE  LoopInv'
<1>1. msgs' \in Seq(Transfers \X Results) /\ Len(msgs') = Len(msgs) - 1 /\ Len(msgs) \in Nat
  BY DEF LoopInv
<1>2. Transfers' = Transfers
  BY DEF Transfers, Payloads
<1>3. /\ IsFiniteSet(running') /\ Cardinality(running) \in Nat /\ Cardinality(running') \in Nat
      /\ Cardinality(running') <= Cardinality(running) + 1
      /\ running' = running \/ active' = active + 1
  <2>1. IsFiniteSet(running) /\ Cardinality(running) \in Nat
    BY FS_CardinalityType DEF LoopInv
  <2>2. /\ IsFiniteSet(running \cup {y}) /\ Cardinality(running \cup {y}) \in Nat
        /\ Cardinality(running \cup {y}) <= Cardinality(running) + 1
    BY <2>1, Adding
  <2>3. CASE running' = running
    BY <2>1, <2>3
  <2>4. CASE running' = running \cup {y} /\ active' = active + 1
    BY <2>1, <2>2, <2>4
  <2> QED
    BY <2>3, <2>4
<1>4. job.streams \in Nat
  BY JobAssumption DEF LoopInv
<1> QED
  BY <1>1, <1>2, <1>3, <1>4 DEF LoopInv

LEMMA CleanupReads ==
  ASSUME NEW x, NEW rc, NEW STATE d, NEW STATE doom, Cleanup(x, rc, d, doom)
  PROVE  msgs' = Tail(msgs)
  BY DEF Cleanup

\* Every handler of a result either ends the transfer or starts one in its place.
LEMMA CheckReads ==
  ASSUME LoopInv, NEW x \in Transfers, Check(x)
  PROVE  /\ pc = "read" /\ msgs # <<>> /\ msgs' = Tail(msgs) /\ job' = job /\ pc' = pc
         /\ \E y : \/ running' = running /\ active' \in {active, active + 1}
                   \/ running' = running \cup {y} /\ active' = active + 1
<1>1. CASE CheckPage(x)
  BY <1>1 DEF CheckPage, Reading, Retry, GiveUp, Cleanup
<1>2. CASE CheckUnresolved(x)
  BY <1>2 DEF CheckUnresolved, Reading, Retry, GiveUp, Cleanup
<1>3. CASE CheckBroken(x)
  BY <1>3 DEF CheckBroken, Reading, Retry, GiveUp, Cleanup
<1>4. CASE CheckAborted(x)
  BY <1>4 DEF CheckAborted, Reading, Cleanup
<1>5. CASE CheckReceived(x)
  <2> DEFINE s == <<x[1], "sig">>
  <2>1. pc = "read" /\ msgs # <<>> /\ job' = job /\ pc' = pc
    BY <1>5 DEF CheckReceived, Reading
  <2>2. \/ running' = running /\ active' \in {active, active + 1}
        \/ running' = running \cup {s} /\ active' = active + 1
    BY <1>5 DEF CheckReceived
  <2>3. msgs' = Tail(msgs)
    BY <1>5, CleanupReads DEF CheckReceived
  <2> QED
    BY <2>1, <2>2, <2>3
<1> QED
  BY <1>1, <1>2, <1>3, <1>4, <1>5 DEF Check

LEMMA LoopStep == LoopInv /\ [Next]_vars => LoopInv'
<1> SUFFICES ASSUME LoopInv, [Next]_vars PROVE LoopInv'
  OBVIOUS
<1>0. /\ job.streams \in Nat /\ Cardinality(running) \in Nat /\ Len(msgs) \in Nat
      /\ Cardinality({}) = 0 /\ IsFiniteSet({}) /\ (Cardinality(running) = 0 <=> running = {})
  BY JobAssumption, FS_CardinalityType, FS_EmptySet DEF LoopInv
<1>1. CASE Prepare
  BY <1>0, <1>1 DEF Prepare, LoopInv, Transfers, Payloads
<1>2. CASE Fork
  BY <1>0, <1>2 DEF Fork, loop, LoopInv, Transfers, Payloads
<1>3. CASE FillEnds
  BY <1>0, <1>3 DEF FillEnds, loop, LoopInv, Transfers, Payloads
<1>4. CASE Performed
  BY <1>0, <1>4 DEF Performed, LoopInv, Transfers, Payloads
<1>5. CASE ReadEnds
  BY <1>0, <1>5 DEF ReadEnds, loop, LoopInv, Transfers, Payloads
<1>6. CASE Exit
  BY <1>0, <1>6 DEF Exit, loop, LoopInv, Transfers, Payloads
<1>7. CASE Fetch
  BY <1>0, <1>7 DEF Fetch, LoopInv, Transfers, Payloads
<1>8. CASE FetchEnds
  BY <1>0, <1>8 DEF FetchEnds, loop, LoopInv, Transfers, Payloads
<1>9. CASE Finalize
  BY <1>0, <1>9 DEF Finalize, loop, LoopInv, Transfers, Payloads
<1>10. ASSUME NEW x \in Transfers, AddPayload(x) PROVE LoopInv'
  <2>1. /\ IsFiniteSet(running \cup {x}) /\ Cardinality(running \cup {x}) \in Nat
        /\ Cardinality(running \cup {x}) <= Cardinality(running) + 1
    BY Adding DEF LoopInv
  <2>2. /\ pc = "fill" /\ active < job.streams /\ pc' = pc /\ msgs' = msgs /\ job' = job
        /\ active' = active + 1 /\ (running' = running \/ running' = running \cup {x})
    BY <1>10 DEF AddPayload, Filling
  <2>3. Transfers' = Transfers
    BY <2>2 DEF Transfers, Payloads
  <2>4. /\ IsFiniteSet(running') /\ Cardinality(running') \in Nat
        /\ Cardinality(running') <= Cardinality(running) + 1
    <3>1. CASE running' = running
      BY <1>0, <3>1 DEF LoopInv
    <3>2. CASE running' = running \cup {x}
      BY <2>1, <3>2
    <3> QED
      BY <2>2, <3>1, <3>2
  <2> QED
    BY <1>0, <2>2, <2>3, <2>4 DEF LoopInv
<1>11. ASSUME NEW x \in Transfers, AddFails(x) PROVE LoopInv'
  BY <1>0, <1>11 DEF AddFails, Filling, LoopInv, Transfers, Payloads
<1>12. ASSUME NEW x \in Transfers, Check(x) PROVE LoopInv'
  BY <1>12, CheckReads, ReadKeeps
<1>13. CASE Killed
  <2>1. running' = {} /\ msgs' = <<>> /\ active' = 0 /\ pc' = "finalize" /\ job' = job
    BY <1>13 DEF Killed
  <2> QED
    BY <1>0, <2>1 DEF LoopInv
<1>14. ASSUME NEW x \in Transfers, Finishes(x) PROVE LoopInv'
  <2>1. /\ pc = "perform" /\ x \in running /\ running' = running \ {x}
        /\ job' = job /\ active' = active /\ pc' = pc
    BY <1>14 DEF Finishes, Data, Unmodified, Page, Unresolved, Stops
  <2>2. PICK result \in Results : msgs' = Append(msgs, <<x, result>>)
    BY <1>14 DEF Finishes, Data, Unmodified, Page, Unresolved, Stops, Results
  <2>3. msgs' \in Seq(Transfers \X Results) /\ Len(msgs') = Len(msgs) + 1
    <3>1. <<x, result>> \in Transfers \X Results
      BY <1>14, <2>2
    <3> QED
      BY <2>2, <3>1 DEF LoopInv
  <2> QED
    BY <2>1, <2>3, StopsKeeps
<1>15. CASE UNCHANGED vars
  BY <1>15 DEF vars, loop, LoopInv, Transfers, Payloads
<1> QED
  BY <1>1, <1>2, <1>3, <1>4, <1>5, <1>6, <1>7, <1>8, <1>9, <1>10, <1>11, <1>12, <1>13, <1>14, <1>15
     DEF Next, Steps

LEMMA LoopInvariant == Spec => []LoopInv
  BY LoopInitially, LoopStep, PTL DEF Spec

\* curl never has more transfers than ParallelDownloads allows, although retries and
\* signatures are started without a look at the number of free streams.
THEOREM NeverTooMany == Spec => []StreamsBounded
<1>1. LoopInv => StreamsBounded
  <2> SUFFICES ASSUME LoopInv PROVE StreamsBounded
    OBVIOUS
  <2>1. Cardinality(running) \in Nat /\ Len(msgs) \in Nat /\ job.streams \in Nat
    BY JobAssumption, FS_CardinalityType DEF LoopInv
  <2> QED
    BY <2>1 DEF LoopInv, StreamsBounded
<1> QED
  BY <1>1, LoopInvariant, PTL

\* curl_download_internal does not leave its loop while a transfer is running or a
\* result is unread.
THEOREM LeavesIdle == Spec => []EndsIdle
<1>1. LoopInv => EndsIdle
  BY DEF LoopInv, EndsIdle
<1> QED
  BY <1>1, LoopInvariant, PTL
-----------------------------------------------------------------------------
(* Blocked hosts: the servers that are left are lists of hosts, and the    *)
(* one that is taken from them is not one with a hard error.               *)

ServerLists == [cache : Seq(Hosts), servers : Seq(Hosts)]

HostInv ==
    /\ job \in Jobs
    /\ errors \in [Hosts -> Int]
    /\ DOMAIN host = Transfers
    /\ left \in [Payloads -> ServerLists]

\* A set of positions that is not empty has a first one.
LEMMA FirstPosition ==
  ASSUME NEW S \in SUBSET Nat, S # {}
  PROVE  \E i \in S : \A j \in S : i <= j
<1>1. PICK i \in S : \A j \in S : <<j, i>> \notin OpToRel(<, Nat)
  BY WFMin, NatLessThanWellFounded
<1>2. \A j \in S : ~(j < i)
  BY <1>1 DEF OpToRel
<1> QED
  BY <1>2

\* What is left of a list after the hosts to skip begins with a host not to skip.
LEMMA FromSkips ==
  ASSUME NEW list \in Seq(Hosts), NEW skip, From(list, skip) # <<>>
  PROVE  Head(From(list, skip)) \in Hosts \ skip /\ Tail(From(list, skip)) \in Seq(Hosts)
<1> DEFINE good == {i \in DOMAIN list : list[i] \notin skip}
           first == CHOOSE i \in good : \A j \in good : i <= j
<1>1. good # {} /\ good \subseteq Nat
  BY DEF From
<1>2. first \in good
  BY <1>1, FirstPosition
<1>3. From(list, skip) = SubSeq(list, first, Len(list))
  BY <1>1 DEF From
<1> HIDE DEF first
<1>4. first \in 1..Len(list) /\ list[first] \in Hosts \ skip
  BY <1>2
<1>5. SubSeq(list, first, Len(list)) \in Seq(Hosts)
  BY <1>4
<1>6. Head(SubSeq(list, first, Len(list))) = list[first]
  BY <1>4
<1>7. SubSeq(list, first, Len(list)) # <<>>
  BY <1>3
<1> QED
  BY <1>3, <1>4, <1>5, <1>6, <1>7

\* payload_next_server leaves lists of hosts and never takes a host with a hard error.
LEMMA NextServerGood ==
  ASSUME HostInv, NEW x \in Transfers, NEW STATE e, e \in [Hosts -> Int]
  PROVE  /\ NextServer(x, e).left \in ServerLists
         /\ NextServer(x, e).host # NoHost => e[NextServer(x, e).host] # -1
<1> DEFINE c == From(left[x[1]].cache, Hard(e))
           v == From(left[x[1]].servers, Skipped(e))
<1>1. /\ left[x[1]] \in ServerLists
      /\ left[x[1]].cache \in Seq(Hosts) /\ left[x[1]].servers \in Seq(Hosts)
  BY DEF HostInv, Transfers, ServerLists
<1>2. c # <<>> => Head(c) \in Hosts \ Hard(e) /\ Tail(c) \in Seq(Hosts)
  BY <1>1, FromSkips
<1>3. v # <<>> => Head(v) \in Hosts \ Skipped(e) /\ Tail(v) \in Seq(Hosts)
  BY <1>1, FromSkips
<1>4. \A h \in Hosts : h \notin Hard(e) \/ h \notin Skipped(e) => e[h] # -1
  BY DEF Hard, Skipped
<1> HIDE DEF c, v
<1>5. CASE IsSig(x)
  BY <1>1, <1>5 DEF NextServer
<1>6. CASE ~IsSig(x) /\ c # <<>>
  BY <1>1, <1>2, <1>4, <1>6 DEF NextServer, ServerLists, c
<1>7. CASE ~IsSig(x) /\ c = <<>> /\ v # <<>>
  BY <1>3, <1>4, <1>7 DEF NextServer, ServerLists, c, v
<1>8. CASE ~IsSig(x) /\ c = <<>> /\ v = <<>>
  BY <1>8 DEF NextServer, ServerLists, c, v
<1> QED
  BY <1>5, <1>6, <1>7, <1>8

LEMMA HostInitially == Init => HostInv
  BY JobAssumption DEF Init, HostInv, ServerLists, Payloads

\* The errors e count on from those of the state: hard errors stay.
CountsOn(e) == e \in [Hosts -> Int] /\ \A h \in Hosts : errors[h] = -1 => e[h] = -1

\* server_soft_error and server_hard_error keep hard errors.
LEMMA ErrorsKept ==
  ASSUME HostInv, NEW x
  PROVE  /\ CountsOn(errors) /\ CountsOn(SoftError(errors, host[x]))
         /\ CountsOn(HardError(errors, host[x])) /\ CountsOn(Tolerant(x))
<1>1. errors \in [Hosts -> Int] /\ CountsOn(errors)
  BY DEF HostInv, CountsOn
<1>2. CountsOn(SoftError(errors, host[x]))
  <2>1. CASE host[x] \in Skipped(errors)
    BY <1>1, <2>1 DEF SoftError
  <2>2. CASE host[x] \notin Skipped(errors)
    <3>1. SoftError(errors, host[x]) = [errors EXCEPT ![host[x]] = errors[host[x]] + 1]
      BY <2>2 DEF SoftError
    <3>2. host[x] \in Hosts => errors[host[x]] # -1 /\ errors[host[x]] + 1 \in Int
      BY <1>1, <2>2 DEF Skipped
    <3> QED
      BY <1>1, <3>1, <3>2 DEF CountsOn
  <2> QED
    BY <2>1, <2>2
<1>3. CountsOn(HardError(errors, host[x]))
  <2>1. [errors EXCEPT ![host[x]] = -1] \in [Hosts -> Int]
    <3>1. -1 \in Int
      OBVIOUS
    <3> QED
      BY <1>1, <3>1, Zenon
  <2>2. \A h \in Hosts : [errors EXCEPT ![host[x]] = -1][h] \in {errors[h], -1}
    BY <1>1
  <2> QED
    BY <1>1, <2>1, <2>2 DEF CountsOn, HardError
<1> QED
  BY <1>1, <1>2, <1>3 DEF Tolerant

\* What a step that starts no transfer does.
LEMMA StartsNone ==
  ASSUME HostInv, job' = job, errors' \in [Hosts -> Int], DOMAIN host' = DOMAIN host,
         left' \in [Payloads -> ServerLists], running' \subseteq running,
         \A h \in Hosts : errors[h] = -1 => errors'[h] = -1
  PROVE  HostInv' /\ StaysBlocked
  BY DEF HostInv, StaysBlocked, Transfers, Payloads

\* What a step that starts the transfer of x does.
LEMMA StartsOne ==
  ASSUME HostInv, NEW x \in Transfers, job' = job, errors' \in [Hosts -> Int],
         DOMAIN host' = DOMAIN host, left' \in [Payloads -> ServerLists],
         running' \subseteq running \cup {x}, \A h \in Hosts : errors[h] = -1 => errors'[h] = -1,
         IsSig(x) \/ Payload(x).url # NoHost \/ errors'[host'[x]] # -1
  PROVE  HostInv' /\ StaysBlocked
  BY DEF HostInv, StaysBlocked, Transfers, Payloads

LEMMA RetryKeeps ==
  ASSUME HostInv, NEW x \in Transfers, NEW STATE e, NEW STATE d, job' = job, CountsOn(e),
         Retry(x, e, d)
  PROVE  HostInv' /\ StaysBlocked
<1>1. /\ NextServer(x, e).left \in ServerLists
      /\ NextServer(x, e).host # NoHost => e[NextServer(x, e).host] # -1
  BY NextServerGood DEF CountsOn
<1>2. /\ NextServer(x, e).host # NoHost /\ errors' = e /\ running' = running \cup {x}
      /\ left' = [left EXCEPT ![x[1]] = NextServer(x, e).left]
      /\ host' = [host EXCEPT ![x] = NextServer(x, e).host]
  BY DEF Retry, Takes
<1>3. left' \in [Payloads -> ServerLists]
  BY <1>1, <1>2 DEF HostInv
<1>4. DOMAIN host' = DOMAIN host /\ host'[x] = NextServer(x, e).host
  BY <1>2 DEF HostInv
<1> QED
  BY <1>1, <1>2, <1>3, <1>4, StartsOne DEF CountsOn

LEMMA GiveUpKeeps ==
  ASSUME HostInv, NEW x \in Transfers, NEW STATE e, NEW STATE d, NEW STATE doom,
         job' = job, CountsOn(e), GiveUp(x, e, d, doom)
  PROVE  HostInv' /\ StaysBlocked
<1>1. NextServer(x, e).left \in ServerLists
  BY NextServerGood DEF CountsOn
<1>2. /\ errors' = e /\ running' = running /\ host' = host
      /\ left' = [left EXCEPT ![x[1]] = NextServer(x, e).left]
  BY DEF GiveUp
<1>3. left' \in [Payloads -> ServerLists]
  BY <1>1, <1>2 DEF HostInv
<1> QED
  BY <1>2, <1>3, StartsNone DEF CountsOn

LEMMA CheckKeeps ==
  ASSUME HostInv, NEW x \in Transfers, Check(x)
  PROVE  HostInv' /\ StaysBlocked
<1>0. /\ CountsOn(errors) /\ CountsOn(SoftError(errors, host[x]))
      /\ CountsOn(HardError(errors, host[x])) /\ CountsOn(Tolerant(x))
  BY ErrorsKept
<1>1. CASE CheckPage(x)
  BY <1>0, <1>1, RetryKeeps, GiveUpKeeps DEF CheckPage
<1>2. CASE CheckUnresolved(x)
  BY <1>0, <1>2, RetryKeeps, GiveUpKeeps DEF CheckUnresolved
<1>3. CASE CheckBroken(x)
  BY <1>0, <1>3, RetryKeeps, GiveUpKeeps DEF CheckBroken
<1>4. CASE CheckAborted(x)
  <2>1. /\ errors' = SoftError(errors, host[x]) /\ running' = running /\ host' = host
        /\ left' = left /\ job' = job
    BY <1>4 DEF CheckAborted
  <2> QED
    BY <1>0, <2>1, StartsNone DEF CountsOn, HostInv
<1>5. CASE CheckReceived(x)
  <2> DEFINE s == <<x[1], "sig">>
  <2>1. s \in Transfers /\ IsSig(s)
    BY DEF Transfers, IsSig
  <2>2. /\ errors' = errors /\ left' = left /\ job' = job /\ running' \subseteq running \cup {s}
        /\ host' = host \/ host' = [host EXCEPT ![s] = host[x]]
    BY <1>5 DEF CheckReceived
  <2>3. DOMAIN host' = DOMAIN host
    BY <2>2
  <2> HIDE DEF s
  <2> QED
    BY <1>0, <2>1, <2>2, <2>3, StartsOne DEF CountsOn, HostInv
<1> QED
  BY <1>1, <1>2, <1>3, <1>4, <1>5 DEF Check

LEMMA HostStep == HostInv /\ [Next]_vars => HostInv' /\ [StaysBlocked]_vars
<1> SUFFICES ASSUME HostInv, [Next]_vars PROVE HostInv' /\ [StaysBlocked]_vars
  OBVIOUS
<1>1. CASE UNCHANGED vars
  BY <1>1 DEF vars, transfer, HostInv, Transfers, Payloads
<1>2. ASSUME UNCHANGED <<job, left, host, errors>>, running' \subseteq running PROVE HostInv' /\ StaysBlocked
  BY <1>2, StartsNone DEF HostInv
<1>3. CASE Prepare \/ Fork \/ FillEnds \/ Performed \/ ReadEnds \/ Exit \/ Fetch \/ FetchEnds \/ Finalize
  <2>1. UNCHANGED <<job, left, host, errors>> /\ running' = running
    BY <1>3 DEF Prepare, Fork, FillEnds, Performed, ReadEnds, Exit, Fetch, FetchEnds, Finalize, transfer, loop
  <2> QED
    BY <1>2, <2>1
<1>4. CASE Killed
  <2>1. UNCHANGED <<job, left, host, errors>> /\ running' = {}
    BY <1>4 DEF Killed, transfer
  <2> QED
    BY <1>2, <2>1
<1>5. ASSUME NEW x \in Transfers, Finishes(x) PROVE HostInv' /\ StaysBlocked
  <2>1. UNCHANGED <<job, left, host, errors>> /\ running' \subseteq running
    BY <1>5 DEF Finishes, Data, Unmodified, Page, Unresolved, Stops, transfer
  <2> QED
    BY <1>2, <2>1
<1>6. ASSUME NEW x \in Transfers, Takes(x, FirstServer(x)), job' = job, errors' = errors,
             running' = running \/ (FirstServer(x).host # NoHost /\ running' = running \cup {x})
      PROVE  HostInv' /\ StaysBlocked
  <2>0. errors \in [Hosts -> Int]
    BY DEF HostInv
  <2>1. /\ FirstServer(x).left \in ServerLists
        /\ \/ Payload(x).url # NoHost \/ FirstServer(x).host = NoHost
           \/ errors[FirstServer(x).host] # -1
    BY <2>0, NextServerGood DEF FirstServer, HostInv, Transfers
  <2>2. left' \in [Payloads -> ServerLists]
    BY <1>6, <2>1 DEF Takes, HostInv
  <2>3. DOMAIN host' = DOMAIN host /\ host'[x] = FirstServer(x).host
    BY <1>6 DEF Takes, HostInv
  <2>4. CASE running' = running
    BY <1>6, <2>0, <2>2, <2>3, <2>4, StartsNone
  <2>5. CASE FirstServer(x).host # NoHost /\ running' = running \cup {x}
    BY <1>6, <2>0, <2>1, <2>2, <2>3, <2>5, StartsOne
  <2> QED
    BY <1>6, <2>4, <2>5
<1>7. ASSUME NEW x \in Transfers, AddPayload(x) PROVE HostInv' /\ StaysBlocked
  <2>1. /\ Takes(x, FirstServer(x)) /\ job' = job /\ errors' = errors
        /\ running' = running \/ (FirstServer(x).host # NoHost /\ running' = running \cup {x})
    BY <1>7 DEF AddPayload
  <2> QED
    BY <1>6, <2>1
<1>8. ASSUME NEW x \in Transfers, AddFails(x) PROVE HostInv' /\ StaysBlocked
  <2>1. Takes(x, FirstServer(x)) /\ job' = job /\ errors' = errors /\ running' = running
    BY <1>8 DEF AddFails
  <2> QED
    BY <1>6, <2>1
<1>9. ASSUME NEW x \in Transfers, Check(x) PROVE HostInv' /\ StaysBlocked
  BY <1>9, CheckKeeps
<1> QED
  BY <1>1, <1>3, <1>4, <1>5, <1>7, <1>8, <1>9 DEF Next, Steps

\* A host with a hard error stays blocked, and no transfer of a file is started on it
\* from the lists of servers, in whatever order the results of the transfers come.
THEOREM HardErrorsStay == Spec => BlockedForGood
  BY HostInitially, HostStep, PTL DEF Spec, BlockedForGood
=============================================================================
