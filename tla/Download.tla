------------------------------ MODULE Download ------------------------------
(***************************************************************************)
(* _alpm_download (dload.c): several files at a time from lists of         *)
(* servers, with retries, resumed files, signatures and limits of size,    *)
(* in the process itself, in a sandboxed child that works in a directory   *)
(* of its own, or through the front end's callback.                        *)
(*                                                                         *)
(* A transfer is the download of a file or of its signature.  The content  *)
(* of a file is a sequence of pieces: "data", or "page" for a piece of the *)
(* error page that a server has sent instead.  What curl and the servers   *)
(* do is a choice; what the code makes of it is not.                       *)
(***************************************************************************)
EXTENDS Integers, Sequences, FiniteSets

CONSTANTS
    Jobs,               \* what _alpm_download may be called with
    Hosts,
    ServerErrorLimit,   \* server_error_limit
    MaxPieces,          \* bound: the pieces one transfer brings at most
    NoFile, NoHost

ASSUME LimitAssumption == ServerErrorLimit \in Nat \ {0}
ASSUME HostAssumption == NoHost \notin Hosts
ASSUME JobAssumption ==
    \A j \in Jobs : /\ j.streams \in Nat
                    /\ \A p \in DOMAIN j.payload : /\ j.payload[p].cache \in Seq(Hosts)
                                                   /\ j.payload[p].servers \in Seq(Hosts)

VARIABLES
    job,        \* the payloads, their order, the options of the handle; never changes
    disk,       \* the files x.part and x of each transfer x in "cache" (localpath)
                \* and in "tmp" (temporary_localpath)
    dated,      \* payloads with mtime_existing_file
    queue,      \* p: the payloads that are not started yet
    active,     \* active_downloads_num
    running,    \* the transfers in the curl multi handle
    msgs,       \* the finished transfers with their results, not yet read
    left,       \* cache_servers and servers of each payload
    host,       \* the host of fileurl
    lenient,    \* request_errors_ok
    base,       \* initial_size
    doomed,     \* unlink_on_fail
    errors,     \* handle->server_errors; a host that is not listed counts 0
    over,       \* dload_interrupted
    outcome,    \* what curl_check_finished_download has returned for each transfer
    soiled,     \* transfers that broke off within an error page; only observes
    updated, err, ret, pc

transfer == <<left, host, lenient, base, doomed>>
loop == <<queue, active, running, msgs, updated, err>>
vars == <<job, disk, dated, loop, transfer, errors, over, outcome, soiled, ret, pc>>

Payloads == DOMAIN job.payload
Transfers == Payloads \X {"file", "sig"}
Payload(x) == job.payload[x[1]]
IsSig(x) == x[2] = "sig"

\* curl_check_finished_download fills in the payload of a signature: it always has a
\* destfile_name, it is not resumed and its size is at most one piece (16KiB).
Optional(x) == IF IsSig(x) THEN Payload(x).sig = "optional" ELSE Payload(x).optional
AllowResume(x) == ~IsSig(x) /\ Payload(x).resume
MaxSize(x) == IF IsSig(x) THEN 1 ELSE Payload(x).size
Named(x) == IsSig(x) \/ Payload(x).named
Conditional(x) == ~IsSig(x) /\ ~Payload(x).force /\ x[1] \in dated

\* Without the sandbox temporary_localpath is localpath itself.
Dir == IF job.sandbox THEN "tmp" ELSE "cache"
Part(x) == disk[Dir][x].part
Empty(f) == f = NoFile \/ f = <<>>

Pieces(k, n) == [i \in 1..n |-> k]

\* The transfers, the files and the counts of curl_download_internal have their types.
TypeOK ==
    /\ disk \in [{"cache", "tmp"} -> [Transfers ->
                    [part : Seq({"data", "page"}) \cup {NoFile},
                     whole : Seq({"data", "page"}) \cup {NoFile}]]]
    /\ dated \subseteq Payloads
    /\ active \in Nat /\ running \subseteq Transfers
    /\ \A n \in DOMAIN msgs : msgs[n][1] \in Transfers
    /\ host \in [Transfers -> Hosts \cup {NoHost}]
    /\ lenient \in [Transfers -> BOOLEAN] /\ doomed \in [Transfers -> BOOLEAN]
    /\ base \in [Transfers -> Nat]
    /\ errors \in [Hosts -> -1..ServerErrorLimit]
    /\ {over, updated, err} \subseteq BOOLEAN /\ soiled \subseteq Transfers
    /\ outcome \in [Transfers -> {"none", "0", "1", "-1", "-2"}]
    /\ ret \in {"none", "0", "1", "-1"}
    /\ pc \in {"prepare", "fetch", "fork", "fill", "perform", "read", "exit", "finalize", "done"}

Init ==
    /\ job \in Jobs
    /\ disk = [d \in {"cache", "tmp"} |-> [x \in Transfers |->
                  IF d = "tmp" \/ IsSig(x) THEN [part |-> NoFile, whole |-> NoFile]
                  ELSE [part |-> Payload(x).part, whole |-> Payload(x).whole]]]
    /\ dated = {} /\ queue = <<>> /\ active = 0 /\ running = {} /\ msgs = <<>>
    /\ left = [p \in Payloads |-> [cache |-> job.payload[p].cache,
                                   servers |-> job.payload[p].servers]]
    /\ host = [x \in Transfers |-> NoHost]
    /\ lenient = [x \in Transfers |-> FALSE]
    /\ base = [x \in Transfers |-> 0]
    /\ doomed = [x \in Transfers |-> Payload(x).unlink]
    /\ errors = [h \in Hosts |-> 0] /\ over = FALSE /\ soiled = {}
    /\ outcome = [x \in Transfers |-> "none"]
    /\ updated = FALSE /\ err = FALSE /\ ret = "none" /\ pc = "prepare"
-----------------------------------------------------------------------------
(* Preparation.                                                            *)

\* alpm_list_msort with compare_dload_payload_sizes: the largest first, and stable.
BySize(order) ==
    LET Before(i, j) == \/ job.payload[order[i]].size > job.payload[order[j]].size
                        \/ /\ job.payload[order[i]].size = job.payload[order[j]].size
                           /\ i < j
        Place(i) == Cardinality({j \in DOMAIN order : Before(j, i)}) + 1
    IN [n \in DOMAIN order |-> order[CHOOSE i \in DOMAIN order : Place(i) = n]]

\* prepare_resumable_downloads.  In the sandbox the partial file of a payload moves to
\* the directory of the child; the loop returns after the first chown that succeeds.
Prepare ==
    /\ pc = "prepare"
    /\ LET order == job.order
           resumable == {i \in DOMAIN order :
                            ~Empty(disk["cache"][<<order[i], "file">>].part)}
           stops == {i \in DOMAIN order : job.sandbox /\ i \in resumable}
           seen == {order[i] : i \in {k \in DOMAIN order : \A j \in stops : k <= j}}
           moved == {<<order[i], "file">> : i \in {k \in stops : order[k] \in seen}}
       IN /\ dated' = {p \in seen : /\ job.payload[p].named
                                    /\ ~Empty(disk["cache"][<<p, "file">>].whole)}
          /\ disk' = [d \in DOMAIN disk |-> [x \in Transfers |->
                         IF x \notin moved THEN disk[d][x]
                         ELSE [disk[d][x] EXCEPT
                                  !.part = IF d = "tmp" THEN disk["cache"][x].part
                                                        ELSE NoFile]]]
    /\ queue' = IF job.fetchcb THEN job.order ELSE BySize(job.order)
    /\ pc' = IF job.fetchcb THEN "fetch" ELSE IF job.sandbox THEN "fork" ELSE "fill"
    /\ UNCHANGED <<job, active, running, msgs, updated, err, transfer, errors, over,
                   outcome, soiled, ret>>

\* The child is forked and enters the sandbox, or it cannot and the result is -1.
Fork ==
    /\ pc = "fork"
    /\ \/ pc' = "fill" /\ UNCHANGED ret
       \/ pc' = "finalize" /\ ret' = "-1"
    /\ UNCHANGED <<job, disk, dated, loop, transfer, errors, over, outcome, soiled>>
-----------------------------------------------------------------------------
(* Servers.                                                                *)

Hard(e) == {h \in Hosts : e[h] < 0}
Skipped(e) == {h \in Hosts : e[h] < 0 \/ e[h] >= ServerErrorLimit}

\* server_soft_error and server_hard_error.
SoftError(e, h) == IF h \in Skipped(e) THEN e ELSE [e EXCEPT ![h] = @ + 1]
HardError(e, h) == [e EXCEPT ![h] = -1]

\* The list from its first server on that is not to be skipped.
From(list, skip) ==
    LET good == {i \in DOMAIN list : list[i] \notin skip}
    IN IF good = {} THEN <<>>
       ELSE SubSeq(list, CHOOSE i \in good : \A j \in good : i <= j, Len(list))

\* payload_next_server: cache servers are skipped for hard errors only, and a failing
\* request to one of them is not an error.
NextServer(x, e) ==
    LET c == From(left[x[1]].cache, Hard(e))
        s == From(left[x[1]].servers, Skipped(e))
    IN IF IsSig(x) THEN [host |-> NoHost, left |-> left[x[1]], ok |-> FALSE]
       ELSE IF c # <<>>
       THEN [host |-> Head(c), ok |-> TRUE,
             left |-> [left[x[1]] EXCEPT !.cache = Tail(c)]]
       ELSE IF s # <<>>
       THEN [host |-> Head(s), ok |-> Payload(x).optional,
             left |-> [cache |-> <<>>, servers |-> Tail(s)]]
       ELSE [host |-> NoHost, ok |-> FALSE, left |-> [cache |-> <<>>, servers |-> <<>>]]
-----------------------------------------------------------------------------
(* curl_add_payload, in the loop that fills the free streams.              *)

\* A payload with a fileurl goes to the host of that URL, whatever its errors.
FirstServer(x) ==
    IF Payload(x).url = NoHost THEN NextServer(x, errors)
    ELSE [host |-> Payload(x).url, ok |-> Payload(x).optional, left |-> left[x[1]]]

\* curl_set_handle_opts: continue the partial file or start from scratch.
Resumes(x) == ~Conditional(x) /\ AllowResume(x) /\ Part(x) # NoFile
Size(x) == IF Resumes(x) THEN Len(Part(x)) ELSE base[x]

Filling(x) == /\ pc = "fill" /\ active < job.streams /\ queue # <<>>
              /\ x = <<Head(queue), "file">>

Takes(x, server) ==
    /\ left' = [left EXCEPT ![x[1]] = server.left]
    /\ host' = [host EXCEPT ![x] = server.host]
    /\ lenient' = [lenient EXCEPT ![x] = server.ok]

AddPayload(x) ==
    /\ Filling(x)
    /\ FirstServer(x).host # NoHost
    /\ Takes(x, FirstServer(x))
    /\ base' = [base EXCEPT ![x] = Size(x)]
    /\ \/ /\ MaxSize(x) = Size(x) /\ MaxSize(x) # 0     \* the .part file is complete
          /\ UNCHANGED <<running, disk>>
       \/ /\ MaxSize(x) # Size(x) \/ MaxSize(x) = 0
          /\ running' = running \cup {x}
          /\ disk' = IF Resumes(x) THEN disk ELSE [disk EXCEPT ![Dir][x].part = <<>>]
    /\ queue' = Tail(queue) /\ active' = active + 1
    /\ UNCHANGED <<job, dated, msgs, updated, err, doomed, errors, over, outcome,
                   soiled, ret, pc>>

\* There is no server left, the URL has no host, or the file cannot be opened: no more
\* payloads are started.
AddFails(x) ==
    /\ Filling(x)
    /\ Takes(x, FirstServer(x))
    /\ queue' = <<>> /\ err' = TRUE /\ active' = active + 1
    /\ UNCHANGED <<job, disk, dated, running, msgs, updated, base, doomed, errors, over,
                   outcome, soiled, ret, pc>>

FillEnds ==
    /\ pc = "fill" /\ ~(active < job.streams /\ queue # <<>>)
    /\ pc' = "perform"
    /\ UNCHANGED <<job, disk, dated, loop, transfer, errors, over, outcome, soiled, ret>>
-----------------------------------------------------------------------------
(* curl_multi_perform, curl_multi_wait and dload_progress_cb.              *)

Stops(x, result, part, interrupts) ==
    /\ pc = "perform" /\ x \in running
    /\ running' = running \ {x}
    /\ msgs' = Append(msgs, <<x, result>>)
    /\ disk' = [disk EXCEPT ![Dir][x].part = part]
    /\ over' = (over \/ interrupts)
    /\ soiled' = IF result = "broken" /\ part # <<>> /\ part[Len(part)] = "page"
                 THEN soiled \cup {x} ELSE soiled
    /\ UNCHANGED <<job, dated, queue, active, updated, err, transfer, errors, outcome,
                   ret, pc>>

TooLarge(x, n) == MaxSize(x) # 0 /\ base[x] + n > MaxSize(x)

\* The server sends n pieces of the file.  One that outgrows max_size is aborted by
\* dload_progress_cb, and from then on so is every other transfer, except one that
\* receives an error page; a file of unknown size is not measured, and curl itself refuses
\* one announced larger than max_size.
Data(x) ==
    \E n \in 0..MaxPieces :
       \/ /\ ~over /\ n > 0
          /\ Stops(x, "ok", Part(x) \o Pieces("data", n), FALSE)
       \/ /\ ~over /\ ~TooLarge(x, n)
          /\ \E result \in {"short", "broken"} :
                Stops(x, result, Part(x) \o Pieces("data", n), FALSE)
       \/ /\ ~over /\ TooLarge(x, n) /\ n <= MaxSize(x)
          /\ Stops(x, "aborted", Part(x) \o Pieces("data", n), TRUE)
       \/ over /\ Stops(x, "aborted", Part(x) \o Pieces("data", n), FALSE)

\* The file is not newer than the one in the cache.
Unmodified(x) == ~over /\ Conditional(x) /\ Stops(x, "unmodified", Part(x), FALSE)

\* The server answers with an error and a page of n pieces, which curl writes to the file.
Page(x) == \E n \in 0..1, result \in {"page", "broken"} :
              Stops(x, result, Part(x) \o Pieces("page", n), FALSE)

Unresolved(x) == Stops(x, "nohost", Part(x), FALSE)

\* Mutant: the number of active downloads is not taken from curl.
PerformedKeepsCount ==
    /\ pc = "perform"
    /\ pc' = "read"
    /\ UNCHANGED <<job, disk, dated, loop, transfer, errors, over, outcome, soiled, ret>>

\* The calls return, with or without an error of curl.
Performed ==
    /\ pc = "perform"
    /\ active' = Cardinality(running)
    /\ \/ UNCHANGED <<queue, err>>
       \/ queue' = <<>> /\ err' = TRUE
    /\ pc' = "read"
    /\ UNCHANGED <<job, disk, dated, running, msgs, updated, transfer, errors, over,
                   outcome, soiled, ret>>
-----------------------------------------------------------------------------
(* curl_check_finished_download, for one message.                          *)

Reading(x, result) == pc = "read" /\ msgs # <<>> /\ Head(msgs) = <<x, result>>

With(x, part) == [disk EXCEPT ![Dir][x].part = part]

\* Mutant: a transfer that is tried again is not counted.
RetryUncounted(x, e, d) ==
    LET next == NextServer(x, e)
    IN /\ next.host # NoHost
       /\ Takes(x, next)
       /\ base' = IF AllowResume(x) THEN [base EXCEPT ![x] = Len(d[Dir][x].part)] ELSE base
       /\ disk' = IF AllowResume(x) THEN d ELSE With(x, <<>>)
       /\ running' = running \cup {x}
       /\ errors' = e /\ msgs' = Tail(msgs)
       /\ UNCHANGED <<active, queue, updated, err, doomed, outcome>>

\* curl_retry_next_server, with the errors e and the files d as they are now.
Retry(x, e, d) ==
    LET next == NextServer(x, e)
    IN /\ next.host # NoHost
       /\ Takes(x, next)
       /\ base' = IF AllowResume(x) THEN [base EXCEPT ![x] = Len(d[Dir][x].part)] ELSE base
       /\ disk' = IF AllowResume(x) THEN d ELSE With(x, <<>>)
       /\ running' = running \cup {x} /\ active' = active + 1
       /\ errors' = e /\ msgs' = Tail(msgs)
       /\ UNCHANGED <<queue, updated, err, doomed, outcome>>


\* The label cleanup, and what the loop does with the result rc.
Cleanup(x, rc, d, doom) ==
    LET r == IF rc = "-1" /\ Optional(x) THEN "-2" ELSE rc
        part == d[Dir][x].part
        renamed == rc = "0" /\ Named(x)
        gone == (rc = "-1" \/ over) /\ doom
    IN /\ disk' = [d EXCEPT ![Dir][x] =
                      [part |-> IF renamed \/ gone THEN NoFile ELSE part,
                       whole |-> IF renamed THEN part ELSE @.whole]]
       /\ outcome' = [outcome EXCEPT ![x] = r]
       /\ queue' = IF r = "-1" THEN <<>> ELSE queue
       /\ err' = (err \/ r = "-1")
       /\ updated' = (updated \/ r = "0")
       /\ msgs' = Tail(msgs)

GiveUp(x, e, d, doom) ==
    /\ NextServer(x, e).host = NoHost
    /\ left' = [left EXCEPT ![x[1]] = NextServer(x, e).left]
    /\ Cleanup(x, "-1", d, doom)
    /\ errors' = e /\ doomed' = [doomed EXCEPT ![x] = doom]
    /\ UNCHANGED <<running, active, host, lenient, base>>

Tolerant(x) == IF lenient[x] THEN errors ELSE SoftError(errors, host[x])

\* Mutant: the error page stays in the file.
CheckPageKeeps(x) ==
    /\ Reading(x, "page")
    /\ Retry(x, Tolerant(x), disk) \/ GiveUp(x, Tolerant(x), disk, TRUE)
    /\ UNCHANGED <<job, dated, over, soiled, ret, pc>>

\* An error page is removed from the file before the next server is asked.
CheckPage(x) ==
    LET d == With(x, SubSeq(Part(x), 1, base[x]))
    IN /\ Reading(x, "page")
       /\ Retry(x, Tolerant(x), d) \/ GiveUp(x, Tolerant(x), d, TRUE)
       /\ UNCHANGED <<job, dated, over, soiled, ret, pc>>

CheckUnresolved(x) ==
    LET e == HardError(errors, host[x])
    IN /\ Reading(x, "nohost")
       /\ Retry(x, e, disk) \/ GiveUp(x, e, disk, doomed[x])
       /\ UNCHANGED <<job, dated, over, soiled, ret, pc>>

CheckBroken(x) ==
    /\ Reading(x, "broken")
    /\ \/ Retry(x, Tolerant(x), disk)
       \/ GiveUp(x, Tolerant(x), disk, doomed[x] \/ Part(x) = <<>>)
    /\ UNCHANGED <<job, dated, over, soiled, ret, pc>>

CheckAborted(x) ==
    /\ Reading(x, "aborted")
    /\ errors' = SoftError(errors, host[x])
    /\ Cleanup(x, "-1", disk, TRUE)
    /\ doomed' = [doomed EXCEPT ![x] = TRUE]
    /\ UNCHANGED <<job, dated, running, active, left, host, lenient, base, over, soiled,
                   ret, pc>>

\* The transfer was a success: start that of the signature, from the same host, and then
\* look at what has been received.  Whether the signature can be started is not asked.
CheckReceived(x) ==
    \E result \in {"ok", "unmodified", "short"} :
       LET rc == CASE result = "ok" -> "0" [] result = "unmodified" -> "1"
                   [] result = "short" -> "-1"
           d == IF rc = "1" THEN With(x, NoFile) ELSE disk
           s == <<x[1], "sig">>
       IN /\ Reading(x, result)
          /\ \/ /\ IsSig(x) \/ Payload(x).sig = "no"
                /\ Cleanup(x, rc, d, doomed[x])
                /\ UNCHANGED <<running, active, host, lenient, doomed>>
             \/ /\ ~IsSig(x) /\ Payload(x).sig # "no"
                /\ active' = active + 1
                /\ host' = [host EXCEPT ![s] = host[x]]
                /\ lenient' = [lenient EXCEPT ![s] = Optional(s)]
                /\ doomed' = [doomed EXCEPT ![s] = doomed[x]]
                /\ \/ /\ running' = running \cup {s}
                      /\ Cleanup(x, rc, [d EXCEPT ![Dir][s].part = <<>>], doomed[x])
                   \/ Cleanup(x, rc, d, doomed[x]) /\ UNCHANGED running
          /\ UNCHANGED <<job, dated, left, base, errors, over, soiled, ret, pc>>

ReadEnds ==
    /\ pc = "read" /\ msgs = <<>>
    /\ pc' = IF active > 0 \/ queue # <<>> THEN "fill" ELSE "exit"
    /\ UNCHANGED <<job, disk, dated, loop, transfer, errors, over, outcome, soiled, ret>>

Exit ==
    /\ pc = "exit"
    /\ ret' = IF err THEN "-1" ELSE IF updated THEN "0" ELSE "1"
    /\ pc' = IF job.sandbox THEN "finalize" ELSE "done"
    /\ UNCHANGED <<job, disk, dated, loop, transfer, errors, over, outcome, soiled>>
-----------------------------------------------------------------------------
(* The sandboxed child is killed; its transfers have brought some pieces.  *)

Killed ==
    /\ job.sandbox /\ pc \in {"fill", "perform", "read"}
    /\ \E n \in 0..1 : disk' =
          [disk EXCEPT !["tmp"] = [x \in Transfers |->
              IF x \in running
              THEN [part |-> Part(x) \o Pieces("data", n), whole |-> disk["tmp"][x].whole]
              ELSE disk["tmp"][x]]]
    /\ running' = {} /\ msgs' = <<>> /\ queue' = <<>> /\ active' = 0
    /\ ret' = "-1" /\ pc' = "finalize"
    /\ UNCHANGED <<job, dated, updated, err, transfer, errors, over, outcome, soiled>>
-----------------------------------------------------------------------------
(* The front end's fetchcb: for each payload the servers in turn until one *)
(* has the file, then the signature from that server.                      *)

Fetch ==
    /\ pc = "fetch" /\ queue # <<>>
    /\ \E f, g \in {"0", "1", "-1"} :
          LET x == <<Head(queue), "file">>
              s == <<Head(queue), "sig">>
              wanted == f # "-1" /\ Payload(x).sig # "no"
              r == IF wanted /\ ~Optional(s) THEN g ELSE f
              fails == r = "-1" /\ ~Optional(x)
          IN /\ wanted \/ g = "-1"
             /\ Payload(x).url # NoHost \/ left[x[1]].cache \o left[x[1]].servers # <<>>
                \/ f = "-1"
             /\ disk' = [disk EXCEPT
                   ![Dir][x].whole = IF f = "0" THEN <<"data">> ELSE @,
                   ![Dir][s].whole = IF wanted /\ g = "0" THEN <<"data">> ELSE @]
             /\ outcome' = [outcome EXCEPT ![x] = IF r = "-1" /\ Optional(x) THEN "-2" ELSE r]
             /\ updated' = (updated \/ r = "0")
             /\ queue' = Tail(queue)
             /\ ret' = IF fails THEN "-1" ELSE ret
             /\ pc' = IF fails THEN "done" ELSE pc
    /\ UNCHANGED <<job, dated, active, running, msgs, err, transfer, errors, over, soiled>>

FetchEnds ==
    /\ pc = "fetch" /\ queue = <<>>
    /\ ret' = IF updated THEN "0" ELSE "1"
    /\ pc' = IF job.sandbox THEN "finalize" ELSE "done"
    /\ UNCHANGED <<job, disk, dated, loop, transfer, errors, over, outcome, soiled>>
-----------------------------------------------------------------------------
(* finalize_download_locations: in the sandbox the files move to the cache *)
(* and the temporary directory goes.                                       *)

\* The file of x that is looked at: the whole one, else the partial one.
Found(x) == IF disk["tmp"][x].whole # NoFile /\ Named(x) THEN "whole" ELSE "part"

\* Empty files are removed; the files of the payloads in job.stuck cannot be renamed.
Moves(x) ==
    /\ IsSig(x) => Payload(x).sig # "no"
    /\ ~Empty(disk["tmp"][x][Found(x)])

\* Mutant: only the finished files are moved.
FinalizeWhole ==
    /\ pc = "finalize"
    /\ disk' = [cache |-> [x \in Transfers |->
                              IF Moves(x) /\ x[1] \notin job.stuck
                              THEN [disk["cache"][x] EXCEPT !.whole = disk["tmp"][x].whole]
                              ELSE disk["cache"][x]],
                tmp |-> [x \in Transfers |-> [part |-> NoFile, whole |-> NoFile]]]
    /\ ret' = IF ret = "0" /\ job.stuck # {} THEN "-1" ELSE ret
    /\ pc' = "done"
    /\ UNCHANGED <<job, dated, loop, transfer, errors, over, outcome, soiled>>

Finalize ==
    /\ pc = "finalize"
    /\ LET lost == \E x \in Transfers : /\ ~IsSig(x) /\ Moves(x)
                                        /\ x[1] \in job.stuck \ dated
       IN ret' = IF lost /\ ret = "0" THEN "-1" ELSE ret
    /\ disk' = [cache |-> [x \in Transfers |->
                              IF Moves(x) /\ x[1] \notin job.stuck
                              THEN [disk["cache"][x] EXCEPT ![Found(x)] = disk["tmp"][x][Found(x)]]
                              ELSE disk["cache"][x]],
                tmp |-> [x \in Transfers |-> [part |-> NoFile, whole |-> NoFile]]]
    /\ pc' = "done"
    /\ UNCHANGED <<job, dated, loop, transfer, errors, over, outcome, soiled>>
-----------------------------------------------------------------------------
Finishes(x) == Data(x) \/ Unmodified(x) \/ Page(x) \/ Unresolved(x)

Check(x) == CheckPage(x) \/ CheckUnresolved(x) \/ CheckBroken(x) \/ CheckAborted(x)
            \/ CheckReceived(x)

Steps == \/ Prepare \/ Fork \/ FillEnds \/ Performed \/ ReadEnds \/ Exit
         \/ Fetch \/ FetchEnds \/ Finalize
         \/ \E x \in Transfers : AddPayload(x) \/ AddFails(x) \/ Check(x)

Next == Steps \/ Killed \/ \E x \in Transfers : Finishes(x)

Spec == Init /\ [][Next]_vars
-----------------------------------------------------------------------------
(* Properties.                                                             *)

\* There are never more transfers than ParallelDownloads, although retries and signatures
\* are started outside of the loop that fills the free streams.
StreamsBounded == Cardinality(running) <= job.streams

\* The loop of curl_download_internal does not end while a transfer is running or a result
\* is unread: active_downloads_num, overwritten by curl and counted up by the handlers,
\* never falls short of the transfers there are.
EndsIdle == pc \in {"exit", "finalize", "done"} => running = {} /\ msgs = <<>>

\* After a hard error a host stays blocked, whatever soft errors of other transfers follow,
\* and none of the remaining servers is asked on it.
StaysBlocked ==
    /\ \A h \in Hosts : errors[h] = -1 => errors'[h] = -1
    /\ \A x \in Transfers : /\ ~IsSig(x) /\ Payload(x).url = NoHost
                            /\ x \in running' \ running
                            => errors'[host'[x]] # -1
\* That holds of every step: server_errors keeps a hard error (server_hard_error).
BlockedForGood == [][StaysBlocked]_vars

\* A result other than -1 means that no required file or signature has failed and that
\* every payload has been dealt with: downloaded, found up to date, optional, or complete
\* in its partial file already.
RequiredServed ==
    pc = "done" /\ ret # "-1" =>
       \A x \in Transfers :
          /\ outcome[x] # "-1"
          /\ ~IsSig(x) /\ outcome[x] = "none" =>
                Payload(x).size # 0 /\ base[x] = Payload(x).size

\* No error page gets into a finished file: what curl has written of it is cut off before
\* the next server continues the file.  The exception is a transfer that broke off within
\* the page, which cannot be told from a broken download.
NoErrorPages ==
    \A x \in Transfers \ soiled, d \in {"cache", "tmp"} :
       LET f == disk[d][x].whole
       IN f # NoFile => \A i \in DOMAIN f : f[i] = "data"

\* In the sandbox nothing that was received is lost with the temporary directory, even if
\* the child was killed in the middle of the transfers.
NothingLost ==
    pc = "finalize" =>
       \A x \in Transfers : \A n \in {"part", "whole"} :
          /\ ~Empty(disk["tmp"][x][n]) /\ x[1] \notin job.stuck /\ (IsSig(x) => Payload(x).sig # "no")
          => disk'["cache"][x][n] = disk["tmp"][x][n]
=============================================================================
