------------------------------ MODULE Retrieve ------------------------------
(***************************************************************************)
(* The three callers of _alpm_download: download_files (sync.c) for the    *)
(* packages of a transaction, alpm_db_update (be_sync.c) for databases and *)
(* alpm_fetch_pkgurl (dload.c) for URLs.  Each decides what has to be      *)
(* downloaded, describes it in payloads and looks at the result.           *)
(***************************************************************************)
EXTENDS Download

CONSTANT Calls      \* what the callers are called with, and what the cache holds

VARIABLES
    call,       \* never changes
    got         \* what the caller returns

rvars == <<vars, call, got>>

Items(c) == DOMAIN c.items

\* compute_download_size: nothing for a file in the cache, else what its partial file lacks.
DownloadSize(item) ==
    IF item.file # NoFile THEN 0
    ELSE LET has == IF item.part = NoFile THEN 0 ELSE Len(item.part)
         IN IF has > item.size THEN 0 ELSE item.size - has

\* find_dl_candidates; alpm_db_update; alpm_fetch_pkgurl.  A file without the signature
\* that its level asks for is downloaded again.
NeedsDownload(c, i) ==
    LET item == c.items[i]
        missing == item.file = NoFile \/ (item.level # "no" /\ ~item.sighere)
    IN CASE c.kind = "packages" -> item.sync /\ (DownloadSize(item) # 0 \/ missing)
         [] c.kind = "databases" -> item.sync
         [] c.kind = "urls" -> missing

\* The caller gives up at once: a repository without servers, the lock of the database,
\* too little space, no directory to download to.
Refuses(c) ==
    \/ ~c.dir
    \/ /\ c.kind = "packages"
       /\ \/ \E i \in Items(c) : c.items[i].sync /\ c.items[i].servers = <<>>
          \/ ~c.space /\ \E i \in Items(c) : NeedsDownload(c, i)
    \/ /\ c.kind = "databases"
       /\ c.locked \/ \E i \in Items(c) : NeedsDownload(c, i) /\ c.items[i].servers = <<>>

\* The fields of struct dload_payload that the callers set.
PackagePayload(item) ==
    [cache |-> item.cache, servers |-> item.servers, url |-> NoHost, size |-> item.size,
     resume |-> TRUE, optional |-> FALSE, sig |-> item.level, unlink |-> FALSE,
     force |-> FALSE, named |-> TRUE, part |-> item.part, whole |-> item.file]
DatabasePayload(item, force) ==
    [cache |-> <<>>, servers |-> item.servers, url |-> NoHost, size |-> MaxPieces,
     resume |-> FALSE, optional |-> FALSE, sig |-> item.level, unlink |-> TRUE,
     force |-> force \/ item.invalid, named |-> TRUE, part |-> item.part, whole |-> item.file]
UrlPayload(item) ==
    [cache |-> <<>>, servers |-> <<>>, url |-> item.url, size |-> 0,
     resume |-> item.named, optional |-> FALSE, sig |-> item.level, unlink |-> ~item.named,
     force |-> FALSE, named |-> item.named, part |-> item.part, whole |-> item.file]

JobOf(c) ==
    LET needed == SelectSeq([i \in Items(c) |-> i], LAMBDA i : NeedsDownload(c, i))
    IN [payload |-> [i \in {needed[n] : n \in DOMAIN needed} |->
                        CASE c.kind = "packages" -> PackagePayload(c.items[i])
                          [] c.kind = "databases" -> DatabasePayload(c.items[i], c.force)
                          [] c.kind = "urls" -> UrlPayload(c.items[i])],
        order |-> needed, streams |-> c.streams, sandbox |-> c.sandbox,
        fetchcb |-> c.fetchcb, stuck |-> c.stuck]

Downloads == job.order # <<>> /\ ~Refuses(call)

InitCall == Init /\ call \in Calls /\ job = JobOf(call) /\ got = "none"

InCache(i) == disk["cache"][<<i, "file">>].whole # NoFile
Result(i) == IF call.items[i].named THEN InCache(i)
             ELSE disk["cache"][<<i, "file">>].part # NoFile

\* The caller returns without a download, or with what it makes of its result: databases
\* are validated, which SyncLoad models and which may fail; URLs have to be in the cache.
Return ==
    /\ got = "none"
    /\ \/ /\ ~Downloads
          /\ got' = IF Refuses(call) THEN "-1" ELSE "0"
       \/ /\ Downloads /\ pc = "done"
          /\ got' \in CASE call.kind = "packages" -> {ret}
                        [] call.kind = "databases" -> {ret, "-1"}
                        [] call.kind = "urls" ->
                              {IF ret # "-1" /\ \A i \in Payloads : Result(i) THEN "0" ELSE "-1"}
    /\ UNCHANGED <<vars, call>>

NextCall == (Downloads /\ Next /\ UNCHANGED <<call, got>>) \/ Return

\* The code goes on by itself.  A transfer comes to an end although it only moves within
\* curl_multi_perform: curl gives it up when it does not connect within CONNECTTIMEOUT or
\* stays below LOW_SPEED_LIMIT for LOW_SPEED_TIME.
CallFairness ==
    /\ WF_rvars(Downloads /\ Steps /\ UNCHANGED <<call, got>>) /\ WF_rvars(Return)
    /\ \A i \in UNION {Items(c) : c \in Calls}, k \in {"file", "sig"} :
          SF_rvars(/\ Downloads /\ <<i, k>> \in Transfers /\ Finishes(<<i, k>>)
                   /\ UNCHANGED <<call, got>>)
-----------------------------------------------------------------------------
\* When download_files reports success, the files of all packages from repositories are in
\* the cache.  The exceptions: a front end's callback that reports a file as up to date, and
\* a partial file that already has the full size, which curl_add_payload neither downloads
\* nor renames.
PackagesAreHere ==
    got \in {"0", "1"} /\ call.kind = "packages" /\ Downloads =>
       \A i \in Payloads :
          InCache(i) \/ call.fetchcb \/ base[<<i, "file">>] = call.items[i].size

\* Every call comes to an end.
CallEnds == <>(got # "none")

=============================================================================
