---------------------------- MODULE MCDownload ----------------------------
(* One or two files from two hosts, one of which may be a cache server;    *)
(* partial files of every length; databases; URLs with and without a name. *)
(* The verification of one or two targets, or a database, with two keys.   *)
EXTENDS Retrieve, SyncLoad

CONSTANTS h1, h2, k1, k2

Item == [sync |-> TRUE, file |-> NoFile, part |-> NoFile, size |-> 2, level |-> "no",
         sighere |-> FALSE, cache |-> <<>>, servers |-> <<h1, h2>>, invalid |-> FALSE,
         url |-> h1, named |-> TRUE]
One == <<"data">>

Call == [kind |-> "packages", items |-> <<Item>>, streams |-> 1, sandbox |-> FALSE,
         fetchcb |-> FALSE, stuck |-> {}, dir |-> TRUE, space |-> TRUE, locked |-> FALSE,
         force |-> FALSE]
Sandboxed == [Call EXCEPT !.sandbox = TRUE]
Two == [Call EXCEPT !.streams = 2]
H1 == [Item EXCEPT !.servers = <<h1>>]

MCCalls ==
    {   \* packages
        [Call EXCEPT !.items = <<[H1 EXCEPT !.size = 1], Item>>],
        [Two EXCEPT !.items = <<[H1 EXCEPT !.cache = <<h1>>], [H1 EXCEPT !.size = 1]>>],
        [Sandboxed EXCEPT !.items = <<[Item EXCEPT !.cache = <<h2>>, !.part = One]>>],
        [Sandboxed EXCEPT !.items = <<[Item EXCEPT !.part = One]>>, !.stuck = {1}],
        [Sandboxed EXCEPT !.items = <<[Item EXCEPT !.part = One \o One]>>],
        [Sandboxed EXCEPT !.streams = 2, !.items = <<[H1 EXCEPT !.part = One],
            [H1 EXCEPT !.servers = <<h2>>, !.part = One]>>],
        [Call EXCEPT !.items = <<[H1 EXCEPT !.file = One, !.level = "required"]>>],
        [Sandboxed EXCEPT !.fetchcb = TRUE, !.items = <<[H1 EXCEPT !.level = "required"], Item>>],
        \* nothing is downloaded
        [Call EXCEPT !.items = <<[Item EXCEPT !.file = One]>>],
        [Call EXCEPT !.items = <<[Item EXCEPT !.servers = <<>>]>>],
        [Call EXCEPT !.space = FALSE], [Call EXCEPT !.kind = "databases", !.locked = TRUE],
        \* databases
        [Call EXCEPT !.kind = "databases", !.items = <<[Item EXCEPT !.file = One, !.level = "required"]>>],
        [Sandboxed EXCEPT !.kind = "databases", !.streams = 2,
            !.items = <<[H1 EXCEPT !.file = One, !.level = "optional"],
                        [H1 EXCEPT !.servers = <<h2>>, !.file = One, !.invalid = TRUE]>>],
        \* URLs
        [Sandboxed EXCEPT !.kind = "urls", !.items = <<[Item EXCEPT !.named = FALSE, !.level = "optional"]>>],
        [Sandboxed EXCEPT !.kind = "urls", !.items = <<Item>>, !.stuck = {1}],
        [Call EXCEPT !.kind = "urls", !.fetchcb = TRUE, !.items = <<[Item EXCEPT !.level = "optional"]>>] }

MCJobs == {JobOf(c) : c \in MCCalls}
-----------------------------------------------------------------------------
Levels == [on : BOOLEAN, optional : BOOLEAN, marginal : BOOLEAN, unknown : {FALSE}]
Strict == [on |-> TRUE, optional |-> FALSE, marginal |-> FALSE, unknown |-> FALSE]
By(k) == [key |-> k, intact |-> TRUE, expired |-> FALSE]
Good == [origin |-> "sync", level |-> Strict, base64 |-> NoSig, sigfile |-> <<By(k1)>>,
         file |-> "good", sha |-> "matches", loads |-> TRUE, matches |-> TRUE]

\* Signatures by either key, intact or not, expired or not.
Sigs == {NoSig, <<By(k1)>>, <<By(k2)>>, <<By(k1), By(k2)>>,
         <<[By(k1) EXCEPT !.intact = FALSE]>>, <<[By(k1) EXCEPT !.expired = TRUE]>>}

\* One package in every condition.
Packages == { [Good EXCEPT !.level = l, !.base64 = b, !.sigfile = s, !.file = f, !.sha = c,
                           !.loads = (c # "differs"), !.matches = m] :
                 l \in Levels, b \in {NoSig, <<By(k1)>>, <<[By(k1) EXCEPT !.intact = FALSE]>>},
                 s \in {NoSig, <<By(k1)>>}, f \in {"good", "missing", "unreadable"},
                 c \in {"none", "matches", "differs"}, m \in BOOLEAN }

Keyrings == { [keys |-> [k \in {k1, k2} |-> IF k = k1 THEN a ELSE b],
               trust |-> [k \in {k1, k2} |-> IF k = k1 THEN t ELSE "full"],
               remote |-> [k \in {k1, k2} |-> IF k = k1 THEN r ELSE "good"]] :
                 a \in {"absent", "good", "expired", "disabled"}, b \in {"absent", "good"},
                 t \in {"full", "marginal", "unknown", "never"},
                 r \in {"absent", "good", "expired"} }

Request(targets, db, only, kr) ==
    [targets |-> targets, database |-> db, downloadonly |-> only, writable |-> TRUE,
     keyring |-> kr.keys, trust |-> kr.trust, remote |-> kr.remote]
Plain == [keys |-> [k \in {k1, k2} |-> IF k = k1 THEN "good" ELSE "absent"],
          trust |-> [k \in {k1, k2} |-> "full"], remote |-> [k \in {k1, k2} |-> "good"]]

MCRequests ==
    {Request(<<p>>, FALSE, only, Plain) : p \in Packages, only \in BOOLEAN}
    \cup {Request(<<[Good EXCEPT !.sigfile = s]>>, FALSE, TRUE, kr) : s \in Sigs, kr \in Keyrings}
    \cup {Request(<<[Good EXCEPT !.sigfile = s, !.level = l]>>, TRUE, FALSE, kr) :
             s \in Sigs, kr \in Keyrings, l \in {Strict, [Strict EXCEPT !.optional = TRUE]}}
    \cup {Request(<<[Good EXCEPT !.sigfile = s, !.sha = c], [Good EXCEPT !.origin = o, !.sigfile = <<By(k2)>>,
                    !.matches = m]>>, FALSE, FALSE, Plain) :
             s \in Sigs, o \in {"file", "sync"}, c \in {"matches", "differs"}, m \in BOOLEAN}
    \cup {[Request(<<[Good EXCEPT !.file = "missing"]>>, TRUE, FALSE, Plain) EXCEPT !.writable = FALSE],
          [Request(<<[Good EXCEPT !.sigfile = <<By(k2)>>]>>, TRUE, FALSE, Plain) EXCEPT !.writable = FALSE]}
-----------------------------------------------------------------------------
(* A call of Retrieve or a verification of SyncLoad.                       *)

NoCall == [Call EXCEPT !.kind = "urls", !.items = <<>>]
CallOff == Init /\ call = NoCall /\ job = JobOf(call) /\ got = "0"

allvars == <<rvars, lvars>>
InitAny == (InitCall /\ LoadOff) \/ (CallOff /\ LoadInit)
NextAny == (NextCall /\ UNCHANGED lvars) \/ (LoadNext /\ UNCHANGED rvars)

SpecAny == InitAny /\ [][NextAny]_allvars /\ CallFairness /\ WF_lvars(LoadNext)

\* No step loses a good file: what was received reaches the cache when the child's directory
\* goes (finalize_download_locations), and only invalid files are deleted from the cache.
NoFileLost == [][NothingLost /\ DeletesOnlyInvalid]_allvars

\* Every download comes to an end, and so does every verification unless the user goes on
\* importing keys for ever.
CallsEnd == CallEnds /\ VerificationEnds
=============================================================================
