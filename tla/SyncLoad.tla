------------------------------ MODULE SyncLoad ------------------------------
(***************************************************************************)
(* What happens between the download and the commit: _alpm_sync_load       *)
(* (sync.c) makes sure that the keys of the signatures are known, verifies *)
(* every package file and loads it; sync_db_validate (be_sync.c) verifies  *)
(* a database.  The signatures are those of signing.c.                     *)
(*                                                                         *)
(* A signature names its key and says if it is intact and expired.  What   *)
(* GPGME makes of it depends on the keyring, which the user may extend     *)
(* when the library asks.                                                  *)
(***************************************************************************)
EXTENDS Integers, Sequences, FiniteSets

CONSTANTS
    Requests,   \* targets or a database, with what is in the cache
    NoSig       \* there is no signature

VARIABLES
    req,        \* the request; never changes
    keyring,    \* GPGME's keys: "absent", "good", "expired" or "disabled"
    known,      \* handle->known_keys
    here,       \* the targets whose files are in the cache
    wanted,     \* check_keyring: the keys to import
    fail,       \* check_keyring: an import failed
    next,       \* position in trans->add
    invalid,    \* the targets that have failed, with the error
    validation, \* pkg->validation of each target
    loaded,     \* the targets that have been replaced by their package files
    asks,       \* what is left of the siglist that _alpm_process_siglist goes through
    again,      \* its result: an imported key makes another check worth while
    status,     \* db->status of the database
    stage, verdict

keys == <<keyring, known>>
lvars == <<req, keys, here, wanted, fail, next, invalid, validation, loaded, asks,
          again, status, stage, verdict>>

Targets == DOMAIN req.targets
Target == req.targets[next]
Keys == DOMAIN req.keyring

\* The keyring, the files and the results of _alpm_sync_load have their types.
LoadTypeOK ==
    /\ keyring \in [Keys -> {"absent", "good", "expired", "disabled"}]
    /\ known \subseteq Keys
    /\ here \subseteq Targets /\ loaded \subseteq Targets
    /\ wanted \in Seq(Keys) /\ fail \in BOOLEAN
    /\ next \in 1..Len(req.targets) + 1
    /\ \A n \in DOMAIN invalid :
          /\ invalid[n].target \in Targets
          /\ invalid[n].error \in {"missing sig", "invalid sig", "checksum", "unreadable", "load"}
    /\ validation \in [Targets -> SUBSET {"none", "sha256", "signature"}]
    /\ \A n \in DOMAIN asks : asks[n].key \in Keys
    /\ again \in BOOLEAN
    /\ status \in {"unknown", "missing", "valid", "invalid"}
    /\ verdict \in {"none", "0", "1", "-1"}
    /\ stage \in {"keyring", "import", "validity", "errors", "siglist", "load", "delete",
               "database", "done", "off"}

LoadInit ==
    /\ req \in Requests
    /\ keyring = req.keyring /\ known = {}
    /\ here = {t \in Targets : req.targets[t].file # "missing"}
    /\ wanted = <<>> /\ fail = FALSE /\ next = 1 /\ invalid = <<>>
    /\ validation = [t \in Targets |-> {}] /\ loaded = {} /\ asks = <<>> /\ again = FALSE
    /\ status = "unknown" /\ verdict = "none"
    /\ stage = IF req.database THEN "database" ELSE "keyring"

\* Nothing is verified: another part of the system is being looked at.
LoadOff ==
    /\ req = [targets |-> <<>>, keyring |-> <<>>, database |-> FALSE]
    /\ keyring = req.keyring /\ known = {} /\ here = {}
    /\ wanted = <<>> /\ fail = FALSE /\ next = 1 /\ invalid = <<>>
    /\ validation = <<>> /\ loaded = {} /\ asks = <<>> /\ again = FALSE
    /\ status = "unknown" /\ verdict = "none" /\ stage = "off"

LoadReturn(r) == stage' = "done" /\ verdict' = r
-----------------------------------------------------------------------------
(* The keyring (signing.c).                                                *)

\* _alpm_key_in_keychain: a key that has been found is not looked up again, an expired one
\* counts as unknown.
InKeychain(k) == k \in known \/ keyring[k] \in {"good", "disabled"}
Looked(ks) == known \cup {k \in ks : keyring[k] \in {"good", "disabled"}}

\* _alpm_key_import, for one key: the keyring cannot be written, the user declines, the
\* key is found neither in a Web Key Directory nor on a keyserver, or it is imported as
\* the remote side has it.
Import(k, success) ==
    \/ ~success /\ UNCHANGED keyring
    \/ /\ success
       /\ req.writable /\ req.remote[k] # "absent"
       /\ keyring' = [keyring EXCEPT ![k] = req.remote[k]]

\* _alpm_gpgme_checksig: the status of one signature.
SigStatus(s) ==
    CASE keyring[s.key] = "absent" -> "key unknown"
      [] keyring[s.key] = "disabled" -> "key disabled"
      [] OTHER -> IF ~s.intact THEN "invalid"
                  ELSE IF s.expired THEN "sig expired"
                  ELSE IF keyring[s.key] = "expired" THEN "key expired" ELSE "valid"

\* _alpm_check_pgp_helper: every signature has to be good, from a key that is trusted
\* enough for the level.
Acceptable(s, level) ==
    /\ SigStatus(s) \in {"valid", "key expired"}
    /\ CASE req.trust[s.key] = "full" -> TRUE
         [] req.trust[s.key] = "marginal" -> level.marginal
         [] req.trust[s.key] = "unknown" -> level.unknown
         [] req.trust[s.key] = "never" -> FALSE

CheckPgp(sigs, level) ==
    IF sigs = NoSig THEN level.optional
    ELSE \A i \in DOMAIN sigs : Acceptable(sigs[i], level)

\* The siglist, as it was when the signatures were checked.
Results(sigs) == IF sigs = NoSig THEN <<>>
                 ELSE [i \in DOMAIN sigs |-> [key |-> sigs[i].key, status |-> SigStatus(sigs[i])]]

\* _alpm_process_siglist asks for an expired key always, for an unknown one unless it has
\* been imported meanwhile.
AsksFor(r) == \/ r.status = "key expired"
              \/ r.status = "key unknown" /\ ~InKeychain(r.key)
-----------------------------------------------------------------------------
(* check_keyring.                                                          *)

\* alpm_pkg_get_sig: the signature of the database entry, else the file in the cache.
Sig(t) == IF req.targets[t].base64 # NoSig THEN req.targets[t].base64
          ELSE IF t \in here THEN req.targets[t].sigfile ELSE NoSig

\* Package files given by the user were verified when they were loaded.
FromFile(t) == req.targets[t].origin = "file"
Signed(t) == ~FromFile(t) /\ req.targets[t].level.on /\ Sig(t) # NoSig

\* The keys of the signatures in the order in which they are met.
SigKeys == LET all == [t \in Targets |-> IF Signed(t) THEN Sig(t) ELSE <<>>]
               joined[n \in 0..Len(req.targets)] ==
                  IF n = 0 THEN <<>> ELSE joined[n - 1] \o all[n]
           IN joined[Len(req.targets)]

CheckKeyring ==
    /\ stage = "keyring"
    /\ LET sigs == SigKeys
           first == {i \in DOMAIN sigs : \A j \in 1..i - 1 : sigs[j].key # sigs[i].key}
           unknown == {i \in first : ~InKeychain(sigs[i].key)}
           nth(n) == CHOOSE i \in unknown : Cardinality({j \in unknown : j <= i}) = n
       IN /\ wanted' = [n \in 1..Cardinality(unknown) |-> sigs[nth(n)].key]
          /\ known' = Looked({sigs[i].key : i \in DOMAIN sigs})
    /\ stage' = "import"
    /\ UNCHANGED <<req, keyring, here, fail, next, invalid, validation, loaded, asks,
                   again, status, verdict>>

ImportKey ==
    /\ stage = "import" /\ wanted # <<>>
    /\ \E success \in BOOLEAN : Import(Head(wanted), success) /\ fail' = (fail \/ ~success)
    /\ wanted' = Tail(wanted)
    /\ UNCHANGED <<req, known, here, next, invalid, validation, loaded, asks, again, status,
                   stage, verdict>>

KeyringDone ==
    /\ stage = "import" /\ wanted = <<>>
    /\ \/ fail /\ LoadReturn("-1")
       \/ ~fail /\ stage' = "validity" /\ UNCHANGED verdict
    /\ UNCHANGED <<req, keys, here, wanted, fail, next, invalid, validation, loaded, asks,
                   again, status>>
-----------------------------------------------------------------------------
(* check_validity, with _alpm_pkg_validate_internal (be_package.c).        *)

HasSig(t) == req.targets[t].level.on /\ Sig(t) # NoSig


\* The checksum is skipped only for a signature that came with the database.
NeedsChecksum(t) ==
    /\ ~HasSig(t) \/ req.targets[t].base64 = NoSig
    /\ req.targets[t].sha # "none"

Error(t) ==
    LET p == req.targets[t]
    IN IF p.file = "unreadable" THEN "unreadable"
       ELSE IF NeedsChecksum(t) /\ p.sha = "differs" THEN "checksum"
       ELSE IF p.level.on /\ ~HasSig(t) /\ ~p.level.optional THEN "missing sig"
       ELSE IF p.level.on /\ ~CheckPgp(Sig(t), p.level) THEN "invalid sig"
       ELSE "none"

Validation(t) ==
    LET found == (IF NeedsChecksum(t) THEN {"sha256"} ELSE {})
                 \cup (IF HasSig(t) THEN {"signature"} ELSE {})
    IN IF found = {} THEN {"none"} ELSE found

Validate ==
    /\ stage = "validity" /\ next \in Targets
    /\ \/ /\ FromFile(next) /\ next' = next + 1
          /\ UNCHANGED <<invalid, validation, stage, verdict>>
       \/ /\ ~FromFile(next) /\ next \notin here /\ LoadReturn("-1")
          /\ UNCHANGED <<next, invalid, validation>>
       \/ /\ ~FromFile(next) /\ next \in here /\ next' = next + 1
          /\ IF Error(next) = "none"
             THEN /\ validation' = [validation EXCEPT ![next] = Validation(next)]
                  /\ UNCHANGED invalid
             ELSE /\ invalid' = Append(invalid, [target |-> next, error |-> Error(next),
                                                 siglist |-> Results(Sig(next))])
                  /\ UNCHANGED validation
          /\ UNCHANGED <<stage, verdict>>
    /\ UNCHANGED <<req, keys, here, wanted, fail, loaded, asks, again, status>>

ValidityDone ==
    /\ stage = "validity" /\ next \notin Targets
    /\ \/ invalid # <<>> /\ stage' = "errors" /\ UNCHANGED <<verdict, next>>
       \/ invalid = <<>> /\ req.downloadonly /\ LoadReturn("0") /\ UNCHANGED next
       \/ invalid = <<>> /\ ~req.downloadonly /\ stage' = "load" /\ next' = 1 /\ UNCHANGED verdict
    /\ UNCHANGED <<req, keys, here, wanted, fail, invalid, validation, loaded, asks, again, status>>

\* prompt_to_delete: the file and its signature go if the user agrees.
PromptToDelete(t) == here' \in {here, here \ {t}}

\* The errors one by one; those of signatures through _alpm_process_siglist first.
ReportError ==
    /\ stage = "errors" /\ invalid # <<>>
    /\ LET e == Head(invalid)
       IN \/ /\ e.error \in {"missing sig", "unreadable"}
             /\ invalid' = Tail(invalid) /\ UNCHANGED <<here, asks, stage>>
          \/ /\ e.error = "checksum"
             /\ PromptToDelete(e.target)
             /\ invalid' = Tail(invalid) /\ UNCHANGED <<asks, stage>>
          \/ /\ e.error = "invalid sig"
             /\ asks' = e.siglist /\ stage' = "siglist" /\ UNCHANGED <<here, invalid>>
    /\ UNCHANGED <<req, keys, wanted, fail, next, validation, loaded, again, status, verdict>>

ErrorsDone ==
    /\ stage = "errors" /\ invalid = <<>> /\ LoadReturn("-1")
    /\ UNCHANGED <<req, keys, here, wanted, fail, next, invalid, validation, loaded, asks,
                   again, status>>
-----------------------------------------------------------------------------
(* _alpm_process_siglist, one signature at a time.                         *)

ProcessSig ==
    /\ stage = "siglist" /\ asks # <<>>
    /\ LET r == Head(asks)
       IN \/ ~AsksFor(r) /\ UNCHANGED <<keyring, again>>
          \/ /\ AsksFor(r)
             /\ \E success \in BOOLEAN : Import(r.key, success) /\ again' = (again \/ success)
    /\ known' = IF Head(asks).status = "key unknown" THEN Looked({Head(asks).key}) ELSE known
    /\ asks' = Tail(asks)
    /\ UNCHANGED <<req, here, wanted, fail, next, invalid, validation, loaded, status, stage, verdict>>

\* For a package the result is not looked at and the file may be deleted; a database is
\* checked again as long as a key has been imported.
SiglistDone ==
    /\ stage = "siglist" /\ asks = <<>>
    /\ again' = FALSE
    /\ \/ /\ ~req.database
          /\ PromptToDelete(Head(invalid).target)
          /\ invalid' = Tail(invalid) /\ stage' = "errors" /\ UNCHANGED <<verdict, status>>
       \/ /\ req.database /\ again
          /\ stage' = "database" /\ UNCHANGED <<here, invalid, verdict, status>>
       \/ /\ req.database /\ ~again
          /\ status' = "invalid" /\ LoadReturn("1") /\ UNCHANGED <<here, invalid>>
    /\ UNCHANGED <<req, keys, wanted, fail, next, validation, loaded, asks>>
-----------------------------------------------------------------------------
(* sync_db_validate.  The database is the only target of its request.      *)

ValidateDatabase ==
    /\ stage = "database"
    /\ LET db == req.targets[1]
       IN \/ /\ db.file = "missing" /\ status' = "missing" /\ LoadReturn("0")
             /\ UNCHANGED asks
          \/ /\ db.file # "missing" /\ (db.level.on => CheckPgp(db.sigfile, db.level))
             /\ status' = "valid" /\ LoadReturn("0")
             /\ UNCHANGED asks
          \/ /\ db.file # "missing" /\ db.level.on /\ ~CheckPgp(db.sigfile, db.level)
             /\ asks' = Results(db.sigfile) /\ stage' = "siglist"
             /\ UNCHANGED <<status, verdict>>
    /\ UNCHANGED <<req, keys, here, wanted, fail, next, invalid, validation, loaded, again>>
-----------------------------------------------------------------------------
(* load_packages.                                                          *)

Load ==
    /\ stage = "load" /\ next \in Targets
    /\ \/ FromFile(next) /\ next' = next + 1 /\ UNCHANGED <<loaded, invalid, stage, verdict>>
       \/ /\ ~FromFile(next) /\ next \notin here /\ LoadReturn("-1")
          /\ UNCHANGED <<next, loaded, invalid>>
       \/ /\ ~FromFile(next) /\ next \in here /\ next' = next + 1
          /\ IF Target.loads /\ Target.matches     \* check_pkg_matches_db
             THEN loaded' = loaded \cup {next} /\ UNCHANGED invalid
             ELSE /\ invalid' = Append(invalid, [target |-> next, error |-> "load",
                                                 siglist |-> <<>>])
                  /\ UNCHANGED loaded
          /\ UNCHANGED <<stage, verdict>>
    /\ UNCHANGED <<req, keys, here, wanted, fail, validation, asks, again, status>>

LoadDone ==
    /\ stage = "load" /\ next \notin Targets
    /\ \/ invalid # <<>> /\ stage' = "delete" /\ UNCHANGED verdict
       \/ invalid = <<>> /\ LoadReturn("0")
    /\ UNCHANGED <<req, keys, here, wanted, fail, next, invalid, validation, loaded, asks,
                   again, status>>

Delete ==
    /\ stage = "delete"
    /\ \/ /\ invalid # <<>> /\ PromptToDelete(Head(invalid).target)
          /\ invalid' = Tail(invalid) /\ UNCHANGED <<stage, verdict>>
       \/ invalid = <<>> /\ LoadReturn("-1") /\ UNCHANGED <<here, invalid>>
    /\ UNCHANGED <<req, keys, wanted, fail, next, validation, loaded, asks, again, status>>
-----------------------------------------------------------------------------
LoadNext == \/ CheckKeyring \/ ImportKey \/ KeyringDone
        \/ Validate \/ ValidityDone \/ ReportError \/ ErrorsDone
        \/ ProcessSig \/ SiglistDone \/ ValidateDatabase
        \/ Load \/ LoadDone \/ Delete

-----------------------------------------------------------------------------
(* Properties.                                                             *)

\* What makes a file trustworthy: an intact signature, all of them good, from a key that is
\* trusted for this level; or the checksum of the database entry.
GoodSignature(t) ==
    Sig(t) # NoSig /\ \A i \in DOMAIN Sig(t) :
       /\ Sig(t)[i].intact /\ ~Sig(t)[i].expired
       /\ keyring[Sig(t)[i].key] \in {"good", "expired"}
       /\ LET trust == req.trust[Sig(t)[i].key]
              level == req.targets[t].level
          IN \/ trust = "full"
             \/ trust = "marginal" /\ level.marginal
             \/ trust = "unknown" /\ level.unknown
GoodChecksum(t) == req.targets[t].sha = "matches"

\* A transaction goes on only with files that are there and can be relied on: those that
\* need a signature have a good one, the others have one, or the checksum of the database,
\* or the database names neither; and unless only the download was asked for, all of them
\* have been loaded and agree with their database entries.
OnlyVerifiedFiles ==
    stage = "done" /\ verdict = "0" /\ ~req.database =>
       \A t \in Targets : ~FromFile(t) =>
          LET p == req.targets[t]
          IN /\ t \in here
             /\ p.level.on /\ ~p.level.optional => GoodSignature(t)
             /\ GoodSignature(t) \/ GoodChecksum(t) \/ p.sha = "none"
             /\ ~req.downloadonly => t \in loaded /\ p.matches

\* pkg->validation, which goes into the local database, says what has really been verified.
ValidationIsTrue ==
    \A t \in here : /\ "signature" \in validation[t] => GoodSignature(t)
                    /\ "sha256" \in validation[t] => GoodChecksum(t)

\* A file in the cache is only ever deleted when it was found invalid: a bad signature, a
\* wrong checksum or contents that do not belong to the database entry.
DeletesOnlyInvalid ==
    \A t \in here \ here' :
       \/ req.targets[t].level.on /\ ~GoodSignature(t)
       \/ req.targets[t].sha = "differs"
       \/ ~req.targets[t].loads \/ ~req.targets[t].matches

\* A database is used only if its signatures are good, or missing where that is allowed.
DatabaseVerified ==
    status = "valid" /\ req.targets[1].level.on =>
       \/ GoodSignature(1)
       \/ req.targets[1].sigfile = NoSig /\ req.targets[1].level.optional

\* The verification comes to an end, unless the user goes on importing keys for ever.
VerificationEnds == <>(stage \in {"done", "off"}) \/ []<>again

=============================================================================
