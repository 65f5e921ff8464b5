------------------------------ MODULE CertStore ------------------------------
(***************************************************************************)
(* The certificate store (certstore/store.go over internal/certpath): the  *)
(* metadata and the manual certificates in memory, certs.json, and one key *)
(* file and one certificate file per manual domain.  Import, Delete and    *)
(* recordACMECert hold diskMu from their first file operation to their     *)
(* last, so one operation record is enough; every file operation is a step *)
(* of its own, may fail, and the process may crash between any two.        *)
(*                                                                         *)
(* A certificate and the key it was made for share one number; a pair of   *)
(* files loads when both hold the same number.  The ACME client is         *)
(* external: obtaining yields a certificate for a list of domains.         *)
(***************************************************************************)
EXTENDS Integers, Sequences, FiniteSets, SequencesExt

CONSTANTS
    Order,          \* the domains, in the order certs.json is sorted
    Requests,       \* lists of domains ACME certificates are requested for
    MaxCerts,       \* bound on the certificates made
    MaxFailures,    \* bound on failing file operations
    MaxCrashes,     \* bound on crashes
    Absent          \* no file, no entry, no certificate

Domains == ToSet(Order)
Entries == [domain : Domains, sans : SUBSET Domains, source : {"manual", "acme"}, id : Nat]

ASSUME StoreAssumption ==
    /\ Order \in Seq(ToSet(Order)) /\ IsInjective(Order)
    /\ Absent \notin Nat /\ Absent \notin Entries
    /\ \A q \in Requests : q \in Seq(Domains) /\ q # << >>
    /\ {MaxCerts, MaxFailures, MaxCrashes} \subseteq Nat

VARIABLES
    up,         \* the process is running and has loaded the store
    meta,       \* Store.meta
    certs,      \* Store.certs: manual certificates served
    file,       \* the entries of certs.json
    pair,       \* the manual key and certificate files
    op,         \* the operation holding diskMu
    recording,  \* ACME certificates obtained whose metadata is not recorded yet
    made, failures, crashes,    \* counters of the bounds
    promised,   \* ghost: the certificates the answers allow each domain to have
    torn,       \* ghost: domains whose files an error or a crash left unlike that
    claimed,    \* ghost: domains whose manual entry a Load gave up for the entry of
                \* an ACME certificate of another domain that lists them
    skewed      \* ghost: an error or a Load left certs.json unlike meta

store == << meta, certs, file, pair >>
ghosts == << promised, torn, claimed, skewed >>
vars == << up, store, op, recording, made, failures, crashes, ghosts >>

NoPair == [key |-> Absent, cert |-> Absent]
Idle == [step |-> "idle"]

----------------------------------------------------------------------------
(* Reading: what the files mean.                                           *)

(* tls.X509KeyPair accepts the two files.                                  *)
X509KeyPair(p) == p.key # Absent /\ p.key = p.cert

(* ReadPair finds one file without the other.                              *)
incomplete(p) == (p.key = Absent) # (p.cert = Absent)

(* metadataSnapshotLocked: one copy of every entry.                        *)
metadataSnapshot(m) == {m[d] : d \in Domains} \ {Absent}

(* The domains Load files an entry under.                                  *)
claims(e) == {e.domain} \cup IF e.source = "acme" THEN e.sans ELSE {}

(* certs.json is sorted by domain; entries of one domain come in any order. *)
Position(d) == CHOOSE i \in DOMAIN Order : Order[i] = d
Sortings(entries) ==
    {s \in SetToSeqs(entries) :
        \A i, j \in DOMAIN s : i < j => Position(s[i].domain) <= Position(s[j].domain)}

(* Load's loop over the entries: a later one takes a domain from an earlier. *)
loadedMeta(s) ==
    [d \in Domains |->
        LET claimants == {i \in DOMAIN s : d \in claims(s[i])} IN
        IF claimants = {} THEN Absent
        ELSE s[CHOOSE i \in claimants : \A j \in claimants : j <= i]]

loadedCerts(s) ==
    [d \in Domains |->
        IF X509KeyPair(pair[d]) /\ \E e \in ToSet(s) : e.domain = d /\ e.source = "manual"
        THEN pair[d].cert ELSE Absent]

Init ==
    /\ up = TRUE /\ op = Idle /\ recording = {}
    /\ meta = [d \in Domains |-> Absent] /\ certs = [d \in Domains |-> Absent]
    /\ file = {} /\ pair = [d \in Domains |-> NoPair]
    /\ made = 0 /\ failures = 0 /\ crashes = 0
    /\ promised = [d \in Domains |-> {Absent}] /\ torn = {} /\ claimed = {} /\ skewed = FALSE

----------------------------------------------------------------------------
(* atomicWriteFile and removeRegularFile: done; failed with the old file in *)
(* place; or failed after the rename, when the directory cannot be synced.  *)

Results == {"ok", "failed", "unsynced"}

(* RemovePair syncs the directory once, after the second file is gone.      *)
Removals(next) == IF next = "idle" THEN Results ELSE {"ok", "failed"}

Attempt(r) ==
    /\ r # "ok" => failures < MaxFailures
    /\ failures' = IF r = "ok" THEN failures ELSE failures + 1

Landed(r) == r # "failed"

(* One file of the operation's pair becomes v.                             *)
Put(r, part, v) ==
    pair' = IF Landed(r) THEN [pair EXCEPT ![op.domain][part] = v] ELSE pair

(* persistEntries: certs.json becomes the entries taken before.            *)
Persist(r, entries) == file' = IF Landed(r) THEN entries ELSE file

Goto(s) == op' = [op EXCEPT !.step = s]
Return == op' = Idle

(* The memory is put back as it was before the operation.                  *)
restoredMeta_PrimaryOnly == [meta EXCEPT ![op.domain] = op.oldMeta[op.domain]]
restoredMeta == [d \in Domains |-> IF d \in op.touched THEN op.oldMeta[d] ELSE meta[d]]

restoredCerts == [certs EXCEPT ![op.domain] = op.oldCert]

rollback ==
    /\ meta' = restoredMeta
    /\ certs' = restoredCerts

----------------------------------------------------------------------------
(* Import: previous pair, key file, certificate file, memory, certs.json.   *)

Begin(step, d, touched, entry) ==
    op' = [step |-> step, domain |-> d, touched |-> touched, entry |-> entry,
           oldMeta |-> meta, oldCert |-> certs[d], oldPair |-> pair[d]]

Import(d) ==
    /\ up /\ op = Idle /\ made < MaxCerts
    /\ ~incomplete(pair[d])
    /\ made' = made + 1
    /\ Begin("key", d, {d},
             [domain |-> d, sans |-> {d}, source |-> "manual", id |-> made + 1])
    /\ UNCHANGED << up, store, recording, failures, crashes, ghosts >>

(* WritePair's first file.  Import answers an error without putting it back. *)
WriteKey ==
    /\ op.step = "key"
    /\ \E r \in Results :
        /\ Attempt(r)
        /\ Put(r, "key", op.entry.id)
        /\ IF r = "ok" THEN Goto("cert") ELSE Return
        /\ torn' = IF r = "unsynced" THEN torn \cup {op.domain} ELSE torn
    /\ UNCHANGED << up, meta, certs, file, recording, made, crashes, promised, claimed, skewed >>

(* WritePair's second file; the memory switches once both are written.     *)
WriteCert ==
    /\ op.step = "cert"
    /\ \E r \in Results :
        /\ Attempt(r)
        /\ Put(r, "cert", op.entry.id)
        /\ IF r = "ok"
           THEN /\ Goto("persist")
                /\ meta' = [meta EXCEPT ![op.domain] = op.entry]
                /\ certs' = [certs EXCEPT ![op.domain] = op.entry.id]
                /\ UNCHANGED torn
           ELSE /\ Return
                /\ torn' = torn \cup {op.domain}
                /\ UNCHANGED << meta, certs >>
    /\ UNCHANGED << up, file, recording, made, crashes, promised, claimed, skewed >>

(* WritePair of the previous pair, or RemovePair when there was none.       *)
undoStep_Nothing == "idle"
undoStep == IF op.oldPair = NoPair THEN "dropcert" ELSE "backkey"

PersistImport ==
    /\ op.step = "persist"
    /\ \E r \in Results :
        /\ Attempt(r)
        /\ Persist(r, metadataSnapshot(meta))
        /\ IF r = "ok"
           THEN /\ Return
                /\ promised' = [promised EXCEPT ![op.domain] = {op.entry.id}]
                /\ torn' = torn \ {op.domain} /\ claimed' = claimed \ {op.domain}
                /\ skewed' = FALSE
                /\ UNCHANGED << meta, certs >>
           ELSE /\ rollback
                /\ IF undoStep = "idle" THEN Return ELSE Goto(undoStep)
                /\ skewed' = (skewed \/ r = "unsynced")
                /\ torn' = IF r = "unsynced" THEN torn \cup {op.domain} ELSE torn
                /\ UNCHANGED << promised, claimed >>
    /\ UNCHANGED << up, pair, recording, made, crashes >>

(* One file of the undo; the error of the first that fails ends it.        *)
Undo(from, part, v, next) ==
    /\ op.step = from
    /\ \E r \in IF v = Absent THEN Removals(next) ELSE Results :
        /\ Attempt(r)
        /\ Put(r, part, v)
        /\ IF r = "ok" /\ next # "idle" THEN Goto(next) ELSE Return
        /\ torn' = IF r = "ok" THEN torn ELSE torn \cup {op.domain}
    /\ UNCHANGED << up, meta, certs, file, recording, made, crashes, promised, claimed, skewed >>

UndoImport ==
    \/ Undo("backkey", "key", op.oldPair.key, "backcert")
    \/ Undo("backcert", "cert", op.oldPair.cert, "idle")
    \/ Undo("dropcert", "cert", Absent, "dropkey")
    \/ Undo("dropkey", "key", Absent, "idle")

----------------------------------------------------------------------------
(* Delete: memory, certs.json, then the two files of a manual pair.         *)

Delete(d) ==
    /\ up /\ op = Idle
    /\ meta[d] # Absent
    /\ meta' = [meta EXCEPT ![d] = Absent]
    /\ certs' = [certs EXCEPT ![d] = Absent]
    /\ Begin("unlist", d, {d}, meta[d])
    /\ UNCHANGED << up, file, pair, recording, made, failures, crashes, ghosts >>

Deleted ==
    /\ Return
    /\ promised' = [promised EXCEPT ![op.domain] = {Absent}]
    /\ torn' = torn \ {op.domain} /\ claimed' = claimed \ {op.domain}

PersistDelete ==
    /\ op.step = "unlist"
    /\ \E r \in Results :
        /\ Attempt(r)
        /\ Persist(r, metadataSnapshot(meta))
        /\ IF r # "ok"
           THEN /\ rollback /\ Return
                /\ skewed' = (skewed \/ r = "unsynced")
                /\ torn' = IF r = "unsynced" THEN torn \cup {op.domain} ELSE torn
                /\ UNCHANGED << promised, claimed >>
           ELSE /\ skewed' = FALSE
                /\ IF op.entry.source = "manual"
                   THEN Goto("rmcert") /\ UNCHANGED << promised, torn, claimed >>
                   ELSE Deleted
                /\ UNCHANGED << meta, certs >>
    /\ UNCHANGED << up, pair, recording, made, crashes >>

(* RemovePair: the certificate, then the key; an error puts the memory back *)
(* and certs.json is written once more.                                     *)
RemoveFile(from, part, next) ==
    /\ op.step = from
    /\ \E r \in Removals(next) :
        /\ Attempt(r)
        /\ Put(r, part, Absent)
        /\ CASE r = "ok" /\ next # "idle" -> Goto(next) /\ UNCHANGED << meta, certs, promised, torn, claimed >>
             [] r = "ok" /\ next = "idle" -> Deleted /\ UNCHANGED << meta, certs >>
             [] OTHER -> /\ rollback
                         /\ Goto("relist")
                         /\ torn' = IF pair'[op.domain] = op.oldPair THEN torn
                                    ELSE torn \cup {op.domain}
                         /\ UNCHANGED << promised, claimed >>
    /\ UNCHANGED << up, file, recording, made, crashes, skewed >>

RemovePair ==
    \/ RemoveFile("rmcert", "cert", "rmkey")
    \/ RemoveFile("rmkey", "key", "idle")

RestoreMetadata ==
    /\ op.step = "relist"
    /\ \E r \in Results :
        /\ Attempt(r)
        /\ Persist(r, metadataSnapshot(meta))
        /\ skewed' = (r = "failed")
        /\ torn' = IF Landed(r) THEN torn ELSE torn \cup {op.domain}
    /\ Return
    /\ UNCHANGED << up, meta, certs, pair, recording, made, crashes, promised, claimed >>

----------------------------------------------------------------------------
(* Obtain and RefreshACME: the certificate is read before diskMu is taken.  *)

Obtain(q) ==
    /\ up /\ made < MaxCerts
    /\ made' = made + 1
    /\ recording' = recording \cup
        {[domain |-> Head(q), sans |-> ToSet(q), source |-> "acme", id |-> made + 1]}
    /\ UNCHANGED << up, store, op, failures, crashes, ghosts >>

recordACMECert(e) ==
    /\ up /\ op = Idle
    /\ recording' = recording \ {e}
    /\ meta' = [d \in Domains |-> IF d \in e.sans THEN e ELSE meta[d]]
    /\ Begin("record", e.domain, e.sans, e)
    /\ UNCHANGED << up, certs, file, pair, made, failures, crashes, ghosts >>

PersistRecord ==
    /\ op.step = "record"
    /\ \E r \in Results :
        /\ Attempt(r)
        /\ Persist(r, metadataSnapshot(meta))
        /\ IF r = "ok" THEN UNCHANGED meta ELSE meta' = restoredMeta
        /\ skewed' = (r # "ok" /\ (skewed \/ r = "unsynced"))
        (* The ACME certificate takes the place of a manual one in certs.json,
           and at the next Load in use. *)
        /\ promised' = [d \in Domains |->
              IF r = "ok" /\ d \in op.touched THEN promised[d] \cup {Absent} ELSE promised[d]]
        /\ torn' = torn \cup
            IF r = "unsynced" THEN {d \in op.touched : certs[d] # Absent} ELSE {}
    /\ Return
    /\ UNCHANGED << up, certs, pair, recording, made, crashes, claimed >>

----------------------------------------------------------------------------
(* Crash and Load.                                                          *)

ImportSteps == {"key", "cert", "persist", "backkey", "backcert", "dropcert", "dropkey"}
DeleteSteps == {"unlist", "rmcert", "rmkey", "relist"}

(* What an operation cut short may leave: its result or what was before it,  *)
(* and no readable pair when the files of the pair do not match.             *)
Crash ==
    /\ up /\ crashes < MaxCrashes
    /\ crashes' = crashes + 1
    /\ up' = FALSE /\ op' = Idle /\ recording' = {}
    /\ meta' = [d \in Domains |-> Absent] /\ certs' = [d \in Domains |-> Absent]
    /\ IF op = Idle THEN UNCHANGED << promised, torn >>
       ELSE /\ promised' = [promised EXCEPT ![op.domain] = @ \cup
                  CASE op.step \in ImportSteps -> {op.entry.id}
                    [] op.step \in DeleteSteps -> {Absent}
                    [] OTHER -> {}]
            /\ torn' = torn \cup
                  IF pair[op.domain] \in {op.oldPair, NoPair} \/ X509KeyPair(pair[op.domain])
                  THEN {} ELSE {op.domain}
    /\ UNCHANGED << file, pair, made, failures, claimed, skewed >>

Load ==
    /\ ~up
    /\ up' = TRUE
    /\ \E s \in Sortings(file) :
        /\ meta' = loadedMeta(s)
        /\ certs' = loadedCerts(s)
    /\ skewed' = (metadataSnapshot(meta') # file)
    (* A manual entry whose domain a later ACME entry lists is not kept. *)
    /\ claimed' = claimed \cup {e.domain : e \in {x \in file : x.source = "manual" /\ meta'[x.domain] # x}}
    /\ UNCHANGED << file, pair, op, recording, made, failures, crashes, promised, torn >>

Next ==
    \/ \E d \in Domains : Import(d) \/ Delete(d)
    \/ WriteKey \/ WriteCert \/ PersistImport \/ UndoImport
    \/ PersistDelete \/ RemovePair \/ RestoreMetadata
    \/ \E q \in Requests : Obtain(q)
    \/ \E e \in recording : recordACMECert(e)
    \/ PersistRecord
    \/ Crash \/ Load

Spec == Init /\ [][Next]_vars

----------------------------------------------------------------------------
(* Properties.                                                              *)

(* When no operation is under way, certs.json lists exactly the entries in  *)
(* memory, whichever file operations of Import, Delete and recordACMECert   *)
(* failed before; only a write that fails after its rename, a failed second *)
(* write of Delete or a Load that merges entries leaves them different.     *)
MetadataMatchesFile == up /\ op = Idle /\ ~skewed => file = metadataSnapshot(meta)

(* A domain serves the certificate of its last acknowledged import, after    *)
(* failed imports and deletions, crashes and restarts too, or, once an ACME  *)
(* certificate that lists the domain was recorded, that one.  What a crash   *)
(* cut short may count either way.  Two things lose it: partial failures     *)
(* that leave the two files or the entry of the domain unlike the memory     *)
(* (torn) and, without any failure, a Load that meets an ACME certificate of *)
(* another domain that lists this one (claimed).                             *)
ServesAcknowledged ==
    up /\ op = Idle => \A d \in Domains \ (torn \cup claimed) : certs[d] \in promised[d]

(* "Load reads persisted metadata and manual certificates from disk": what   *)
(* was imported and acknowledged is served after a restart, unless a file    *)
(* operation failed on the way.  The code does not keep it: see claimed.     *)
ImportsSurviveLoad ==
    up /\ op = Idle => \A d \in Domains \ torn : certs[d] \in promised[d]
=============================================================================
