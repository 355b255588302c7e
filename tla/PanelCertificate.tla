--------------------------- MODULE PanelCertificate ---------------------------
(***************************************************************************)
(* The panel's certificate manager (service/panel_certificate.rs) for one  *)
(* certificate domain: one worker that obtains certificates with certbot   *)
(* and publishes them as numbered generations, and the manifests, which    *)
(* read the generations without a lock and repair the pointer they find.   *)
(*                                                                         *)
(* On disk there are generation directories, current.json and              *)
(* current.backup.json, each replaced by a rename; receipts that certbot's *)
(* hook leaves when the panel saw the challenge propagate; and certbot's   *)
(* own lineage, which survives an attempt that was not published.          *)
(*                                                                         *)
(* Certificates of later attempts expire later.  The clock ticks in months *)
(* and stands still while an attempt or a manifest is under way.           *)
(***************************************************************************)
EXTENDS Naturals

CONSTANTS Readers,      \* manifests and inventories read at one time
          Life,         \* lifetime of a certificate
          Window,       \* RENEW_BEFORE_DAYS, also certbot's own threshold
          LegacyUntil,  \* expiry of the group-local certificate of an older
                        \* installation; 0 if there is none
          MaxGen,       \* the largest generation number (2^64 - 1 in the code)
          MaxAttempts,  \* bound: runs of certbot
          MaxTime,      \* bound: the clock
          MaxHurts,     \* bound: current.json damaged, or a pointer or its
                        \* files found unreadable once
          MaxEvents,    \* bound: crashes and changes of the authorisation
          None

ASSUME TimeAssumption == /\ Life \in Nat /\ Window \in Nat /\ Window < Life
                         /\ LegacyUntil \in 0 .. Life
\* 30 days of 90.  Needed if a pointer was misread: with less, a renewal would be
\* due again while the certificate of two publications ago is still served.
ASSUME WindowAssumption == 2 * Window <= Life
ASSUME BoundAssumption == /\ MaxGen \in Nat /\ MaxAttempts \in Nat /\ MaxTime \in Nat
                          /\ MaxHurts \in Nat /\ MaxEvents \in Nat

Gens     == 1 .. MaxGen
Attempts == 1 .. MaxAttempts      \* issuance ids; 0 stands for the import
Cert     == [attempt : Attempts \cup {0}, until : 1 .. MaxTime + Life]
Pointer  == [gen : Gens, cert : Cert]
Legacy   == [attempt |-> 0, until |-> LegacyUntil]

Publishing == {"install", "backup", "current", "cleanup"}
Stages     == {"certbot", "authorize", "publish"} \cup Publishing
Job == [stage : Stages, attempt : Attempts \cup {0}, force : BOOLEAN,
        cert : Cert \cup {None}, base : Pointer \cup {None}, gen : Gens \cup {None}]

Repair == [pointer : Pointer \cup {None}]

ASSUME NoneAssumption == None \notin Cert \cup Pointer \cup Job \cup Gens \cup Repair

VARIABLES now,
          authorised,  \* the group's rules authorise issuance for the domain
          live,        \* the certificate of certbot's lineage
          receipts,    \* attempts with a propagation receipt on disk
          attempts,    \* issuance ids used so far
          waiting,     \* retry.json forbids an attempt for the time being
          migrated,    \* this process has done the import
          job,         \* the attempt or import under way
          dirs,        \* generation directories with the certificate in them
          current,     \* current.json
          backup,      \* current.backup.json
          reader,      \* a manifest that found current.json unusable, with
                       \* the backup it has read and is about to write there
          hurts, events,
          heldSince,   \* history: authorised at some time since certbot ended
          latest,      \* history: the generation published last ...
          previous     \* ... and what it took the place of

diskVars    == <<dirs, current, backup>>
certbotVars == <<live, receipts, attempts>>
historyVars == <<heldSince, latest, previous>>
vars == <<now, authorised, certbotVars, waiting, migrated, job, diskVars, reader, hurts,
          events, historyVars>>

TypeOK ==
  /\ now \in 0 .. MaxTime /\ authorised \in BOOLEAN
  /\ live \in Cert \cup {None}
  /\ receipts \subseteq Attempts /\ attempts \in 0 .. MaxAttempts
  /\ waiting \in BOOLEAN /\ migrated \in BOOLEAN
  /\ job \in Job \cup {None}
  /\ dirs \subseteq Pointer
  /\ current \in Pointer \cup {None} /\ backup \in Pointer \cup {None}
  /\ reader \in [Readers -> Repair \cup {None}]
  /\ hurts \in 0 .. MaxHurts /\ events \in 0 .. MaxEvents
  /\ heldSince \in BOOLEAN
  /\ latest \in Pointer \cup {None} /\ previous \in Pointer \cup {None}

Init ==
  /\ now = 0 /\ authorised \in BOOLEAN
  /\ live = None /\ receipts = {} /\ attempts = 0
  /\ waiting = FALSE /\ migrated = FALSE /\ job = None
  /\ dirs = {} /\ current = None /\ backup = None
  /\ reader = [r \in Readers |-> None]
  /\ hurts = 0 /\ events = 0
  /\ heldSince = FALSE /\ latest = None /\ previous = None
-----------------------------------------------------------------------------
Alive(c) == c.until > now
Due(c)   == c.until <= now + Window        \* renewal_due

\* read_and_validate_current: the files are there, match and are not expired.
Valid(p) == p \in dirs /\ Alive(p.cert)

\* recover_current, where the pointers in bad cannot be read this time.
Recovered(bad) ==
  IF Valid(current) /\ "current" \notin bad THEN current
  ELSE IF Valid(backup) /\ "backup" \notin bad THEN backup ELSE None

Recover(bad) == current' = IF Recovered(bad) = None THEN current ELSE Recovered(bad)

Misread(bad) == \/ bad = {} /\ UNCHANGED hurts
                \/ bad # {} /\ hurts < MaxHurts /\ hurts' = hurts + 1

Pointers == {"current", "backup"}

\* What a manifest sends when it can read everything.
Served == Recovered({})
-----------------------------------------------------------------------------
(* The worker: reconcile_scope.                                            *)

\* The checks before and after the wait for the issuance lock, which a single
\* worker never contends for.  The retry is scheduled before the attempt.
Consider(bad) ==
  LET served == Recovered(bad) IN
  /\ job = None /\ migrated
  /\ Misread(bad) /\ Recover(bad)
  /\ \/ /\ served # None /\ ~Due(served.cert)
        /\ waiting' = FALSE
        /\ UNCHANGED <<attempts, job>>
     \/ /\ served # None => Due(served.cert)
        /\ ~authorised \/ waiting
        /\ UNCHANGED <<attempts, waiting, job>>
     \/ /\ served # None => Due(served.cert)
        /\ authorised /\ ~waiting
        /\ attempts < MaxAttempts /\ attempts' = attempts + 1
        /\ waiting' = TRUE
        /\ job' = [stage |-> "certbot", attempt |-> attempts + 1,
                   force |-> served # None, cert |-> None, base |-> None, gen |-> None]
  /\ UNCHANGED <<now, authorised, live, receipts, migrated, dirs, backup, reader, events,
                 historyVars>>

At(stage) == job # None /\ job.stage = stage

\* The attempt is over and its receipt removed.
End == job' = None /\ receipts' = receipts \ {job.attempt}

Import == job.attempt = 0

\* certbot asks the CA unless its lineage is not due and renewal is not forced.
Asks == job.force \/ (live # None => Due(live))

\* The auth hook: the panel accepts the challenge for an authorised domain only
\* and answers when it has seen it propagate.
HookPresents ==
  /\ At("certbot") /\ Asks /\ authorised
  /\ receipts' = receipts \cup {job.attempt}
  /\ UNCHANGED <<now, authorised, live, attempts, waiting, migrated, job, diskVars,
                 reader, hurts, events, historyVars>>

ReceiptOfAnyone == receipts # {}       \* mutation: the issuance id is not compared

\* validate_issuance_receipt
ReceiptValid == job.attempt \in receipts

\* certbot exits with success; the CA may have reused an authorisation, so that
\* no hook ran.
CertbotSucceeds ==
  LET obtained == IF Asks THEN [attempt |-> job.attempt, until |-> now + Life] ELSE live IN
  /\ At("certbot")
  /\ live' = obtained
  /\ heldSince' = authorised
  /\ IF ReceiptValid
       THEN /\ job' = [job EXCEPT !.stage = "authorize", !.cert = obtained]
            /\ UNCHANGED receipts
       ELSE End
  /\ UNCHANGED <<now, authorised, attempts, waiting, migrated, diskVars, reader, hurts,
                 events, latest, previous>>

\* An error, or the process group that a failed hook aborted.
CertbotFails ==
  /\ At("certbot") /\ End
  /\ UNCHANGED <<now, authorised, live, attempts, waiting, migrated, diskVars, reader,
                 hurts, events, historyVars>>

AuthorizeAlways ==                     \* mutation: not asked again after certbot
  /\ At("authorize")
  /\ job' = [job EXCEPT !.stage = "publish"]
  /\ UNCHANGED <<now, authorised, certbotVars, waiting, migrated, diskVars, reader, hurts,
                 events, historyVars>>

\* The database may not answer, nor the lineage be readable: the receipt stays.
Authorize ==
  /\ At("authorize")
  /\ \/ authorised /\ job' = [job EXCEPT !.stage = "publish"] /\ UNCHANGED receipts
     \/ ~authorised /\ End
     \/ job' = None /\ UNCHANGED receipts
  /\ UNCHANGED <<now, authorised, live, attempts, waiting, migrated, diskVars, reader,
                 hurts, events, historyVars>>

\* migrate_legacy_certificates, before anything else a process does with the
\* storage.
BeginImport(bad) ==
  /\ job = None /\ ~migrated
  /\ Misread(bad) /\ Recover(bad)
  /\ IF Recovered(bad) = None /\ Alive(Legacy)
       THEN /\ job' = [stage |-> "publish", attempt |-> 0, force |-> FALSE,
                       cert |-> Legacy, base |-> None, gen |-> None]
            /\ UNCHANGED migrated
       ELSE migrated' = TRUE /\ UNCHANGED job
  /\ UNCHANGED <<now, authorised, certbotVars, waiting, dirs, backup, reader, events,
                 historyVars>>
-----------------------------------------------------------------------------
(* publish_candidate_at_root, under the storage lock.                      *)

Newer(c, d) == c.attempt > d.attempt

NextUnchecked(base) ==                 \* mutation: the number may overflow
  LET used == {d.gen : d \in dirs} \cup IF base = None THEN {} ELSE {base.gen}
  IN  {g \in 1 .. MaxGen + 1 : (\A u \in used : u < g) /\ (g = 1 \/ g - 1 \in used)}

\* next_generation: one more than the highest number in use, if there is one.
NextGeneration(base) ==
  LET used == {d.gen : d \in dirs} \cup IF base = None THEN {} ELSE {base.gen}
  IN  {g \in Gens : (\A u \in used : u < g) /\ (g = 1 \/ g - 1 \in used)}

Finished ==
  /\ End
  /\ waiting' = (waiting /\ Import)
  /\ migrated' = (migrated \/ Import)

BeginPublish(bad) ==
  LET base == Recovered(bad) IN
  /\ At("publish")
  /\ Import \/ ReceiptValid
  /\ Alive(job.cert) /\ (Import \/ ~Due(job.cert))
  /\ Misread(bad) /\ Recover(bad)
  /\ \/ /\ base # None => Newer(job.cert, base.cert)
        /\ \E g \in NextGeneration(base) :
             job' = [job EXCEPT !.stage = "install", !.base = base, !.gen = g]
        /\ UNCHANGED <<receipts, waiting, migrated>>
     \/ base # None /\ base.cert = job.cert /\ Finished
  /\ UNCHANGED <<now, authorised, live, attempts, dirs, backup, reader, events,
                 historyVars>>

New == [gen |-> job.gen, cert |-> job.cert]

\* The staged directory is renamed to its number, which nothing has yet.
InstallGeneration ==
  /\ At("install")
  /\ \A d \in dirs : d.gen # job.gen
  /\ dirs' = dirs \cup {New}
  /\ job' = [job EXCEPT !.stage = "backup"]
  /\ UNCHANGED <<now, authorised, certbotVars, waiting, migrated, current, backup, reader,
                 hurts, events, historyVars>>

\* Without a usable current certificate an old backup is removed.
WriteBackup ==
  /\ At("backup")
  /\ backup' = job.base
  /\ job' = [job EXCEPT !.stage = "current"]
  /\ UNCHANGED <<now, authorised, certbotVars, waiting, migrated, dirs, current, reader,
                 hurts, events, historyVars>>

WriteCurrent ==
  /\ At("current")
  /\ current' = New /\ latest' = New /\ previous' = job.base
  /\ job' = [job EXCEPT !.stage = "cleanup"]
  /\ UNCHANGED <<now, authorised, certbotVars, waiting, migrated, dirs, backup, reader,
                 hurts, events, heldSince>>

CleanupForgetsBackup ==                \* mutation: only the new generation is kept
  /\ At("cleanup")
  /\ dirs' = {d \in dirs : d.gen = job.gen}
  /\ Finished
  /\ UNCHANGED <<now, authorised, live, attempts, current, backup, reader, hurts, events,
                 historyVars>>

\* cleanup_generations keeps what the new pointer and the backup name.
Cleanup ==
  /\ At("cleanup")
  /\ dirs' = {d \in dirs : d.gen = job.gen \/ (backup # None /\ d.gen = backup.gen)}
  /\ Finished
  /\ UNCHANGED <<now, authorised, live, attempts, current, backup, reader, hurts, events,
                 historyVars>>

\* A check of the candidate, a write or a sync fails: what is done stays.
PublishFails ==
  /\ job # None /\ job.stage \in Publishing \cup {"publish"}
  /\ End
  /\ UNCHANGED <<now, authorised, live, attempts, waiting, migrated, diskVars, reader,
                 hurts, events, historyVars>>
-----------------------------------------------------------------------------
(* Manifests and inventories: recover_current without the storage lock.    *)

FindUnusable(r) ==
  /\ reader[r] = None /\ migrated
  /\ \/ ~Valid(current) /\ Misread({})
     \/ Valid(current) /\ Misread({"current"})
  /\ reader' = [reader EXCEPT ![r] = [pointer |-> None]]
  /\ UNCHANGED <<now, authorised, certbotVars, waiting, migrated, job, diskVars, events,
                 historyVars>>

ReadBackup(r) ==
  /\ reader[r] = [pointer |-> None]
  /\ \/ Valid(backup) /\ UNCHANGED hurts /\ reader' = [reader EXCEPT ![r].pointer = backup]
     \/ ~Valid(backup) /\ UNCHANGED hurts /\ reader' = [reader EXCEPT ![r] = None]
     \/ Valid(backup) /\ Misread({"backup"}) /\ reader' = [reader EXCEPT ![r] = None]
  /\ UNCHANGED <<now, authorised, certbotVars, waiting, migrated, job, diskVars, events,
                 historyVars>>

WriteBack(r) ==
  /\ reader[r] # None /\ reader[r].pointer # None
  /\ current' = reader[r].pointer
  /\ reader' = [reader EXCEPT ![r] = None]
  /\ UNCHANGED <<now, authorised, certbotVars, waiting, migrated, job, dirs, backup,
                 hurts, events, historyVars>>
-----------------------------------------------------------------------------
(* The surroundings.                                                       *)

Tick ==
  /\ now < MaxTime /\ now' = now + 1
  /\ job = None /\ \A r \in Readers : reader[r] = None
  /\ UNCHANGED <<authorised, certbotVars, waiting, migrated, job, diskVars, reader, hurts,
                 events, historyVars>>

BackoffEnds ==
  /\ waiting /\ waiting' = FALSE
  /\ UNCHANGED <<now, authorised, certbotVars, migrated, job, diskVars, reader, hurts,
                 events, historyVars>>

Event == events < MaxEvents /\ events' = events + 1

SetAuthorised(on) ==
  /\ Event /\ on # authorised
  /\ authorised' = on
  /\ heldSince' = (heldSince \/ on)
  /\ UNCHANGED <<now, certbotVars, waiting, migrated, job, diskVars, reader, hurts,
                 latest, previous>>

Damage ==
  /\ hurts < MaxHurts /\ hurts' = hurts + 1
  /\ current # None /\ current' = None
  /\ UNCHANGED <<now, authorised, certbotVars, waiting, migrated, job, dirs, backup,
                 reader, events, historyVars>>

\* The service manager ends certbot together with the panel.
Crash ==
  /\ Event
  /\ job' = None /\ migrated' = FALSE
  /\ reader' = [r \in Readers |-> None]
  /\ UNCHANGED <<now, authorised, certbotVars, waiting, diskVars, hurts, historyVars>>
-----------------------------------------------------------------------------
Worker ==
  \/ \E bad \in SUBSET Pointers : Consider(bad) \/ BeginImport(bad) \/ BeginPublish(bad)
  \/ HookPresents \/ CertbotSucceeds \/ CertbotFails \/ Authorize
  \/ InstallGeneration \/ WriteBackup \/ WriteCurrent \/ Cleanup \/ PublishFails

Manifests == \E r \in Readers : FindUnusable(r) \/ ReadBackup(r) \/ WriteBack(r)

Surroundings ==
  \/ Tick \/ BackoffEnds \/ Damage \/ Crash
  \/ \E on \in BOOLEAN : SetAuthorised(on)

Next == Worker \/ Manifests \/ Surroundings

Spec == Init /\ [][Next]_vars
-----------------------------------------------------------------------------
(* Properties.                                                             *)

\* A generation is published under a number above all earlier ones, so that a
\* number names one certificate for ever; apart from the import its certificate
\* was obtained by an attempt whose own challenge was seen to propagate, and the
\* domain was authorised at some time after certbot had ended.
PublicationIsSound ==
  [][latest' # latest =>
       /\ latest # None => latest'.gen > latest.gen
       /\ latest'.cert = Legacy \/ (latest'.cert.attempt \in receipts /\ heldSince)]_vars

LatestSurvives == hurts = 0 /\ latest # None /\ Alive(latest.cert) => Served = latest

PreviousSurvives ==
  hurts <= 1 /\ previous # None /\ Alive(previous.cert) => Served \in {latest, previous}

\* The last published certificate is served until it expires, whatever attempts
\* fail and wherever the panel stops; if current.json was damaged or misread once,
\* then it or the one it took the place of (while a renewal writes three files in
\* an order that any crash may cut, and manifests repair the pointer meanwhile).
CertificateSurvives == LatestSurvives /\ PreviousSurvives
=============================================================================
