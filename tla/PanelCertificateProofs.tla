------------------------ MODULE PanelCertificateProofs ------------------------
(***************************************************************************)
(* Proofs about PanelCertificate: type correctness, PublicationIsSound,    *)
(* and CertificateSurvives, first for a current.json that was neither      *)
(* damaged nor misread, then for one damage or misreading.                 *)
(***************************************************************************)
EXTENDS PanelCertificate, TLAPS

Before == {"install", "backup", "current"}     \* current.json not yet written

\* What the stage of the attempt or import under way says of its fields.
JobTyped ==
  job # None =>
    /\ job.stage = "certbot" => job.attempt \in Attempts
    /\ job.stage # "certbot" => job.cert \in Cert
    /\ job.stage \in Publishing => job.gen \in Gens

\* The receipt of an attempt under way is its own, and is there from the moment
\* certbot ended; a certificate the attempt did not ask for is not taken.
ReceiptsKept ==
  /\ receipts \subseteq 1 .. attempts
  /\ job # None =>
       /\ job.attempt <= attempts
       /\ job.stage = "certbot" => (job.attempt \in receipts => Asks)
       /\ job.stage # "certbot" =>
            \/ job.attempt = 0 /\ job.cert = Legacy
            \/ job.attempt \in receipts /\ job.cert.attempt = job.attempt

AuthorisationHeld ==
  job # None =>
    /\ job.stage = "authorize" => (authorised => heldSince)
    /\ job.stage \in Publishing \cup {"publish"} => (Import \/ heldSince)

\* The number an unpublished generation will have is above that of the last one
\* published, whose directory nothing has removed.
NumbersRise ==
  /\ latest # None => latest \in dirs
  /\ job # None =>
       /\ job.stage \in Before => (latest # None => job.gen > latest.gen)
       /\ job.stage \in {"backup", "current", "cleanup"} => New \in dirs
       /\ job.stage = "cleanup" => latest = New

PublicationInv == ReceiptsKept /\ AuthorisationHeld /\ NumbersRise

BackupKept ==
  /\ backup # None => backup \in dirs
  /\ job # None /\ job.stage \in Before /\ job.base # None => job.base \in dirs
  /\ job # None /\ job.stage = "current" => backup = job.base

ImportFirst ==
  /\ job # None /\ Import => ~migrated
  /\ job # None /\ Import /\ job.stage \in Before => job.base = None
  /\ ~migrated => \A r \in Readers : reader[r] = None

FreshJob == job # None /\ job.stage \in Publishing /\ ~Import => ~Due(job.cert)

OldDue ==
  job # None /\ job.stage \in {"certbot", "authorize", "publish"} /\ ~Import =>
    (Valid(current) => Due(current.cert))

BackupOlder ==
  backup # None => latest # None /\ backup.cert.until <= latest.cert.until

BaseIsLatest ==
  job # None /\ job.stage \in Before /\ job.base # None =>
    /\ job.base = latest /\ Alive(job.base.cert)
    /\ job.base.cert.until <= job.cert.until

ReadersIdle ==
  \A r \in Readers : reader[r] # None =>
    /\ reader[r].pointer = None
    /\ ~Valid(backup)
    /\ Valid(current) => ~Due(current.cert)
    /\ job # None /\ job.stage \in Before => job.base = None

Unhurt == /\ current = latest
          /\ OldDue /\ BackupOlder /\ BaseIsLatest /\ ReadersIdle

Solid == BackupKept /\ ImportFirst /\ FreshJob

SurvivalInv == Solid /\ (hurts = 0 => Unhurt)
-----------------------------------------------------------------------------
(* Types.                                                                  *)

LEMMA NoneIsNothing == /\ None \notin Cert /\ None \notin Pointer /\ None \notin Job
                       /\ None \notin Gens /\ None \notin Repair
BY NoneAssumption

USE NoneIsNothing

LEMMA LegacyTyped == TypeOK /\ Alive(Legacy) => Legacy \in Cert
BY TimeAssumption, BoundAssumption DEF TypeOK, Alive, Legacy, Cert

LEMMA RecoveredTyped ==
  ASSUME TypeOK, NEW bad
  PROVE  /\ Recovered(bad) \in Pointer \cup {None}
         /\ Recovered(bad) # None => Valid(Recovered(bad))
         /\ Recover(bad) => current' \in Pointer \cup {None}
BY DEF TypeOK, Recovered, Recover, Valid

LEMMA NewTyped ==
  ASSUME job \in Job, JobTyped, job # None, job.stage \in Publishing
  PROVE  New \in Pointer
BY DEF New, Pointer, JobTyped, Publishing, Job

TypeInv == TypeOK /\ JobTyped

LEMMA JobMade ==
  ASSUME NEW stage \in Stages, NEW attempt \in Attempts \cup {0}, NEW force \in BOOLEAN,
         NEW cert \in Cert \cup {None}
  PROVE  [stage |-> stage, attempt |-> attempt, force |-> force, cert |-> cert,
          base |-> None, gen |-> None] \in Job
BY DEF Job

LEMMA TypeInit == Init => TypeInv
<1> SUFFICES ASSUME Init PROVE TypeInv
  OBVIOUS
<1>1. /\ now \in 0 .. MaxTime /\ attempts \in 0 .. MaxAttempts
      /\ hurts \in 0 .. MaxHurts /\ events \in 0 .. MaxEvents
  BY BoundAssumption DEF Init
<1>2. /\ authorised \in BOOLEAN /\ waiting \in BOOLEAN /\ migrated \in BOOLEAN
      /\ heldSince \in BOOLEAN
  BY DEF Init
<1>3. reader \in [Readers -> Repair \cup {None}]
  BY DEF Init
<1> QED
  BY <1>1, <1>2, <1>3 DEF Init, TypeInv, TypeOK, JobTyped

LEMMA MisreadTyped ==
  ASSUME TypeOK, NEW bad, Misread(bad)
  PROVE  hurts' \in 0 .. MaxHurts
BY BoundAssumption DEF TypeOK, Misread

\* An attempt begins, with an issuance id of its own.
Begins(bad) ==
  /\ attempts \in Nat /\ attempts < MaxAttempts /\ attempts' = attempts + 1
  /\ attempts' \in Attempts
  /\ job' \in Job /\ job' # None /\ job'.stage = "certbot" /\ job'.attempt = attempts'
  /\ Recovered(bad) # None => Due(Recovered(bad).cert)

LEMMA ConsiderBegins ==
  ASSUME TypeInv, NEW bad, Consider(bad), ~(UNCHANGED <<attempts, job>>)
  PROVE  Begins(bad)
<1> DEFINE forced == Recovered(bad) # None
           made == [stage |-> "certbot", attempt |-> attempts + 1, force |-> forced,
                    cert |-> None, base |-> None, gen |-> None]
<1>1. /\ attempts < MaxAttempts /\ attempts' = attempts + 1 /\ job' = made
      /\ forced => Due(Recovered(bad).cert)
  BY DEF Consider
<1>2. attempts \in Nat /\ attempts' \in Attempts
  BY <1>1, BoundAssumption DEF Attempts, TypeInv, TypeOK
<1>3. forced \in BOOLEAN
  OBVIOUS
<1>4. made \in Job /\ made.stage = "certbot" /\ made.attempt = attempts + 1
  <2> HIDE DEF forced
  <2> QED
    BY <1>1, <1>2, <1>3, JobMade DEF Stages
<1> HIDE DEF made
<1> QED
  BY <1>1, <1>2, <1>4 DEF Begins

LEMMA ConsiderTyped ==
  ASSUME TypeInv, NEW bad, Consider(bad)
  PROVE  TypeInv'
<1>1. current' \in Pointer \cup {None} /\ hurts' \in 0 .. MaxHurts
  BY RecoveredTyped, MisreadTyped DEF TypeInv, Consider
<1>2. waiting' \in BOOLEAN
  BY DEF TypeInv, TypeOK, Consider
<1>3. attempts' \in 0 .. MaxAttempts /\ job' \in Job \cup {None} /\ JobTyped'
  <2>1. CASE UNCHANGED <<attempts, job>>
    BY <2>1 DEF TypeInv, TypeOK, JobTyped
  <2>2. CASE Begins(bad)
    BY <2>2 DEF Begins, JobTyped, Attempts, Publishing
  <2> QED
    BY <2>1, <2>2, ConsiderBegins
<1> QED
  BY <1>1, <1>2, <1>3 DEF TypeInv, TypeOK, Consider, historyVars

LEMMA CertbotTyped ==
  ASSUME TypeInv, CertbotSucceeds
  PROVE  TypeInv'
<1> DEFINE obtained == IF Asks THEN [attempt |-> job.attempt, until |-> now + Life] ELSE live
<1>1. job \in Job /\ job.stage = "certbot" /\ job.attempt \in Attempts
  BY DEF TypeInv, TypeOK, CertbotSucceeds, At, JobTyped
<1>2. obtained \in Cert
  BY <1>1, TimeAssumption, BoundAssumption DEF TypeInv, TypeOK, Asks, Cert
<1>3. live' = obtained /\ heldSince' \in BOOLEAN
  BY DEF CertbotSucceeds, TypeInv, TypeOK
<1>4. \/ job' = None /\ receipts' \subseteq receipts
      \/ receipts' = receipts /\ job' = [job EXCEPT !.stage = "authorize", !.cert = obtained]
  BY DEF CertbotSucceeds, End
<1> HIDE DEF obtained
<1>5. job' \in Job \cup {None} /\ JobTyped'
  BY <1>1, <1>2, <1>4 DEF Job, JobTyped, Stages, Publishing
<1>6. live' \in Cert \cup {None} /\ receipts' \subseteq Attempts
  BY <1>2, <1>3, <1>4 DEF TypeInv, TypeOK
<1> QED
  BY <1>3, <1>5, <1>6 DEF TypeInv, TypeOK, CertbotSucceeds, diskVars

LEMMA BeginPublishTyped ==
  ASSUME TypeInv, NEW bad, BeginPublish(bad)
  PROVE  TypeInv'
<1>1. current' \in Pointer \cup {None} /\ hurts' \in 0 .. MaxHurts
  BY RecoveredTyped, MisreadTyped DEF TypeInv, BeginPublish
<1>2. Recovered(bad) \in Pointer \cup {None}
  BY RecoveredTyped DEF TypeInv
<1>3. job \in Job /\ job # None /\ job.stage = "publish" /\ job.cert \in Cert
  BY DEF TypeInv, TypeOK, BeginPublish, At, JobTyped
<1>4. \/ /\ \E g \in Gens : job' = [job EXCEPT !.stage = "install",
                                    !.base = Recovered(bad), !.gen = g]
         /\ UNCHANGED <<receipts, waiting, migrated>>
      \/ Finished
  BY DEF BeginPublish, NextGeneration
<1>5. job' \in Job \cup {None} /\ JobTyped'
  BY <1>2, <1>3, <1>4 DEF Job, JobTyped, Stages, Publishing, Finished, End
<1>6. receipts' \subseteq Attempts /\ waiting' \in BOOLEAN /\ migrated' \in BOOLEAN
  BY <1>4 DEF Finished, End, TypeInv, TypeOK
<1> QED
  BY <1>1, <1>5, <1>6 DEF TypeInv, TypeOK, BeginPublish, historyVars

LEMMA PublicationTyped ==
  ASSUME TypeInv, InstallGeneration \/ WriteBackup \/ WriteCurrent
  PROVE  TypeInv'
<1>1. job \in Job /\ job # None /\ job.stage \in Publishing /\ New \in Pointer
  BY NewTyped DEF TypeInv, TypeOK, InstallGeneration, WriteBackup, WriteCurrent, At, Publishing
<1>2. \E s \in Publishing : job' = [job EXCEPT !.stage = s]
  BY DEF InstallGeneration, WriteBackup, WriteCurrent, Publishing
<1>3. job' \in Job /\ JobTyped' /\ job.base \in Pointer \cup {None}
  BY <1>1, <1>2 DEF Job, JobTyped, Stages, Publishing, TypeInv
<1>4. CASE InstallGeneration
  BY <1>1, <1>3, <1>4 DEF TypeInv, TypeOK, InstallGeneration, certbotVars, historyVars
<1>5. CASE WriteBackup
  BY <1>1, <1>3, <1>5 DEF TypeInv, TypeOK, WriteBackup, certbotVars, historyVars
<1>6. CASE WriteCurrent
  BY <1>1, <1>3, <1>6 DEF TypeInv, TypeOK, WriteCurrent, certbotVars
<1> QED
  BY <1>4, <1>5, <1>6

LEMMA EndTyped ==
  ASSUME TypeInv, CertbotFails \/ Cleanup \/ PublishFails
  PROVE  TypeInv'
<1>1. job' = None /\ receipts' \subseteq receipts
  BY DEF CertbotFails, Cleanup, PublishFails, Finished, End
<1>2. JobTyped' /\ dirs' \subseteq dirs
  BY <1>1 DEF JobTyped, CertbotFails, Cleanup, PublishFails, diskVars
<1>3. UNCHANGED <<now, authorised, live, attempts, current, backup, reader, hurts, events,
                  heldSince, latest, previous>>
  BY DEF CertbotFails, Cleanup, PublishFails, diskVars, historyVars
<1>4. waiting' \in BOOLEAN /\ migrated' \in BOOLEAN
  BY DEF CertbotFails, Cleanup, PublishFails, Finished, TypeInv, TypeOK
<1> QED
  BY <1>1, <1>2, <1>3, <1>4 DEF TypeInv, TypeOK

ImportStarts ==
  /\ job' \in Job /\ job' # None /\ job'.stage = "publish"
  /\ job'.attempt = 0 /\ job'.cert = Legacy /\ Legacy \in Cert

LEMMA ImportBegins ==
  ASSUME TypeInv, NEW bad, BeginImport(bad), job' # job
  PROVE  ImportStarts
<1> DEFINE made == [stage |-> "publish", attempt |-> 0, force |-> FALSE,
                    cert |-> Legacy, base |-> None, gen |-> None]
<1>1. Alive(Legacy) /\ job' = made
  BY DEF BeginImport
<1>2. Legacy \in Cert
  BY <1>1, LegacyTyped DEF TypeInv
<1>3. 0 \in Attempts \cup {0} /\ FALSE \in BOOLEAN /\ "publish" \in Stages
  BY DEF Stages
<1>4. made \in Job
  BY <1>2, <1>3, JobMade
<1>5. made.stage = "publish" /\ made.attempt = 0 /\ made.cert = Legacy
  OBVIOUS
<1> HIDE DEF made
<1> QED
  BY <1>1, <1>2, <1>4, <1>5 DEF ImportStarts

LEMMA BeforePublishTyped ==
  ASSUME TypeInv, NEW bad, HookPresents \/ Authorize \/ BeginImport(bad)
  PROVE  TypeInv'
<1>1. CASE HookPresents
  <2>1. job.attempt \in Attempts
    BY <1>1 DEF HookPresents, At, TypeInv, JobTyped
  <2>2. JobTyped'
    BY <1>1 DEF HookPresents, TypeInv, JobTyped
  <2> QED
    BY <1>1, <2>1, <2>2 DEF HookPresents, TypeInv, TypeOK, diskVars, historyVars
<1>2. CASE Authorize
  <2>1. job \in Job /\ job # None /\ job.stage = "authorize" /\ job.cert \in Cert
    BY <1>2 DEF TypeInv, TypeOK, Authorize, At, JobTyped
  <2>2. \/ job' = [job EXCEPT !.stage = "publish"] /\ receipts' = receipts
        \/ job' = None /\ receipts' \subseteq receipts
    BY <1>2 DEF Authorize, End
  <2>3. job' \in Job \cup {None} /\ JobTyped'
    BY <2>1, <2>2 DEF Job, JobTyped, Stages, Publishing
  <2> QED
    BY <1>2, <2>2, <2>3 DEF Authorize, TypeInv, TypeOK, diskVars, historyVars
<1>3. CASE BeginImport(bad)
  <2>1. current' \in Pointer \cup {None} /\ hurts' \in 0 .. MaxHurts
    BY <1>3, RecoveredTyped, MisreadTyped DEF TypeInv, BeginImport
  <2>2. migrated' \in BOOLEAN
    BY <1>3 DEF BeginImport, TypeInv, TypeOK
  <2>3. job' \in Job \cup {None} /\ JobTyped'
    BY <1>3, ImportBegins DEF ImportStarts, TypeInv, TypeOK, JobTyped, Publishing
  <2> QED
    BY <1>3, <2>1, <2>2, <2>3 DEF BeginImport, TypeInv, TypeOK, certbotVars, historyVars
<1> QED
  BY <1>1, <1>2, <1>3

LEMMA ManifestTyped ==
  ASSUME TypeInv, NEW r \in Readers, FindUnusable(r) \/ ReadBackup(r) \/ WriteBack(r)
  PROVE  TypeInv'
<1>1. JobTyped'
  BY DEF FindUnusable, ReadBackup, WriteBack, TypeInv, JobTyped
<1>2. reader' \in [Readers -> Repair \cup {None}]
  BY DEF FindUnusable, ReadBackup, WriteBack, TypeInv, TypeOK, Repair
<1>3. hurts' \in 0 .. MaxHurts
  BY MisreadTyped DEF FindUnusable, ReadBackup, WriteBack, TypeInv, TypeOK
<1>4. current' \in Pointer \cup {None}
  BY DEF FindUnusable, ReadBackup, WriteBack, TypeInv, TypeOK, Repair, diskVars
<1> QED
  BY <1>1, <1>2, <1>3, <1>4
  DEF FindUnusable, ReadBackup, WriteBack, TypeInv, TypeOK, certbotVars, diskVars, historyVars

LEMMA SurroundingsTyped ==
  ASSUME TypeInv, Surroundings
  PROVE  TypeInv'
<1>1. JobTyped'
  BY DEF Surroundings, Tick, BackoffEnds, Damage, Crash, SetAuthorised, TypeInv, JobTyped
<1>2. /\ now' \in 0 .. MaxTime /\ hurts' \in 0 .. MaxHurts /\ events' \in 0 .. MaxEvents
  BY BoundAssumption
  DEF Surroundings, Tick, BackoffEnds, Damage, Crash, SetAuthorised, Event, TypeInv, TypeOK
<1>3. /\ authorised' \in BOOLEAN /\ waiting' \in BOOLEAN /\ migrated' \in BOOLEAN
      /\ heldSince' \in BOOLEAN
  BY DEF Surroundings, Tick, BackoffEnds, Damage, Crash, SetAuthorised, TypeInv, TypeOK,
         historyVars
<1>4. /\ job' \in Job \cup {None} /\ reader' \in [Readers -> Repair \cup {None}]
      /\ current' \in Pointer \cup {None}
  BY DEF Surroundings, Tick, BackoffEnds, Damage, Crash, SetAuthorised, TypeInv, TypeOK,
         diskVars
<1>5. UNCHANGED <<certbotVars, dirs, backup, latest, previous>>
  BY DEF Surroundings, Tick, BackoffEnds, Damage, Crash, SetAuthorised, diskVars, historyVars
<1> QED
  BY <1>1, <1>2, <1>3, <1>4, <1>5 DEF TypeInv, TypeOK, certbotVars

LEMMA TypeStep ==
  ASSUME TypeInv, [Next]_vars
  PROVE  TypeInv'
<1>1. CASE Worker
  BY <1>1, ConsiderTyped, BeforePublishTyped, CertbotTyped, BeginPublishTyped,
     PublicationTyped, EndTyped DEF Worker
<1>2. CASE Manifests
  BY <1>2, ManifestTyped DEF Manifests
<1>3. CASE Surroundings
  BY <1>3, SurroundingsTyped
<1>4. CASE UNCHANGED vars
  BY <1>4 DEF vars, certbotVars, diskVars, historyVars, TypeInv, TypeOK, JobTyped
<1> QED
  BY <1>1, <1>2, <1>3, <1>4 DEF Next

\* The state of the certificate manager keeps its types; in particular a published
\* generation's number never leaves the range it is stored in.
THEOREM TypeCorrect == Spec => []TypeOK
<1>1. Spec => []TypeInv
  BY TypeInit, TypeStep, PTL DEF Spec
<1> QED
  BY <1>1, PTL DEF TypeInv
-----------------------------------------------------------------------------
(* Publications.                                                           *)

Quiet == UNCHANGED <<now, live, receipts, attempts, job, dirs, latest>>

LEMMA QuietStep ==
  ASSUME PublicationInv, Quiet, authorised' => authorised \/ heldSince',
         heldSince => heldSince'
  PROVE  PublicationInv'
<1>1. ReceiptsKept'
  BY DEF Quiet, PublicationInv, ReceiptsKept, Asks, Due, Legacy
<1>2. AuthorisationHeld'
  BY DEF Quiet, PublicationInv, AuthorisationHeld, Import
<1>3. NumbersRise'
  BY DEF Quiet, PublicationInv, NumbersRise, New
<1> QED
  BY <1>1, <1>2, <1>3 DEF PublicationInv

\* The attempt or import ends, or the panel stops; Cleanup is among the steps.
LEMMA EndStep ==
  ASSUME TypeInv, PublicationInv, job' = None, receipts' \subseteq receipts, attempts' = attempts,
         latest' = latest, dirs' = dirs \/ Cleanup
  PROVE  PublicationInv'
<1>1. ReceiptsKept' /\ AuthorisationHeld'
  BY DEF PublicationInv, ReceiptsKept, AuthorisationHeld
<1>2. latest # None => latest \in dirs'
  BY DEF PublicationInv, NumbersRise, Cleanup, At, New
<1>3. NumbersRise'
  BY <1>2 DEF NumbersRise
<1> QED
  BY <1>1, <1>3 DEF PublicationInv

LEMMA ConsiderPublication ==
  ASSUME TypeInv, PublicationInv, NEW bad, Consider(bad)
  PROVE  PublicationInv'
<1>1. UNCHANGED <<now, authorised, live, receipts, dirs, latest, heldSince>>
  BY DEF Consider, historyVars
<1>2. CASE UNCHANGED <<attempts, job>>
  BY <1>1, <1>2, QuietStep DEF Quiet
<1>3. CASE Begins(bad)
  <2>1. receipts \subseteq 1 .. attempts
    BY DEF PublicationInv, ReceiptsKept
  <2>2. ReceiptsKept'
    BY <1>1, <1>3, <2>1 DEF Begins, ReceiptsKept
  <2>3. AuthorisationHeld' /\ NumbersRise'
    BY <1>1, <1>3 DEF Begins, PublicationInv, AuthorisationHeld, NumbersRise, Publishing, Before
  <2> QED
    BY <2>2, <2>3 DEF PublicationInv
<1> QED
  BY <1>2, <1>3, ConsiderBegins

LEMMA ImportPublication ==
  ASSUME TypeInv, PublicationInv, NEW bad, BeginImport(bad)
  PROVE  PublicationInv'
<1>1. UNCHANGED <<now, authorised, live, receipts, attempts, dirs, latest, heldSince>>
  BY DEF BeginImport, certbotVars, historyVars
<1>2. CASE job' = job
  BY <1>1, <1>2, QuietStep DEF Quiet
<1>3. CASE ImportStarts
  <2>1. 0 <= attempts
    BY BoundAssumption DEF TypeInv, TypeOK
  <2>2. ReceiptsKept'
    BY <1>1, <1>3, <2>1 DEF ImportStarts, PublicationInv, ReceiptsKept, Legacy
  <2>3. AuthorisationHeld' /\ NumbersRise'
    BY <1>1, <1>3 DEF ImportStarts, PublicationInv, AuthorisationHeld, NumbersRise, Before, Import
  <2> QED
    BY <2>2, <2>3 DEF PublicationInv
<1> QED
  BY <1>2, <1>3, ImportBegins

LEMMA CertbotPublication ==
  ASSUME TypeInv, PublicationInv, HookPresents \/ CertbotSucceeds
  PROVE  PublicationInv'
<1>1. job \in Job /\ job # None /\ job.stage = "certbot" /\ job.attempt \in Attempts
  BY DEF TypeInv, TypeOK, HookPresents, CertbotSucceeds, At, JobTyped
<1>2. /\ receipts \subseteq 1 .. attempts /\ job.attempt <= attempts
      /\ job.attempt \in receipts => Asks
  BY <1>1 DEF PublicationInv, ReceiptsKept
<1>3. attempts' = attempts /\ dirs' = dirs /\ latest' = latest
  BY DEF HookPresents, CertbotSucceeds, diskVars, historyVars
<1>4. CASE HookPresents
  <2>1. job.attempt \in 1 .. attempts
    BY <1>1, <1>2, BoundAssumption DEF Attempts, TypeInv, TypeOK
  <2>2. ReceiptsKept'
    BY <1>1, <1>2, <1>4, <2>1 DEF HookPresents, ReceiptsKept, Asks, Due
  <2>3. AuthorisationHeld' /\ NumbersRise'
    BY <1>1, <1>4 DEF HookPresents, PublicationInv, AuthorisationHeld, NumbersRise, diskVars,
                      historyVars, Import, New
  <2> QED
    BY <2>2, <2>3 DEF PublicationInv
<1>5. CASE CertbotSucceeds /\ ~ReceiptValid
  BY <1>3, <1>5, EndStep DEF CertbotSucceeds, End
<1>6. CASE CertbotSucceeds /\ ReceiptValid
  <2> DEFINE obtained == [attempt |-> job.attempt, until |-> now + Life]
  <2>1. Asks /\ receipts' = receipts
    BY <1>2, <1>6 DEF CertbotSucceeds, ReceiptValid
  <2>2. job' = [job EXCEPT !.stage = "authorize", !.cert = obtained]
    BY <1>6, <2>1 DEF CertbotSucceeds
  <2>3. obtained.attempt = job.attempt
    OBVIOUS
  <2> HIDE DEF obtained
  <2>4. obtained \in Cert
    BY <1>1, TimeAssumption, BoundAssumption DEF obtained, TypeInv, TypeOK, Cert
  <2>5. job' \in Job /\ job'.stage = "authorize"
    BY <1>1, <2>2, <2>4 DEF Job, Stages
  <2>6. job' # None /\ job'.attempt = job.attempt /\ job'.cert.attempt = job.attempt
    BY <1>1, <2>2, <2>3, <2>5 DEF Job
  <2>7. ReceiptsKept'
    BY <1>2, <1>3, <1>6, <2>1, <2>5, <2>6 DEF ReceiptsKept, ReceiptValid
  <2>8. heldSince' = authorised /\ authorised' = authorised
    BY <1>6 DEF CertbotSucceeds
  <2>9. AuthorisationHeld' /\ NumbersRise'
    BY <1>3, <2>5, <2>8
    DEF PublicationInv, AuthorisationHeld, NumbersRise, Publishing, Before
  <2> QED
    BY <2>7, <2>9 DEF PublicationInv
<1> QED
  BY <1>4, <1>5, <1>6

\* A step of an attempt to a later stage that leaves its certificate alone.
Onward(from, to) ==
  /\ job \in Job /\ job # None /\ job' \in Job /\ job' # None
  /\ job.stage = from /\ job'.stage = to /\ from \in Stages \ {"certbot"}
  /\ job'.attempt = job.attempt /\ job'.cert = job.cert
  /\ UNCHANGED <<receipts, attempts>>

LEMMA OnwardStep ==
  ASSUME TypeInv, PublicationInv, NEW from, NEW to, Onward(from, to), to # "certbot"
  PROVE  ReceiptsKept'
BY DEF PublicationInv, ReceiptsKept, Onward, Legacy

LEMMA AuthorizePublication ==
  ASSUME TypeInv, PublicationInv, Authorize
  PROVE  PublicationInv'
<1>1. job \in Job /\ job # None /\ job.stage = "authorize"
  BY DEF TypeInv, TypeOK, Authorize, At
<1>2. UNCHANGED <<authorised, attempts, dirs, latest, heldSince>>
  BY DEF Authorize, diskVars, historyVars
<1>3. CASE job' = None
  BY <1>2, <1>3, EndStep DEF Authorize, End
<1>4. CASE job' # None
  <2>1. authorised /\ job' = [job EXCEPT !.stage = "publish"] /\ receipts' = receipts
    BY <1>4 DEF Authorize, End
  <2>2. Onward("authorize", "publish")
    BY <1>1, <1>2, <2>1 DEF Onward, Job, Stages
  <2>3. ReceiptsKept'
    BY <2>2, OnwardStep
  <2>4. heldSince
    BY <1>1, <2>1 DEF PublicationInv, AuthorisationHeld
  <2>5. AuthorisationHeld' /\ NumbersRise'
    BY <1>2, <2>2, <2>4 DEF PublicationInv, AuthorisationHeld, NumbersRise, Before, Onward
  <2> QED
    BY <2>3, <2>5 DEF PublicationInv
<1> QED
  BY <1>3, <1>4

LEMMA BeginPublication ==
  ASSUME TypeInv, TypeInv', PublicationInv, NEW bad, BeginPublish(bad)
  PROVE  PublicationInv'
<1>1. job \in Job /\ job # None /\ job.stage = "publish"
  BY DEF TypeInv, TypeOK, BeginPublish, At
<1>2. UNCHANGED <<attempts, dirs, latest, heldSince>>
  BY DEF BeginPublish, historyVars
<1>3. CASE Finished
  BY <1>2, <1>3, EndStep DEF Finished, End
<1>4. ASSUME NEW g \in NextGeneration(Recovered(bad)), receipts' = receipts,
             job' = [job EXCEPT !.stage = "install", !.base = Recovered(bad), !.gen = g]
      PROVE  PublicationInv'
  <2>1. Recovered(bad) \in Pointer \cup {None} /\ g \in Gens
    BY RecoveredTyped DEF TypeInv, NextGeneration
  <2>2. Onward("publish", "install") /\ job'.gen = g
    BY <1>1, <1>2, <1>4, <2>1 DEF Onward, Job, Stages, Publishing
  <2>3. ReceiptsKept'
    BY <2>2, OnwardStep
  <2>4. AuthorisationHeld'
    BY <1>2, <2>2
    DEF PublicationInv, AuthorisationHeld, Onward, Import, Publishing
  <2>5. \A d \in dirs : g > d.gen
    BY <1>1 DEF NextGeneration, TypeInv, TypeOK, Pointer, Gens
  <2>6. NumbersRise'
    BY <1>2, <2>2, <2>5 DEF PublicationInv, NumbersRise, Onward, Before
  <2> QED
    BY <2>3, <2>4, <2>6 DEF PublicationInv
<1> QED
  BY <1>3, <1>4 DEF BeginPublish

LEMMA WritesPublication ==
  ASSUME TypeInv, PublicationInv, InstallGeneration \/ WriteBackup \/ WriteCurrent
  PROVE  PublicationInv'
<1>1. job \in Job /\ job # None /\ UNCHANGED <<receipts, attempts, heldSince>>
  BY DEF TypeInv, TypeOK, InstallGeneration, WriteBackup, WriteCurrent, At, certbotVars,
         historyVars
<1>2. CASE InstallGeneration
  <2>1. Onward("install", "backup") /\ New' = New
    BY <1>1, <1>2 DEF Onward, InstallGeneration, At, Job, Stages, Publishing, New
  <2>2. latest' = latest /\ dirs' = dirs \cup {New} /\ job'.gen = job.gen
    BY <1>1, <1>2 DEF InstallGeneration, historyVars, Job
  <2>3. ReceiptsKept'
    BY <2>1, OnwardStep
  <2>4. AuthorisationHeld'
    BY <1>1, <2>1 DEF PublicationInv, AuthorisationHeld, Onward, Import, Publishing
  <2>5. NumbersRise'
    BY <2>1, <2>2 DEF PublicationInv, NumbersRise, Onward, Before
  <2> QED
    BY <2>3, <2>4, <2>5 DEF PublicationInv
<1>3. CASE WriteBackup
  <2>1. Onward("backup", "current") /\ New' = New
    BY <1>1, <1>3 DEF Onward, WriteBackup, At, Job, Stages, Publishing, New
  <2>2. latest' = latest /\ dirs' = dirs /\ job'.gen = job.gen
    BY <1>1, <1>3 DEF WriteBackup, historyVars, Job
  <2>3. ReceiptsKept'
    BY <2>1, OnwardStep
  <2>4. AuthorisationHeld'
    BY <1>1, <2>1 DEF PublicationInv, AuthorisationHeld, Onward, Import, Publishing
  <2>5. NumbersRise'
    BY <2>1, <2>2 DEF PublicationInv, NumbersRise, Onward, Before
  <2> QED
    BY <2>3, <2>4, <2>5 DEF PublicationInv
<1>4. CASE WriteCurrent
  <2>1. Onward("current", "cleanup") /\ New' = New
    BY <1>1, <1>4 DEF Onward, WriteCurrent, At, Job, Stages, Publishing, New
  <2>2. latest' = New /\ dirs' = dirs
    BY <1>4 DEF WriteCurrent
  <2>3. ReceiptsKept'
    BY <2>1, OnwardStep
  <2>4. AuthorisationHeld'
    BY <1>1, <2>1 DEF PublicationInv, AuthorisationHeld, Onward, Import, Publishing
  <2>5. NumbersRise'
    BY <2>1, <2>2 DEF PublicationInv, NumbersRise, Onward, Before
  <2> QED
    BY <2>3, <2>4, <2>5 DEF PublicationInv
<1> QED
  BY <1>2, <1>3, <1>4

LEMMA SurroundingsPublication ==
  ASSUME TypeInv, PublicationInv, Surroundings
  PROVE  PublicationInv'
<1>1. CASE Tick
  <2>1. job = None /\ UNCHANGED <<receipts, attempts, job, dirs, latest>>
    BY <1>1 DEF Tick, certbotVars, diskVars, historyVars
  <2> QED
    BY <2>1, EndStep
<1>2. CASE BackoffEnds \/ Damage
  BY <1>2, QuietStep DEF BackoffEnds, Damage, Quiet, certbotVars, diskVars, historyVars
<1>3. CASE \E on \in BOOLEAN : SetAuthorised(on)
  <2>1. PICK on \in BOOLEAN : SetAuthorised(on)
    BY <1>3
  <2>2. Quiet
    BY <2>1 DEF SetAuthorised, Quiet, certbotVars, diskVars
  <2>3. authorised' = on /\ heldSince' = (heldSince \/ on)
    BY <2>1 DEF SetAuthorised
  <2> QED
    BY <2>2, <2>3, QuietStep
<1>4. CASE Crash
  BY <1>4, EndStep DEF Crash, certbotVars, diskVars, historyVars
<1> QED
  BY <1>1, <1>2, <1>3, <1>4 DEF Surroundings

LEMMA PublicationStep ==
  ASSUME TypeInv, TypeInv', PublicationInv, [Next]_vars
  PROVE  PublicationInv'
<1>1. ASSUME NEW bad, Consider(bad) \/ BeginImport(bad) \/ BeginPublish(bad)
      PROVE  PublicationInv'
  BY <1>1, ConsiderPublication, ImportPublication, BeginPublication
<1>2. CASE \/ HookPresents \/ CertbotSucceeds \/ Authorize
           \/ InstallGeneration \/ WriteBackup \/ WriteCurrent
  BY <1>2, CertbotPublication, AuthorizePublication, WritesPublication
<1>3. CASE CertbotFails \/ Cleanup \/ PublishFails
  BY <1>3, EndStep DEF CertbotFails, Cleanup, PublishFails, Finished, End, diskVars, historyVars
<1>4. ASSUME NEW r \in Readers, FindUnusable(r) \/ ReadBackup(r) \/ WriteBack(r)
      PROVE  PublicationInv'
  BY <1>4, QuietStep
  DEF FindUnusable, ReadBackup, WriteBack, Quiet, certbotVars, diskVars, historyVars
<1>5. CASE Surroundings
  BY <1>5, SurroundingsPublication
<1>6. CASE UNCHANGED vars
  BY <1>6, QuietStep DEF vars, Quiet, certbotVars, diskVars, historyVars
<1> QED
  BY <1>1, <1>2, <1>3, <1>4, <1>5, <1>6 DEF Next, Worker, Manifests

LEMMA PublicationInit == Init => PublicationInv
BY DEF Init, PublicationInv, ReceiptsKept, AuthorisationHeld, NumbersRise

LEMMA OnlyWriteCurrentPublishes ==
  ASSUME [Next]_vars, latest' # latest
  PROVE  WriteCurrent
BY DEF Next, vars, historyVars, Worker, Consider, BeginImport, BeginPublish, HookPresents,
       CertbotSucceeds, CertbotFails, Authorize, InstallGeneration, WriteBackup, Cleanup,
       PublishFails, Manifests, FindUnusable, ReadBackup, WriteBack, Surroundings, Tick,
       BackoffEnds, Damage, Crash, SetAuthorised

\* However attempts, changes of the authorisation, crashes and manifests interleave,
\* what is published has a number above all earlier ones, was obtained by an attempt
\* whose own challenge was seen to propagate, and was authorised after certbot ended.
THEOREM PublicationsAreSound == Spec => PublicationIsSound
<1>1. TypeInv /\ PublicationInv /\ [Next]_vars =>
        [latest' # latest =>
           /\ latest # None => latest'.gen > latest.gen
           /\ \/ latest'.cert = Legacy
              \/ latest'.cert.attempt \in receipts /\ heldSince]_vars
  <2> SUFFICES ASSUME TypeInv, PublicationInv, [Next]_vars, latest' # latest
      PROVE  /\ latest # None => latest'.gen > latest.gen
             /\ \/ latest'.cert = Legacy
                \/ latest'.cert.attempt \in receipts /\ heldSince
    OBVIOUS
  <2>1. job # None /\ job.stage = "current" /\ latest' = New
    BY OnlyWriteCurrentPublishes DEF WriteCurrent, At
  <2>2. latest'.gen = job.gen /\ latest'.cert = job.cert
    BY <2>1 DEF New
  <2>3. latest # None => job.gen > latest.gen
    BY <2>1 DEF PublicationInv, NumbersRise, Before
  <2>4. job.cert = Legacy \/ job.cert.attempt \in receipts
    BY <2>1 DEF PublicationInv, ReceiptsKept
  <2>5. job.cert = Legacy \/ heldSince
    BY <2>1 DEF PublicationInv, ReceiptsKept, AuthorisationHeld, Import, Publishing
  <2> QED
    BY <2>2, <2>3, <2>4, <2>5
<1>2. TypeInv /\ PublicationInv /\ [Next]_vars => TypeInv' /\ PublicationInv'
  BY TypeStep, PublicationStep
<1>3. Init => TypeInv /\ PublicationInv
  BY TypeInit, PublicationInit
<1> QED
  BY <1>1, <1>2, <1>3, PTL DEF Spec, PublicationIsSound
-----------------------------------------------------------------------------
(* The certificate that is served.                                         *)

Inv == TypeInv /\ PublicationInv /\ SurvivalInv

\* While current.json is sound the backup is never needed: it expires no later.
LEMMA BackupNotNeeded ==
  ASSUME TypeInv, PublicationInv, Unhurt
  PROVE  /\ Valid(backup) => Valid(current)
         /\ Recovered({}) = IF Valid(current) THEN current ELSE None
<1>1. now \in Nat /\ dirs \subseteq Pointer /\ latest \in Pointer \cup {None}
  BY BoundAssumption DEF TypeInv, TypeOK
<1>2. ASSUME Valid(backup) PROVE Valid(current)
  <2>1. backup \in Pointer /\ Alive(backup.cert)
    BY <1>1, <1>2 DEF Valid
  <2>2. latest \in dirs /\ latest = current /\ backup.cert.until <= latest.cert.until
    BY <2>1 DEF Unhurt, BackupOlder, PublicationInv, NumbersRise
  <2>3. backup.cert.until \in Nat /\ latest.cert.until \in Nat
    BY <1>1, <2>1, <2>2, TimeAssumption, BoundAssumption DEF Pointer, Cert
  <2> QED
    BY <1>1, <2>1, <2>2, <2>3 DEF Valid, Alive
<1> QED
  BY <1>2 DEF Recovered

LEMMA CurrentStays ==
  ASSUME TypeInv, PublicationInv, SurvivalInv, NEW bad, Misread(bad), Recover(bad), hurts' = 0
  PROVE  /\ Unhurt /\ current' = current
         /\ Recovered(bad) = IF Valid(current) THEN current ELSE None
<1>1. hurts = 0 /\ bad = {}
  BY BoundAssumption DEF Misread, TypeInv, TypeOK
<1>2. Unhurt
  BY <1>1 DEF SurvivalInv
<1>3. Recovered({}) = IF Valid(current) THEN current ELSE None
  BY <1>2, BackupNotNeeded
<1> QED
  BY <1>1, <1>2, <1>3 DEF Recover

\* Steps that change nothing of this.
LEMMA UntouchedStep ==
  ASSUME SurvivalInv, UNCHANGED <<now, migrated, job, dirs, current, backup, reader, latest>>,
         hurts' = 0 => hurts = 0
  PROVE  SurvivalInv'
<1>1. Solid'
  BY DEF SurvivalInv, Solid, BackupKept, ImportFirst, FreshJob, Import, Due
<1>2. Unhurt => Unhurt'
  BY DEF Unhurt, OldDue, BackupOlder, BaseIsLatest, ReadersIdle, Valid, Alive, Due, Import
<1> QED
  BY <1>1, <1>2 DEF SurvivalInv

\* The job ends; generations may be removed that neither pointer names.
LEMMA EndSurvives ==
  ASSUME TypeInv, PublicationInv, SurvivalInv,
         job' = None, UNCHANGED <<now, backup, reader, latest>>,
         migrated => migrated',
         dirs' \subseteq dirs, backup # None => backup \in dirs',
         hurts' = 0 => Unhurt /\ current' = current
  PROVE  SurvivalInv'
<1>1. Solid'
  BY DEF SurvivalInv, Solid, BackupKept, ImportFirst, FreshJob
<1>2. ASSUME hurts' = 0 PROVE Unhurt'
  <2>1. Valid(current)' => Valid(current)
    BY <1>2 DEF Valid, Alive
  <2>2. Valid(backup)' => Valid(backup)
    BY DEF Valid, Alive
  <2>3. ReadersIdle'
    BY <1>2, <2>1, <2>2 DEF Unhurt, ReadersIdle, Due
  <2> QED
    BY <1>2, <2>3 DEF Unhurt, OldDue, BackupOlder, BaseIsLatest
<1> QED
  BY <1>1, <1>2 DEF SurvivalInv

LEMMA EndsSurvive ==
  ASSUME Inv, CertbotFails \/ PublishFails \/ Cleanup
  PROVE  SurvivalInv'
<1>1. job' = None /\ UNCHANGED <<now, current, backup, reader, latest, hurts>>
  BY DEF CertbotFails, PublishFails, Cleanup, Finished, End, diskVars, historyVars
<1>2. dirs' \subseteq dirs /\ (backup # None => backup \in dirs')
  BY DEF CertbotFails, PublishFails, Cleanup, diskVars, Inv, SurvivalInv, Solid, BackupKept
<1>3. hurts' = 0 => Unhurt /\ current' = current
  BY <1>1 DEF Inv, SurvivalInv
<1>4. migrated => migrated'
  BY DEF CertbotFails, PublishFails, Cleanup, Finished
<1> QED
  BY <1>1, <1>2, <1>3, <1>4, EndSurvives DEF Inv

LEMMA ConsiderSurvives ==
  ASSUME Inv, NEW bad, Consider(bad)
  PROVE  SurvivalInv'
<1>1. /\ job = None /\ UNCHANGED <<now, migrated, dirs, backup, reader, latest>>
      /\ Misread(bad) /\ Recover(bad) /\ migrated
  BY DEF Consider, historyVars
<1>2. job' = None \/ Begins(bad)
  BY <1>1, ConsiderBegins DEF Inv
<1>3. job' # None => job'.stage = "certbot" /\ ~Import'
  BY <1>2 DEF Begins, Import, Attempts
<1>4. Solid'
  BY <1>1, <1>3 DEF Inv, SurvivalInv, Solid, BackupKept, ImportFirst, FreshJob, Before,
                    Publishing
<1>5. ASSUME hurts' = 0 PROVE Unhurt'
  <2>1. /\ Unhurt /\ current' = current
        /\ Recovered(bad) = IF Valid(current) THEN current ELSE None
    BY <1>1, <1>5, CurrentStays DEF Inv
  <2>2. Valid(current) => current # None
    BY DEF Valid, Inv, TypeInv, TypeOK
  <2>3. OldDue'
    BY <1>1, <1>2, <2>1, <2>2 DEF OldDue, Begins, Valid, Alive, Due
  <2>4. ReadersIdle'
    BY <1>1, <1>3, <2>1 DEF Unhurt, ReadersIdle, Valid, Alive, Due, Before
  <2> QED
    BY <1>1, <1>3, <2>1, <2>3, <2>4 DEF Unhurt, BackupOlder, BaseIsLatest, Before
<1> QED
  BY <1>4, <1>5 DEF SurvivalInv

LEMMA ImportSurvives ==
  ASSUME Inv, NEW bad, BeginImport(bad)
  PROVE  SurvivalInv'
<1>1. /\ job = None /\ UNCHANGED <<now, dirs, backup, reader, latest>>
      /\ Misread(bad) /\ Recover(bad) /\ ~migrated
  BY DEF BeginImport, certbotVars, historyVars
<1>2. job' = None \/ (ImportStarts /\ migrated' = migrated)
  BY <1>1, ImportBegins DEF Inv, BeginImport
<1>3. \A r \in Readers : reader[r] = None
  BY <1>1 DEF Inv, SurvivalInv, Solid, ImportFirst
<1>4. job' # None => job'.stage = "publish" /\ Import' /\ ~migrated'
  BY <1>1, <1>2 DEF ImportStarts, Import
<1>5. Solid'
  BY <1>1, <1>3, <1>4 DEF Inv, SurvivalInv, Solid, BackupKept, ImportFirst, FreshJob, Before
<1>6. ASSUME hurts' = 0 PROVE Unhurt'
  <2>1. Unhurt /\ current' = current
    BY <1>1, <1>6, CurrentStays DEF Inv
  <2> QED
    BY <1>1, <1>3, <1>4, <2>1
    DEF Unhurt, OldDue, BackupOlder, BaseIsLatest, ReadersIdle, Before
<1> QED
  BY <1>5, <1>6 DEF SurvivalInv

LEMMA EarlySurvives ==
  ASSUME Inv, CertbotSucceeds \/ Authorize
  PROVE  SurvivalInv'
<1>1. job \in Job /\ job # None /\ job.stage \in {"certbot", "authorize"}
  BY DEF CertbotSucceeds, Authorize, At, Inv, TypeInv, TypeOK
<1>2. UNCHANGED <<now, migrated, dirs, current, backup, reader, latest, hurts>>
  BY DEF CertbotSucceeds, Authorize, diskVars, historyVars
<1>3. CASE job' = None
  <2>1. /\ backup # None => backup \in dirs
        /\ hurts = 0 => Unhurt
    BY DEF Inv, SurvivalInv, Solid, BackupKept
  <2> QED
    BY <1>2, <1>3, <2>1, EndSurvives DEF Inv
<1>4. CASE job' # None
  <2>1. job'.stage \in {"authorize", "publish"} /\ job'.attempt = job.attempt
    BY <1>1, <1>4 DEF CertbotSucceeds, Authorize, End, Job
  <2>2. Solid'
    BY <1>1, <1>2, <2>1
    DEF Inv, SurvivalInv, Solid, BackupKept, ImportFirst, FreshJob, Import, Before, Publishing
  <2>3. Unhurt => Unhurt'
    BY <1>1, <1>2, <2>1
    DEF Unhurt, OldDue, BackupOlder, BaseIsLatest, ReadersIdle, Valid, Alive, Due, Import,
        Before
  <2> QED
    BY <1>2, <2>2, <2>3 DEF Inv, SurvivalInv
<1> QED
  BY <1>3, <1>4

\* An import takes the place of nothing.
LEMMA ImportHasNoBase ==
  ASSUME Inv, NEW bad, BeginPublish(bad), Recovered(bad) # None,
         Newer(job.cert, Recovered(bad).cert)
  PROVE  ~Import
<1>1. Recovered(bad).cert.attempt \in Nat
  BY RecoveredTyped DEF Inv, TypeInv, Pointer, Cert, Attempts
<1>2. 0 \notin receipts
  BY DEF Inv, TypeInv, TypeOK, Attempts
<1>3. Import => job.cert = Legacy
  BY <1>2 DEF Inv, PublicationInv, ReceiptsKept, BeginPublish, At, Import
<1> QED
  BY <1>1, <1>3 DEF Newer, Legacy

LEMMA BeginSurvives ==
  ASSUME Inv, NEW bad, BeginPublish(bad)
  PROVE  SurvivalInv'
<1> DEFINE base == Recovered(bad)
<1>1. /\ job \in Job /\ job # None /\ job.stage = "publish" /\ job.cert \in Cert
      /\ now \in Nat /\ dirs \subseteq Pointer
  <2>1. now \in Nat
    BY BoundAssumption DEF Inv, TypeInv, TypeOK
  <2> QED
    BY <2>1 DEF BeginPublish, At, Inv, TypeInv, TypeOK, JobTyped
<1>2. /\ UNCHANGED <<now, dirs, backup, reader, latest>>
      /\ Misread(bad) /\ Recover(bad) /\ (Import \/ ~Due(job.cert))
  BY DEF BeginPublish, historyVars
<1>3. hurts' = 0 =>
        /\ Unhurt /\ current' = current
        /\ base = IF Valid(current) THEN current ELSE None
  BY <1>2, CurrentStays DEF Inv
<1>4. base \in Pointer \cup {None} /\ (base # None => Valid(base))
  BY RecoveredTyped DEF Inv, TypeInv
<1>5. CASE Finished
  <2>1. job' = None /\ (migrated => migrated') /\ (backup # None => backup \in dirs)
    BY <1>5 DEF Finished, End, Inv, SurvivalInv, Solid, BackupKept
  <2> QED
    BY <1>2, <1>3, <2>1, EndSurvives DEF Inv
<1>6. ASSUME NEW g \in Gens, base # None => Newer(job.cert, base.cert), migrated' = migrated,
             job' = [job EXCEPT !.stage = "install", !.base = base, !.gen = g]
      PROVE  SurvivalInv'
  <2>1. /\ job' # None /\ job'.stage = "install" /\ job'.base = base
        /\ job'.attempt = job.attempt /\ job'.cert = job.cert
    <3> HIDE DEF base
    <3>1. job' \in Job
      BY <1>1, <1>4, <1>6 DEF Job, Stages, Publishing
    <3> QED
      BY <1>1, <1>4, <1>6, <3>1 DEF Job
  <2>2. base # None => ~Import
    BY <1>6, ImportHasNoBase
  <2>3. Solid'
    BY <1>1, <1>4, <1>2, <1>6, <2>1, <2>2
    DEF Inv, SurvivalInv, Solid, BackupKept, ImportFirst, FreshJob, Import, Valid, Due
  <2>4. ASSUME hurts' = 0 PROVE Unhurt'
    <3>1. base # None => base = latest /\ Due(base.cert)
      BY <1>1, <1>4, <1>3, <2>2, <2>4 DEF Unhurt, OldDue
    <3>2. base # None => base.cert.until <= job.cert.until
      <4>1. CASE base # None
        <5>1. base.cert.until \in Nat /\ job.cert.until \in Nat
          BY <1>1, <1>4, <4>1, TimeAssumption, BoundAssumption DEF Pointer, Cert
        <5>2. base.cert.until <= now + Window /\ ~(job.cert.until <= now + Window)
          BY <1>2, <2>2, <3>1, <4>1 DEF Due
        <5> QED
          BY <1>1, <1>4, <5>1, <5>2, TimeAssumption
      <4> QED
        BY <4>1
    <3>3. BaseIsLatest'
      BY <1>1, <1>4, <1>2, <2>1, <3>1, <3>2 DEF BaseIsLatest, Valid, Alive
    <3>4. ASSUME NEW r \in Readers, reader[r] # None PROVE base = None
      <4>1. ~Import
        BY <3>4, <1>1 DEF Inv, SurvivalInv, Solid, ImportFirst
      <4>2. Valid(current) => Due(current.cert) /\ ~Due(current.cert)
        BY <1>1, <1>4, <1>3, <2>4, <3>4, <4>1 DEF Unhurt, OldDue, ReadersIdle
      <4> QED
        BY <1>3, <2>4, <4>2
    <3>5. ReadersIdle'
      BY <1>2, <1>3, <2>1, <2>4, <3>4 DEF Unhurt, ReadersIdle, Valid, Alive, Due
    <3> QED
      BY <1>2, <1>3, <2>1, <2>4, <3>3, <3>5 DEF Unhurt, OldDue, BackupOlder
  <2> QED
    BY <2>3, <2>4 DEF SurvivalInv
<1> QED
  BY <1>5, <1>6 DEF BeginPublish, NextGeneration

LEMMA WritesSurvive ==
  ASSUME Inv, InstallGeneration \/ WriteBackup \/ WriteCurrent
  PROVE  SurvivalInv'
<1>1. /\ job \in Job /\ job # None /\ job.stage \in Before /\ New \in Pointer
      /\ dirs \subseteq Pointer
  BY NewTyped DEF InstallGeneration, WriteBackup, WriteCurrent, At, Inv, TypeInv, TypeOK, Before,
                  Publishing
<1>2. UNCHANGED <<now, migrated, reader, hurts>>
  BY DEF InstallGeneration, WriteBackup, WriteCurrent
<1>3. PICK to \in Publishing : job' = [job EXCEPT !.stage = to]
  BY DEF InstallGeneration, WriteBackup, WriteCurrent, Publishing
<1>4. /\ job' # None /\ job'.stage = to /\ job'.attempt = job.attempt /\ job'.cert = job.cert
      /\ job'.base = job.base
  <2>1. job' \in Job
    BY <1>1, <1>3 DEF Job, Stages
  <2> QED
    BY <1>1, <1>3, <2>1 DEF Job
<1>5. ImportFirst' /\ FreshJob'
  BY <1>1, <1>2, <1>4
  DEF Inv, SurvivalInv, Solid, ImportFirst, FreshJob, Import, Before, Publishing, Due
<1>6. CASE InstallGeneration
  <2>1. /\ UNCHANGED <<current, backup, latest>> /\ dirs' = dirs \cup {New} /\ to = "backup"
        /\ job.stage = "install"
    BY <1>4, <1>6, <1>1 DEF InstallGeneration, historyVars, At, Job
  <2>2. BackupKept'
    BY <1>1, <1>4, <2>1 DEF Inv, SurvivalInv, Solid, BackupKept, Before
  <2>3. ASSUME Unhurt PROVE Unhurt'
    <3>1. (Valid(current)' => Valid(current)) /\ (Valid(backup)' => Valid(backup))
      BY <1>1, <1>2, <2>1, <2>3
      DEF Valid, Alive, Unhurt, Inv, PublicationInv, NumbersRise, SurvivalInv, Solid, BackupKept
    <3>2. ReadersIdle'
      BY <1>1, <1>2, <1>4, <2>1, <2>3, <3>1 DEF Unhurt, ReadersIdle, Due, Before
    <3>3. BaseIsLatest'
      BY <1>1, <1>2, <1>4, <2>1, <2>3 DEF Unhurt, BaseIsLatest, Alive, Before
    <3> QED
      BY <1>4, <2>1, <2>3, <3>2, <3>3 DEF Unhurt, OldDue, BackupOlder
  <2> QED
    BY <1>2, <1>5, <2>2, <2>3 DEF Inv, SurvivalInv, Solid
<1>7. CASE WriteBackup
  <2>1. /\ UNCHANGED <<current, dirs, latest>> /\ backup' = job.base /\ to = "current"
        /\ job.stage = "backup"
    BY <1>4, <1>7, <1>1 DEF WriteBackup, historyVars, At, Job
  <2>2. BackupKept'
    BY <1>1, <1>4, <2>1 DEF Inv, SurvivalInv, Solid, BackupKept, Before
  <2>3. ASSUME Unhurt PROVE Unhurt'
    <3>1. BackupOlder'
      <4>1. job.base # None => latest # None /\ job.base = latest
        BY <1>1, <2>3 DEF Unhurt, BaseIsLatest
      <4>2. latest # None => latest.cert.until <= latest.cert.until
        BY TimeAssumption, BoundAssumption DEF Inv, TypeInv, TypeOK, Pointer, Cert
      <4> QED
        BY <2>1, <4>1, <4>2 DEF BackupOlder
    <3>2. ReadersIdle'
      BY <1>1, <1>2, <1>4, <2>1, <2>3 DEF Unhurt, ReadersIdle, Due, Valid, Alive, Before
    <3>3. BaseIsLatest'
      BY <1>1, <1>2, <1>4, <2>1, <2>3 DEF Unhurt, BaseIsLatest, Alive, Before
    <3> QED
      BY <1>4, <2>1, <2>3, <3>1, <3>2, <3>3 DEF Unhurt, OldDue
  <2> QED
    BY <1>2, <1>5, <2>2, <2>3 DEF Inv, SurvivalInv, Solid
<1>8. CASE WriteCurrent
  <2>1. /\ current' = New /\ latest' = New /\ UNCHANGED <<dirs, backup>> /\ to = "cleanup"
        /\ job.stage = "current"
    BY <1>4, <1>8, <1>1 DEF WriteCurrent, At, Job
  <2>2. BackupKept'
    BY <1>1, <1>4, <2>1 DEF Inv, SurvivalInv, Solid, BackupKept, Before
  <2>3. ASSUME Unhurt PROVE Unhurt'
    <3>1. New # None /\ New.cert = job.cert
      BY <1>1 DEF New
    <3>2. BackupOlder'
      BY <1>1, <2>1, <2>3, <3>1
      DEF Unhurt, BackupOlder, BaseIsLatest, Inv, SurvivalInv, Solid, BackupKept
    <3>3. ASSUME NEW r \in Readers, reader[r] # None PROVE ~Due(job.cert)
      BY <1>1, <3>3 DEF Inv, SurvivalInv, Solid, ImportFirst, FreshJob, Before, Publishing
    <3>4. \A r \in Readers : reader'[r] # None => ~Due(current.cert)'
      BY <1>2, <2>1, <3>1, <3>3 DEF Due
    <3>5. ReadersIdle'
      BY <1>2, <1>4, <2>1, <2>3, <3>4 DEF Unhurt, ReadersIdle, Due, Valid, Alive, Before
    <3> QED
      BY <1>4, <2>1, <2>3, <3>2, <3>5 DEF Unhurt, OldDue, BaseIsLatest, Before
  <2> QED
    BY <1>2, <1>5, <2>2, <2>3 DEF Inv, SurvivalInv, Solid
<1> QED
  BY <1>6, <1>7, <1>8

LEMMA ManifestsSurvive ==
  ASSUME Inv, NEW r \in Readers, FindUnusable(r) \/ ReadBackup(r) \/ WriteBack(r)
  PROVE  SurvivalInv'
<1>1. UNCHANGED <<now, migrated, job, dirs, backup, latest>>
  BY DEF FindUnusable, ReadBackup, WriteBack, diskVars, historyVars
<1>2. migrated
  BY DEF FindUnusable, ReadBackup, WriteBack, Inv, SurvivalInv, Solid, ImportFirst, TypeInv,
         TypeOK, Repair
<1>3. Solid'
  BY <1>1, <1>2 DEF Inv, SurvivalInv, Solid, BackupKept, ImportFirst, FreshJob, Import, Due
<1>4. ASSUME hurts' = 0 PROVE Unhurt'
  <2>1. hurts = 0 /\ Unhurt
    BY <1>4, BoundAssumption
    DEF FindUnusable, ReadBackup, WriteBack, Misread, Inv, SurvivalInv, TypeInv, TypeOK
  <2>2. Valid(backup) => Valid(current)
    BY <2>1, BackupNotNeeded DEF Inv
  <2>3. ~WriteBack(r) /\ UNCHANGED current
    BY <2>1 DEF WriteBack, FindUnusable, ReadBackup, Unhurt, ReadersIdle, diskVars
  <2>4. \A q \in Readers \ {r} : reader'[q] = reader[q]
    BY <2>3 DEF FindUnusable, ReadBackup, Inv, TypeInv, TypeOK
  <2>5. CASE FindUnusable(r)
    <3>1. ~Valid(current) /\ reader'[r] = [pointer |-> None]
      BY <1>4, <2>1, <2>5, BoundAssumption
      DEF FindUnusable, Misread, Inv, TypeInv, TypeOK
    <3>2. job # None /\ job.stage \in Before => job.base = None
      BY <2>1, <3>1
      DEF Unhurt, BaseIsLatest, Valid, Inv, PublicationInv, NumbersRise
    <3> QED
      BY <1>1, <2>1, <2>2, <2>3, <2>4, <3>1, <3>2
      DEF Unhurt, OldDue, BackupOlder, BaseIsLatest, ReadersIdle, Valid, Alive, Due, Import
  <2>6. CASE ReadBackup(r)
    <3>1. ~Valid(backup)
      BY <2>1, <2>6 DEF ReadBackup, Unhurt, ReadersIdle, Inv, TypeInv, TypeOK, Repair
    <3>2. reader'[r] = None
      BY <2>6, <3>1 DEF ReadBackup, Inv, TypeInv, TypeOK
    <3> QED
      BY <1>1, <2>1, <2>3, <2>4, <3>2
      DEF Unhurt, OldDue, BackupOlder, BaseIsLatest, ReadersIdle, Valid, Alive, Due, Import
  <2> QED
    BY <2>3, <2>5, <2>6
<1> QED
  BY <1>3, <1>4 DEF SurvivalInv

LEMMA SurroundingsSurvive ==
  ASSUME Inv, Surroundings
  PROVE  SurvivalInv'
<1>1. CASE Tick
  <2>1. /\ job = None /\ (\A r \in Readers : reader[r] = None)
        /\ UNCHANGED <<migrated, job, dirs, current, backup, reader, latest, hurts>>
    BY <1>1 DEF Tick, diskVars, historyVars
  <2>2. Solid'
    BY <2>1 DEF Inv, SurvivalInv, Solid, BackupKept, ImportFirst, FreshJob
  <2>3. Unhurt => Unhurt'
    BY <2>1 DEF Unhurt, OldDue, BackupOlder, BaseIsLatest, ReadersIdle
  <2> QED
    BY <2>1, <2>2, <2>3 DEF Inv, SurvivalInv
<1>2. CASE BackoffEnds
  BY <1>2, UntouchedStep DEF Inv, BackoffEnds, diskVars, historyVars
<1>3. CASE \E on \in BOOLEAN : SetAuthorised(on)
  BY <1>3, UntouchedStep DEF Inv, SetAuthorised, diskVars
<1>4. CASE Damage
  <2>1. hurts' # 0
    BY <1>4, BoundAssumption DEF Damage, Inv, TypeInv, TypeOK
  <2>2. Solid'
    BY <1>4
    DEF Damage, Inv, SurvivalInv, Solid, BackupKept, ImportFirst, FreshJob, Import, Due,
        historyVars
  <2> QED
    BY <2>1, <2>2 DEF SurvivalInv
<1>5. CASE Crash
  <2>1. /\ job' = None /\ (\A r \in Readers : reader'[r] = None)
        /\ UNCHANGED <<now, dirs, current, backup, latest, hurts>>
    BY <1>5 DEF Crash, diskVars, historyVars
  <2>2. Solid'
    BY <2>1 DEF Inv, SurvivalInv, Solid, BackupKept, ImportFirst, FreshJob
  <2>3. Unhurt => Unhurt'
    BY <2>1 DEF Unhurt, OldDue, BackupOlder, BaseIsLatest, ReadersIdle
  <2> QED
    BY <2>1, <2>2, <2>3 DEF Inv, SurvivalInv
<1> QED
  BY <1>1, <1>2, <1>3, <1>4, <1>5 DEF Surroundings

LEMMA InvStep ==
  ASSUME Inv, [Next]_vars
  PROVE  Inv'
<1>1. TypeInv' /\ PublicationInv'
  BY TypeStep, PublicationStep DEF Inv
<1>2. SurvivalInv'
  <2>1. ASSUME NEW bad, Consider(bad) \/ BeginImport(bad) \/ BeginPublish(bad)
        PROVE  SurvivalInv'
    BY <2>1, ConsiderSurvives, ImportSurvives, BeginSurvives
  <2>2. CASE HookPresents \/ CertbotSucceeds \/ Authorize
    BY <2>2, EarlySurvives, UntouchedStep DEF Inv, HookPresents, diskVars, historyVars
  <2>3. CASE InstallGeneration \/ WriteBackup \/ WriteCurrent
    BY <2>3, WritesSurvive
  <2>4. CASE CertbotFails \/ PublishFails \/ Cleanup
    BY <2>4, EndsSurvive
  <2>5. CASE Manifests
    BY <2>5, ManifestsSurvive DEF Manifests
  <2>6. CASE Surroundings
    BY <2>6, SurroundingsSurvive
  <2>7. CASE UNCHANGED vars
    BY <2>7, UntouchedStep DEF Inv, vars, diskVars, historyVars
  <2> QED
    BY <2>1, <2>2, <2>3, <2>4, <2>5, <2>6, <2>7 DEF Next, Worker
<1> QED
  BY <1>1, <1>2 DEF Inv

LEMMA SurvivalInit == Init => SurvivalInv
BY DEF Init, SurvivalInv, Solid, BackupKept, ImportFirst, FreshJob, Unhurt, OldDue, BackupOlder,
       BaseIsLatest, ReadersIdle

\* Unless current.json is damaged or misread, what was published last is what every
\* manifest gets until it expires, wherever attempts fail and the panel stops.
THEOREM LatestIsServed == Spec => []LatestSurvives
<1>1. Inv => LatestSurvives
  <2> SUFFICES ASSUME Inv, hurts = 0, latest # None, Alive(latest.cert)
      PROVE  Served = latest
    BY DEF LatestSurvives
  <2>1. Unhurt
    BY DEF Inv, SurvivalInv
  <2>2. Valid(current) /\ current = latest
    BY <2>1 DEF Unhurt, Valid, Inv, PublicationInv, NumbersRise
  <2> QED
    BY <2>1, <2>2, BackupNotNeeded DEF Inv, Served
<1>2. Init => Inv
  BY TypeInit, PublicationInit, SurvivalInit DEF Inv
<1>3. Inv /\ [Next]_vars => Inv'
  BY InvStep
<1> QED
  BY <1>1, <1>2, <1>3, PTL DEF Spec
-----------------------------------------------------------------------------
(* current.json damaged or misread once.                                   *)

Writing == job # None /\ job.stage \in Before
Ahead   == job # None /\ job.stage \in {"certbot", "authorize", "publish"} /\ ~Import
Reading == \E r \in Readers : reader[r] # None
Lingers == previous # None /\ Alive(previous.cert)

\* A certificate that an attempt asked for expires a lifetime after the attempt,
\* later than all others; so no publication brings the expiry forward.
DirsNotAhead   == \A d \in dirs : d.cert.until <= now + Life
ObtainedNow    == job # None /\ job.stage # "certbot" /\ ~Import => job.cert.until = now + Life
PreviousEarlier ==
  previous # None => latest # None /\ previous.cert.until <= latest.cert.until

Fresh == DirsNotAhead /\ ObtainedNow /\ PreviousEarlier

\* Before the damage: a publication takes the place of a certificate that is due,
\* or of none that is usable; and keeps what it replaced as the backup.
Renewals ==
  previous # None => previous.cert.until + Life <= latest.cert.until + Window
BaseWasDue  == Writing /\ job.base # None => Due(job.base.cert)
NothingUsable == Writing /\ job.base = None => ~Valid(current)
BackupThere == Lingers => backup # None

Renewed == Renewals /\ BaseWasDue /\ NothingUsable /\ BackupThere

\* After it: the pointers name the last two publications, ...
PointersPublished ==
  /\ {current, backup} \subseteq {None, latest, previous}
  /\ Writing => job.base \in {None, latest, previous}
CurrentKept == current # None => current \in dirs

\* ... the backup stands in for a pointer that is gone, ...
BackupStandsIn == Lingers /\ current = None => backup # None
BaseMissed     == Writing /\ job.base = None /\ Lingers => current # None

\* ... a manifest writes back what is still the backup, which the publication under
\* way is going to keep, ...
RepairsBackup ==
  \A r \in Readers : reader[r] # None /\ reader[r].pointer # None =>
    reader[r].pointer = backup /\ Valid(backup)
BackupIsBase ==
  Writing /\ Valid(backup) /\ (Reading \/ ~Valid(current)) => job.base = backup
BaseServed ==
  Writing /\ job.base # None => Alive(job.base.cert) /\ current \in {None, job.base}
CleanupKeeps ==
  job # None /\ job.stage = "cleanup" => current \in {None, New, backup}

\* ... and has nothing to write back over a certificate that is due, so that no
\* attempt can begin that would replace another one than that.
RepairHarmless ==
  Reading /\ Valid(backup) /\ Valid(current) => current = backup \/ ~Due(current.cert)
AheadOfRepair ==
  Ahead /\ Reading /\ Valid(backup) /\ Valid(current) => current = backup

Pointed  == PointersPublished /\ CurrentKept
StandIns == BackupStandsIn /\ BaseMissed
Repairs  == RepairsBackup /\ RepairHarmless /\ AheadOfRepair
Replaced == BackupIsBase /\ BaseServed /\ CleanupKeeps
Hurt     == Pointed /\ StandIns /\ Repairs /\ Replaced

HurtInv == Fresh /\ (hurts = 0 => Renewed) /\ (hurts <= 1 => Hurt)

LEMMA HurtInit == Init => HurtInv
BY DEF Init, HurtInv, Fresh, DirsNotAhead, ObtainedNow, PreviousEarlier, Renewed, Renewals,
       BaseWasDue, NothingUsable, BackupThere, Hurt, Pointed, PointersPublished, CurrentKept,
       StandIns, BackupStandsIn, BaseMissed, Repairs, RepairsBackup, RepairHarmless,
       AheadOfRepair, Replaced, BackupIsBase, BaseServed, CleanupKeeps, Writing, Ahead,
       Reading, Lingers

\* What the types say where expiries are compared.
LEMMA Expiries ==
  ASSUME TypeInv
  PROVE  /\ now \in Nat /\ Life \in Nat /\ Window \in Nat /\ dirs \subseteq Pointer
         /\ \A p \in Pointer : p # None /\ p.cert \in Cert /\ p.cert.until \in Nat
         /\ \A c \in Cert : c.until \in Nat
         /\ current \in Pointer \cup {None} /\ backup \in Pointer \cup {None}
         /\ latest \in Pointer \cup {None} /\ previous \in Pointer \cup {None}
         /\ ~Valid(None)
BY TimeAssumption, BoundAssumption DEF TypeInv, TypeOK, Pointer, Cert, Valid

\* A step that touches none of the files, the publications, readers and the clock and
\* leaves the attempt's stage, origin and certificate alone.
Aside == UNCHANGED <<now, job, dirs, current, backup, reader, latest, previous>>

LEMMA AsideStep ==
  ASSUME HurtInv, Aside, hurts' = hurts
  PROVE  HurtInv'
<1>1. Fresh'
  BY DEF HurtInv, Aside, Fresh, DirsNotAhead, ObtainedNow, PreviousEarlier, Import
<1>2. Writing' = Writing /\ Lingers' = Lingers /\ Reading' = Reading /\ Ahead' = Ahead
  BY DEF Aside, Writing, Lingers, Reading, Ahead, Alive, Import
<1>3. Renewed => Renewed'
  BY <1>2 DEF Aside, Renewed, Renewals, BaseWasDue, NothingUsable, BackupThere, Valid, Alive, Due
<1>4. Hurt => Hurt'
  BY <1>2 DEF Aside, Hurt, Pointed, PointersPublished, CurrentKept, StandIns, BackupStandsIn,
     BaseMissed, Repairs, RepairsBackup, RepairHarmless, AheadOfRepair, Replaced, BackupIsBase,
     BaseServed, CleanupKeeps, Valid, Alive, Due, New
<1> QED
  BY <1>1, <1>3, <1>4 DEF HurtInv
-----------------------------------------------------------------------------
(* The expiries.                                                           *)

\* What an attempt publishes expires a lifetime from now, an import not later.
LEMMA ObtainedExpires ==
  ASSUME Inv, Fresh, job # None, job.stage # "certbot"
  PROVE  /\ job.cert \in Cert /\ job.cert.until <= now + Life
         /\ ~Import => job.cert.until = now + Life
<1>1. job.cert \in Cert /\ job.cert.until \in Nat
  BY Expiries DEF Inv, TypeInv, JobTyped
<1>2. CASE Import
  <2>1. 0 \notin receipts
    BY DEF Inv, TypeInv, TypeOK, Attempts
  <2>2. job.cert = Legacy
    BY <1>2, <2>1 DEF Inv, PublicationInv, ReceiptsKept, Import
  <2>3. job.cert.until <= Life
    BY <2>2, TimeAssumption DEF Legacy
  <2> QED
    BY <1>1, <1>2, <2>3, Expiries DEF Inv
<1>3. CASE ~Import
  BY <1>1, <1>3, Expiries DEF Inv, Fresh, ObtainedNow
<1> QED
  BY <1>1, <1>2, <1>3

\* A step that publishes nothing, adds no generation and obtains no certificate.
LEMMA NothingFresh ==
  ASSUME Inv, Fresh, dirs' \subseteq dirs, now' \in Nat, now <= now',
         UNCHANGED <<latest, previous>>,
         job' # None =>
           /\ now' = now
           /\ \/ job'.stage = "certbot"
              \/ Import'
              \/ /\ job # None /\ job.stage # "certbot"
                 /\ job'.attempt = job.attempt /\ job'.cert = job.cert
  PROVE  Fresh'
<1>1. DirsNotAhead'
  <2> SUFFICES ASSUME NEW d \in dirs' PROVE d.cert.until <= now' + Life
    BY DEF DirsNotAhead
  <2>1. d \in Pointer /\ d.cert.until <= now + Life
    BY Expiries DEF Inv, Fresh, DirsNotAhead
  <2> QED
    BY <2>1, Expiries DEF Inv
<1>2. ObtainedNow'
  BY DEF Fresh, ObtainedNow, Import
<1>3. PreviousEarlier'
  BY DEF Fresh, PreviousEarlier
<1> QED
  BY <1>1, <1>2, <1>3 DEF Fresh

LEMMA CertbotFresh ==
  ASSUME Inv, Fresh, CertbotSucceeds
  PROVE  Fresh'
<1>1. /\ job \in Job /\ job # None /\ job.stage = "certbot" /\ job.attempt \in Attempts
      /\ UNCHANGED <<now, dirs, latest, previous>>
  BY DEF CertbotSucceeds, At, Inv, TypeInv, TypeOK, JobTyped, diskVars
<1>2. CASE job' = None
  BY <1>1, <1>2, NothingFresh, Expiries DEF Inv
<1>3. CASE job' # None
  <2> DEFINE obtained == [attempt |-> job.attempt, until |-> now + Life]
  <2>1. ReceiptValid
    BY <1>3 DEF CertbotSucceeds, End
  <2>2. Asks
    BY <1>1, <2>1 DEF Inv, PublicationInv, ReceiptsKept, ReceiptValid
  <2>3. job' = [job EXCEPT !.stage = "authorize", !.cert = obtained]
    BY <2>1, <2>2 DEF CertbotSucceeds
  <2>4. obtained.until = now + Life
    OBVIOUS
  <2> HIDE DEF obtained
  <2>5. job'.cert.until = now + Life
    BY <1>1, <2>3, <2>4 DEF Job
  <2> QED
    BY <1>1, <2>5 DEF Fresh, DirsNotAhead, ObtainedNow, PreviousEarlier
<1> QED
  BY <1>2, <1>3

LEMMA WritesFresh ==
  ASSUME Inv, Fresh, InstallGeneration \/ WriteBackup \/ WriteCurrent
  PROVE  Fresh'
<1>1. /\ job \in Job /\ Writing /\ now' = now /\ New \in Pointer
  BY NewTyped
  DEF InstallGeneration, WriteBackup, WriteCurrent, At, Inv, TypeInv, TypeOK, Writing, Before,
      Publishing
<1>2. PICK to \in Publishing : job' = [job EXCEPT !.stage = to]
  BY DEF InstallGeneration, WriteBackup, WriteCurrent, Publishing
<1>3. job'.attempt = job.attempt /\ job'.cert = job.cert
  BY <1>1, <1>2 DEF Job
<1>4. job.stage # "certbot" /\ job # None
  BY <1>1 DEF Writing, Before
<1>5. ObtainedNow'
  BY <1>1, <1>3, <1>4 DEF Fresh, ObtainedNow, Import
<1>6. New.cert.until <= now + Life /\ (~Import => New.cert.until = now + Life)
  BY <1>4, ObtainedExpires DEF New
<1>7. DirsNotAhead'
  BY <1>1, <1>6
  DEF InstallGeneration, WriteBackup, WriteCurrent, Fresh, DirsNotAhead
<1>8. CASE WriteCurrent
  <2>1. latest' = New /\ previous' = job.base
    BY <1>8 DEF WriteCurrent
  <2>2. job.base # None => ~Import /\ job.base \in dirs
    BY <1>1 DEF Writing, Inv, SurvivalInv, Solid, ImportFirst, BackupKept
  <2>3. job.base # None => job.base.cert.until <= New.cert.until
    BY <1>6, <2>2, Expiries DEF Inv, Fresh, DirsNotAhead
  <2>4. New # None
    BY <1>1
  <2> QED
    BY <1>5, <1>7, <2>1, <2>3, <2>4 DEF Fresh, PreviousEarlier
<1>9. CASE ~WriteCurrent
  <2>1. UNCHANGED <<latest, previous>>
    BY <1>9 DEF InstallGeneration, WriteBackup, historyVars
  <2> QED
    BY <1>5, <1>7, <2>1 DEF Fresh, PreviousEarlier
<1> QED
  BY <1>8, <1>9

LEMMA FreshStep ==
  ASSUME Inv, Fresh, [Next]_vars
  PROVE  Fresh'
<1>0. now \in Nat
  BY Expiries DEF Inv
<1>1. ASSUME NEW bad, Consider(bad) PROVE Fresh'
  <2>1. UNCHANGED <<now, dirs, latest, previous>> /\ job = None
    BY <1>1 DEF Consider, historyVars
  <2>2. job' = None \/ job'.stage = "certbot"
    BY <1>1, <2>1, ConsiderBegins DEF Inv, Begins
  <2> QED
    BY <1>0, <2>1, <2>2, NothingFresh
<1>2. ASSUME NEW bad, BeginImport(bad) PROVE Fresh'
  <2>1. UNCHANGED <<now, dirs, latest, previous>> /\ job = None
    BY <1>2 DEF BeginImport, historyVars
  <2>2. job' = None \/ Import'
    BY <1>2, <2>1, ImportBegins DEF Inv, ImportStarts, Import
  <2> QED
    BY <1>0, <2>1, <2>2, NothingFresh
<1>3. ASSUME NEW bad, BeginPublish(bad) PROVE Fresh'
  <2>1. /\ UNCHANGED <<now, dirs, latest, previous>>
        /\ job \in Job /\ job # None /\ job.stage = "publish"
    BY <1>3 DEF BeginPublish, historyVars, At, Inv, TypeInv, TypeOK
  <2>2. \/ job' = None
        \/ \E g \in Gens : job' = [job EXCEPT !.stage = "install", !.base = Recovered(bad),
                                              !.gen = g]
    BY <1>3 DEF BeginPublish, NextGeneration, Finished, End
  <2>3. job' # None => job'.attempt = job.attempt /\ job'.cert = job.cert
    BY <2>1, <2>2 DEF Job
  <2> QED
    BY <1>0, <2>1, <2>3, NothingFresh
<1>4. CASE CertbotSucceeds
  BY <1>4, CertbotFresh
<1>5. CASE Authorize
  <2>1. /\ UNCHANGED <<now, dirs, latest, previous>>
        /\ job \in Job /\ job # None /\ job.stage = "authorize"
    BY <1>5 DEF Authorize, historyVars, diskVars, At, Inv, TypeInv, TypeOK
  <2>2. job' # None => job'.attempt = job.attempt /\ job'.cert = job.cert
    BY <1>5, <2>1 DEF Authorize, End, Job
  <2> QED
    BY <1>0, <2>1, <2>2, NothingFresh
<1>6. CASE InstallGeneration \/ WriteBackup \/ WriteCurrent
  BY <1>6, WritesFresh
<1>7. CASE CertbotFails \/ PublishFails \/ Cleanup \/ Crash
  <2>1. job' = None /\ dirs' \subseteq dirs /\ UNCHANGED <<now, latest, previous>>
    BY <1>7
    DEF CertbotFails, PublishFails, Cleanup, Crash, Finished, End, diskVars, historyVars
  <2> QED
    BY <1>0, <2>1, NothingFresh
<1>8. CASE Tick
  <2>1. job' = None /\ dirs' = dirs /\ UNCHANGED <<latest, previous>> /\ now' = now + 1
    BY <1>8 DEF Tick, diskVars, historyVars
  <2> QED
    BY <1>0, <2>1, NothingFresh
<1>9. CASE HookPresents \/ BackoffEnds \/ Damage \/ Manifests \/ UNCHANGED vars
             \/ \E on \in BOOLEAN : SetAuthorised(on)
  <2>1. UNCHANGED <<now, job, dirs, latest, previous>>
    BY <1>9
    DEF HookPresents, BackoffEnds, Damage, Manifests, FindUnusable, ReadBackup, WriteBack,
        vars, SetAuthorised, diskVars, historyVars
  <2> QED
    BY <2>1 DEF Fresh, DirsNotAhead, ObtainedNow, PreviousEarlier, Import
<1> QED
  BY <1>1, <1>2, <1>3, <1>4, <1>5, <1>6, <1>7, <1>8, <1>9 DEF Next, Worker, Surroundings
-----------------------------------------------------------------------------
(* While nothing was damaged or misread.                                   *)

\* What recover_current does to the pointer.
LEMMA PointerRecovered ==
  ASSUME TypeInv, NEW bad, Recover(bad)
  PROVE  /\ Recovered(bad) # None =>
              /\ Recovered(bad) \in {current, backup} /\ Valid(Recovered(bad))
              /\ current' = Recovered(bad)
         /\ Recovered(bad) = None => current' = current
         /\ bad = {} => Recovered(bad) = IF Valid(current) THEN current
                                         ELSE IF Valid(backup) THEN backup ELSE None
BY DEF Recovered, Recover

\* A generation that an attempt adds is neither that of a pointer nor makes one valid.
LEMMA InstallAddsNew ==
  ASSUME TypeInv, InstallGeneration, NEW p \in Pointer \cup {None}, p # None => p \in dirs
  PROVE  p \in dirs' <=> p \in dirs
<1>1. dirs' = dirs \cup {New} /\ New \in Pointer /\ New.gen = job.gen
  BY NewTyped DEF InstallGeneration, At, Publishing, New, TypeInv, TypeOK
<1>2. p # None => p # New
  BY <1>1 DEF InstallGeneration
<1> QED
  BY <1>1, <1>2

\* The stages of a publication, each of which leaves everything else of it alone.
LEMMA WriteStage ==
  ASSUME TypeInv, InstallGeneration \/ WriteBackup \/ WriteCurrent
  PROVE  /\ Writing /\ job \in Job /\ New \in Pointer /\ New # None /\ New' = New
         /\ job' # None /\ job'.base = job.base /\ job'.cert = job.cert
         /\ job'.attempt = job.attempt /\ job.base \in Pointer \cup {None}
         /\ InstallGeneration => job.stage = "install" /\ job'.stage = "backup"
         /\ WriteBackup => job.stage = "backup" /\ job'.stage = "current"
         /\ WriteCurrent => job.stage = "current" /\ job'.stage = "cleanup"
         /\ UNCHANGED <<now, reader, hurts>>
<1>1. /\ job \in Job /\ Writing /\ New \in Pointer
  BY NewTyped
  DEF InstallGeneration, WriteBackup, WriteCurrent, At, TypeInv, TypeOK, Writing, Before,
      Publishing
<1>2. PICK to \in Publishing : job' = [job EXCEPT !.stage = to]
  BY DEF InstallGeneration, WriteBackup, WriteCurrent, Publishing
<1>3. /\ job' \in Job /\ job'.base = job.base /\ job'.cert = job.cert
      /\ job'.attempt = job.attempt /\ job'.stage = to /\ job'.gen = job.gen
  BY <1>1, <1>2 DEF Job, Stages
<1>4. New' = New
  BY <1>3 DEF New
<1>5. /\ InstallGeneration => job.stage = "install" /\ job'.stage = "backup"
      /\ WriteBackup => job.stage = "backup" /\ job'.stage = "current"
      /\ WriteCurrent => job.stage = "current" /\ job'.stage = "cleanup"
  BY <1>1 DEF InstallGeneration, WriteBackup, WriteCurrent, At, Job
<1> QED
  BY <1>1, <1>3, <1>4, <1>5 DEF InstallGeneration, WriteBackup, WriteCurrent, Job

\* What a publication begins with.
BeginsWriting(bad) ==
  /\ job' # None /\ job'.stage = "install" /\ job'.base = Recovered(bad)
  /\ job'.attempt = job.attempt /\ job'.cert = job.cert
  /\ Recovered(bad) # None => ~Import

LEMMA PublishBegins ==
  ASSUME Inv, NEW bad, BeginPublish(bad)
  PROVE  /\ job \in Job /\ job # None /\ job.stage = "publish"
         /\ UNCHANGED <<now, dirs, backup, reader, latest, previous>>
         /\ Misread(bad) /\ Recover(bad)
         /\ job' = None \/ BeginsWriting(bad)
<1>1. job \in Job /\ job # None /\ job.stage = "publish"
  BY DEF BeginPublish, At, Inv, TypeInv, TypeOK
<1>2. Recovered(bad) \in Pointer \cup {None}
  BY RecoveredTyped DEF Inv, TypeInv
<1>3. CASE Finished
  BY <1>1, <1>3 DEF BeginPublish, Finished, End, historyVars
<1>4. ASSUME NEW g \in Gens, Recovered(bad) # None => Newer(job.cert, Recovered(bad).cert),
             job' = [job EXCEPT !.stage = "install", !.base = Recovered(bad), !.gen = g]
      PROVE  BeginsWriting(bad)
  <2>1. Recovered(bad) # None => ~Import
    BY <1>4, ImportHasNoBase
  <2>2. PICK base \in Pointer \cup {None} : base = Recovered(bad)
    BY <1>2
  <2>3. job' \in Job /\ job'.stage = "install" /\ job'.base = base
        /\ job'.attempt = job.attempt /\ job'.cert = job.cert
    BY <1>1, <1>4, <2>2 DEF Job, Stages, Publishing
  <2> QED
    BY <2>1, <2>2, <2>3 DEF BeginsWriting
<1> QED
  BY <1>1, <1>3, <1>4 DEF BeginPublish, NextGeneration, historyVars

\* A step after which nothing is being written, and that publishes nothing.
LEMMA NothingWritten ==
  ASSUME Inv, Renewed, ~Writing', UNCHANGED <<backup, latest, previous>>,
         now' \in Nat, now <= now'
  PROVE  Renewed'
<1>1. Lingers' => Lingers
  <2>1. previous # None => previous.cert.until \in Nat
    BY Expiries DEF Inv
  <2> QED
    BY <2>1, Expiries DEF Lingers, Alive, Inv
<1> QED
  BY <1>1 DEF Renewed, Renewals, BaseWasDue, NothingUsable, BackupThere

LEMMA BeginRenewed ==
  ASSUME Inv, Renewed, NEW bad, BeginPublish(bad), hurts' = 0
  PROVE  Renewed'
<1>1. /\ Unhurt /\ current' = current
      /\ Recovered(bad) = IF Valid(current) THEN current ELSE None
  BY CurrentStays, PublishBegins DEF Inv
<1>2. CASE job' = None
  BY <1>2, PublishBegins, NothingWritten, Expiries DEF Writing, Inv
<1>3. CASE BeginsWriting(bad)
  <2>1. Valid(current)' = Valid(current)
    BY <1>1, PublishBegins DEF Valid, Alive
  <2>2. Valid(current) /\ ~Import => Due(current.cert)
    BY <1>1, PublishBegins DEF Unhurt, OldDue
  <2>3. BaseWasDue'
    BY <1>1, <1>3, <2>2, PublishBegins DEF BeginsWriting, BaseWasDue, Due
  <2>4. NothingUsable'
    BY <1>1, <1>3, <2>1, Expiries DEF BeginsWriting, NothingUsable, Inv
  <2>5. Renewals' /\ BackupThere'
    BY PublishBegins DEF Renewed, Renewals, BackupThere, Lingers, Alive
  <2> QED
    BY <2>3, <2>4, <2>5 DEF Renewed
<1> QED
  BY <1>2, <1>3, PublishBegins

LEMMA WritesRenewed ==
  ASSUME Inv, Fresh, Renewed, hurts = 0, InstallGeneration \/ WriteBackup \/ WriteCurrent
  PROVE  Renewed'
<1> USE WriteStage DEF Inv
<1>1. Unhurt
  BY DEF SurvivalInv
<1>2. CASE InstallGeneration
  <2>1. UNCHANGED <<current, backup, latest, previous>>
    BY <1>2 DEF InstallGeneration, historyVars
  <2>2. current # None => current \in dirs
    BY <1>1 DEF Unhurt, PublicationInv, NumbersRise
  <2>3. Valid(current)' = Valid(current)
    BY <1>2, <2>1, <2>2, InstallAddsNew, Expiries DEF Valid, Alive
  <2> QED
    BY <2>1, <2>3
    DEF Renewed, Renewals, BaseWasDue, NothingUsable, BackupThere, Writing, Lingers, Alive, Due
<1>3. CASE WriteBackup
  <2>1. UNCHANGED <<current, dirs, latest, previous>> /\ backup' = job.base
    BY <1>3 DEF WriteBackup, historyVars
  <2>2. Lingers => Valid(current)
    BY <1>1, Expiries
    DEF Lingers, Valid, Alive, Unhurt, PublicationInv, NumbersRise, Fresh, PreviousEarlier
  <2>3. BackupThere'
    BY <2>1, <2>2 DEF Renewed, NothingUsable, BackupThere, Lingers, Alive
  <2>4. Valid(current)' = Valid(current)
    BY <2>1 DEF Valid, Alive
  <2> QED
    BY <2>1, <2>3, <2>4 DEF Renewed, Renewals, BaseWasDue, NothingUsable, Writing, Due
<1>4. CASE WriteCurrent
  <2>1. latest' = New /\ previous' = job.base /\ backup' = job.base
    BY <1>4 DEF WriteCurrent, SurvivalInv, Solid, BackupKept
  <2>2. job.base # None => ~Import /\ Due(job.base.cert)
    BY DEF Renewed, BaseWasDue, Writing, SurvivalInv, Solid, ImportFirst
  <2>3. ~Import => New.cert.until = now + Life
    BY ObtainedExpires DEF New, Writing, Before
  <2>4. Renewals'
    BY <2>1, <2>2, <2>3, Expiries DEF Renewals, Due
  <2>5. ~Writing'
    BY <1>4 DEF Writing, Before
  <2> QED
    BY <2>1, <2>4, <2>5 DEF Renewed, BaseWasDue, NothingUsable, BackupThere, Lingers
<1> QED
  BY <1>2, <1>3, <1>4

\* Damage is not forgotten, and every step does one at most.
LEMMA HurtsOnlyGrow ==
  ASSUME TypeInv, [Next]_vars
  PROVE  hurts \in Nat /\ (hurts' = hurts \/ hurts' = hurts + 1)
<1>1. hurts \in Nat
  BY BoundAssumption DEF TypeInv, TypeOK
<1>2. ASSUME NEW bad, Consider(bad) \/ BeginImport(bad) \/ BeginPublish(bad)
      PROVE  hurts' = hurts \/ hurts' = hurts + 1
  <2>1. Misread(bad)
    BY <1>2 DEF Consider, BeginImport, BeginPublish
  <2> QED
    BY <2>1 DEF Misread
<1>3. ASSUME NEW r \in Readers, FindUnusable(r) \/ ReadBackup(r) \/ WriteBack(r)
      PROVE  hurts' = hurts \/ hurts' = hurts + 1
  <2>1. (\E bad \in SUBSET Pointers : Misread(bad)) \/ UNCHANGED hurts
    BY <1>3 DEF FindUnusable, ReadBackup, WriteBack, Pointers
  <2> QED
    BY <2>1 DEF Misread
<1>4. CASE Surroundings
  <2>1. CASE Damage
    BY <1>1, <2>1 DEF Damage
  <2>2. CASE Tick \/ BackoffEnds \/ Crash \/ \E on \in BOOLEAN : SetAuthorised(on)
    BY <1>1, <2>2 DEF Tick, BackoffEnds, Crash, SetAuthorised
  <2> QED
    BY <1>4, <2>1, <2>2 DEF Surroundings
<1>5. CASE \/ HookPresents \/ CertbotSucceeds \/ CertbotFails \/ Authorize
           \/ InstallGeneration \/ WriteBackup \/ WriteCurrent \/ Cleanup \/ PublishFails
           \/ UNCHANGED vars
  BY <1>1, <1>5
  DEF HookPresents, CertbotSucceeds, CertbotFails, Authorize, InstallGeneration, WriteBackup,
      WriteCurrent, Cleanup, PublishFails, vars
<1> QED
  BY <1>1, <1>2, <1>3, <1>4, <1>5 DEF Next, Worker, Manifests

LEMMA RenewedStep ==
  ASSUME Inv, Fresh, hurts = 0 => Renewed, hurts' = 0, [Next]_vars
  PROVE  Renewed'
<1>0. hurts = 0 /\ Renewed /\ Unhurt
  <2>1. hurts = 0
    BY HurtsOnlyGrow DEF Inv
  <2> QED
    BY <2>1 DEF Inv, SurvivalInv
<1>1. now \in Nat
  BY Expiries DEF Inv
<1>2. ASSUME NEW bad, Consider(bad) PROVE Renewed'
  <2>1. job' = None \/ job'.stage = "certbot"
    BY <1>2, ConsiderBegins DEF Inv, Begins, Consider
  <2> QED
    BY <1>0, <1>1, <1>2, <2>1, NothingWritten DEF Consider, historyVars, Writing, Before
<1>3. ASSUME NEW bad, BeginImport(bad) PROVE Renewed'
  <2>1. job' = None \/ job'.stage = "publish"
    BY <1>3, ImportBegins DEF Inv, ImportStarts, BeginImport
  <2> QED
    BY <1>0, <1>1, <1>3, <2>1, NothingWritten DEF BeginImport, historyVars, Writing, Before
<1>4. ASSUME NEW bad, BeginPublish(bad) PROVE Renewed'
  BY <1>0, <1>4, BeginRenewed
<1>5. CASE CertbotSucceeds \/ Authorize
  <2>1. job \in Job
    BY <1>5 DEF CertbotSucceeds, Authorize, At, Inv, TypeInv, TypeOK
  <2>2. job' = None \/ job'.stage \in {"authorize", "publish"}
    BY <1>5, <2>1 DEF CertbotSucceeds, Authorize, End, Job
  <2>3. UNCHANGED <<now, backup, latest, previous>>
    BY <1>5 DEF CertbotSucceeds, Authorize, diskVars, historyVars
  <2> QED
    BY <1>0, <1>1, <2>2, <2>3, NothingWritten DEF Writing, Before
<1>6. CASE InstallGeneration \/ WriteBackup \/ WriteCurrent
  BY <1>0, <1>6, WritesRenewed
<1>7. CASE CertbotFails \/ PublishFails \/ Cleanup \/ Crash
  <2>1. job' = None /\ UNCHANGED <<now, backup, latest, previous>>
    BY <1>7
    DEF CertbotFails, PublishFails, Cleanup, Crash, Finished, End, diskVars, historyVars
  <2> QED
    BY <1>0, <1>1, <2>1, NothingWritten DEF Writing
<1>8. CASE Tick
  <2>1. job' = None /\ UNCHANGED <<backup, latest, previous>> /\ now' = now + 1
    BY <1>8 DEF Tick, diskVars, historyVars
  <2> QED
    BY <1>0, <1>1, <2>1, NothingWritten DEF Writing
<1>9. CASE HookPresents \/ BackoffEnds \/ Manifests \/ UNCHANGED vars
             \/ \E on \in BOOLEAN : SetAuthorised(on)
  <2>1. UNCHANGED <<now, job, dirs, backup, latest, previous>>
    BY <1>9
    DEF HookPresents, BackoffEnds, Manifests, FindUnusable, ReadBackup, WriteBack, vars,
        SetAuthorised, diskVars, historyVars
  <2>2. current' = current
    BY <1>0, <1>9
    DEF HookPresents, BackoffEnds, Manifests, FindUnusable, ReadBackup, WriteBack, vars,
        SetAuthorised, diskVars, Unhurt, ReadersIdle
  <2> QED
    BY <1>0, <2>1, <2>2
    DEF Renewed, Renewals, BaseWasDue, NothingUsable, BackupThere, Writing, Lingers, Valid,
        Alive, Due
<1>10. ~Damage
  BY <1>0 DEF Damage
<1> QED
  BY <1>2, <1>3, <1>4, <1>5, <1>6, <1>7, <1>8, <1>9, <1>10 DEF Next, Worker, Surroundings
-----------------------------------------------------------------------------
(* From the one damage on.                                                 *)

\* The last publication expires last, so that while its predecessor is alive it is.
LEMMA LatestOutlives ==
  ASSUME Inv, Fresh, Lingers
  PROVE  latest \in dirs /\ latest # None /\ Valid(latest)
<1>1. latest # None /\ previous.cert.until <= latest.cert.until /\ previous # None
  BY DEF Lingers, Fresh, PreviousEarlier
<1>2. latest \in dirs
  BY <1>1 DEF Inv, PublicationInv, NumbersRise
<1> QED
  BY <1>1, <1>2, Expiries DEF Inv, Lingers, Alive, Valid

\* A published certificate that is due replaced one that is expired by now: two
\* windows are no longer than a lifetime.
LEMMA DueHasNoPredecessor ==
  ASSUME Inv, Renewed, PointersPublished, current = latest, Valid(current), Due(current.cert),
         Valid(backup)
  PROVE  backup = current
<1>1. backup \in {None, latest, previous} /\ backup # None
  BY Expiries DEF PointersPublished, Inv
<1>2. CASE backup = previous
  <2>1. previous.cert.until + Life <= latest.cert.until + Window
    BY <1>1, <1>2 DEF Renewed, Renewals
  <2>2. previous.cert.until > now /\ latest.cert.until <= now + Window
    BY <1>2 DEF Valid, Alive, Due
  <2>3. latest # None /\ previous # None
    BY <1>1, <1>2, Expiries DEF Inv
  <2> QED
    BY <2>1, <2>2, <2>3, WindowAssumption, Expiries DEF Inv
<1> QED
  BY <1>1, <1>2

LEMMA BaseIsBackup ==
  ASSUME Inv, Renewed, Unhurt, PointersPublished, Writing, Valid(backup)
  PROVE  job.base = backup
<1>1. Valid(current) /\ current = latest
  BY BackupNotNeeded DEF Inv, Unhurt
<1>2. job.base # None /\ Due(job.base.cert)
  BY <1>1 DEF Renewed, NothingUsable, BaseWasDue
<1>3. job.base = latest
  BY <1>2 DEF Unhurt, BaseIsLatest, Writing
<1> QED
  BY <1>1, <1>2, <1>3, DueHasNoPredecessor

\* The job ends, or the clock ticks when nothing is under way.
LEMMA EndHurt ==
  ASSUME Inv, Hurt, job' = None, UNCHANGED <<current, backup, latest, previous>>,
         dirs' \subseteq dirs, current # None => current \in dirs',
         backup # None => backup \in dirs', now' \in Nat, now <= now',
         \/ now' = now /\ reader' = reader
         \/ \A r \in Readers : reader'[r] = None
  PROVE  Hurt'
<1>1. Lingers' => Lingers
  <2>1. previous # None => previous.cert.until \in Nat
    BY Expiries DEF Inv
  <2> QED
    BY <2>1, Expiries DEF Lingers, Alive, Inv
<1>2. ~Writing' /\ ~Ahead'
  BY DEF Writing, Ahead
<1>3. Pointed' /\ StandIns'
  BY <1>1, <1>2
  DEF Hurt, Pointed, PointersPublished, CurrentKept, StandIns, BackupStandsIn, BaseMissed
<1>4. Repairs'
  <2>1. CASE \A r \in Readers : reader'[r] = None
    BY <2>1 DEF Repairs, RepairsBackup, RepairHarmless, AheadOfRepair, Reading
  <2>2. CASE now' = now /\ reader' = reader
    <3>1. Valid(backup) => Valid(backup)'
      BY <2>2, Expiries DEF Valid, Alive, Inv
    <3>2. (Valid(backup)' => Valid(backup)) /\ (Valid(current)' => Valid(current))
      BY <2>2 DEF Valid, Alive
    <3> QED
      BY <1>2, <2>2, <3>1, <3>2
      DEF Hurt, Repairs, RepairsBackup, RepairHarmless, AheadOfRepair, Reading, Due
  <2> QED
    BY <2>1, <2>2
<1>5. Replaced'
  BY <1>2 DEF Replaced, BackupIsBase, BaseServed, CleanupKeeps
<1> QED
  BY <1>3, <1>4, <1>5 DEF Hurt

LEMMA EndsHurt ==
  ASSUME Inv, Hurt, CertbotFails \/ PublishFails \/ Cleanup \/ Crash \/ Tick
  PROVE  Hurt'
<1>1. job' = None /\ UNCHANGED <<current, backup, latest, previous>> /\ dirs' \subseteq dirs
  BY DEF CertbotFails, PublishFails, Cleanup, Crash, Tick, Finished, End, diskVars, historyVars
<1>2. backup # None => backup \in dirs'
  BY DEF CertbotFails, PublishFails, Cleanup, Crash, Tick, diskVars, Inv, SurvivalInv, Solid,
         BackupKept
<1>3. current # None => current \in dirs'
  <2>1. CASE Cleanup
    <3>1. /\ job # None /\ job.stage = "cleanup"
          /\ dirs' = {d \in dirs : d.gen = job.gen \/ (backup # None /\ d.gen = backup.gen)}
      BY <2>1 DEF Cleanup, At
    <3>2. current \in {None, New, backup} /\ (current # None => current \in dirs)
      BY <3>1 DEF Hurt, Replaced, CleanupKeeps, Pointed, CurrentKept
    <3> QED
      BY <3>1, <3>2 DEF New
  <2>2. CASE ~Cleanup
    BY <2>2
    DEF CertbotFails, PublishFails, Crash, Tick, diskVars, Hurt, Pointed, CurrentKept
  <2> QED
    BY <2>1, <2>2
<1>4. now' \in Nat /\ now <= now'
  BY Expiries
  DEF Inv, CertbotFails, PublishFails, Cleanup, Crash, Tick
<1>5. \/ now' = now /\ reader' = reader
      \/ \A r \in Readers : reader'[r] = None
  BY DEF CertbotFails, PublishFails, Cleanup, Crash, Tick
<1> QED
  BY <1>1, <1>2, <1>3, <1>4, <1>5, EndHurt

LEMMA EarlyHurt ==
  ASSUME Inv, Hurt, CertbotSucceeds \/ Authorize
  PROVE  Hurt'
<1>1. /\ job \in Job /\ job # None /\ job.stage \in {"certbot", "authorize"}
      /\ UNCHANGED <<now, dirs, current, backup, reader, latest, previous>>
  BY DEF CertbotSucceeds, Authorize, At, Inv, TypeInv, TypeOK, diskVars, historyVars
<1>2. CASE job' = None
  <2>1. /\ current # None => current \in dirs
        /\ backup # None => backup \in dirs
    BY DEF Hurt, Pointed, CurrentKept, Inv, SurvivalInv, Solid, BackupKept
  <2> QED
    BY <1>1, <1>2, <2>1, EndHurt, Expiries DEF Inv
<1>3. CASE job' # None
  <2>1. job'.stage \in {"authorize", "publish"} /\ job'.attempt = job.attempt
    BY <1>1, <1>3 DEF CertbotSucceeds, Authorize, End, Job
  <2>2. ~Writing' /\ job'.stage # "cleanup" /\ (Ahead' => Ahead)
    BY <1>1, <2>1 DEF Writing, Before, Ahead, Import
  <2>3. Lingers' = Lingers /\ Reading' = Reading
    BY <1>1 DEF Lingers, Reading, Alive
  <2> QED
    BY <1>1, <2>2, <2>3
    DEF Hurt, Pointed, PointersPublished, CurrentKept, StandIns, BackupStandsIn, BaseMissed,
        Repairs, RepairsBackup, RepairHarmless, AheadOfRepair, Replaced, BackupIsBase,
        BaseServed, CleanupKeeps, Valid, Alive, Due
<1> QED
  BY <1>2, <1>3
\* The worker's own recovery, when it can read everything or nothing was wrong before.
RecoveredDisk ==
  /\ {current, backup} \subseteq {None, latest, previous}
  /\ CurrentKept /\ BackupStandsIn /\ RepairsBackup /\ RepairHarmless

LEMMA RecoverHurt ==
  ASSUME Inv, Hurt, NEW bad, Recover(bad), bad = {} \/ Unhurt,
         UNCHANGED <<now, dirs, backup, reader, latest, previous>>
  PROVE  RecoveredDisk' /\ Recovered(bad) \in {None, latest, previous}
<1>1. /\ Recovered(bad) # None =>
           Recovered(bad) \in {current, backup} /\ Valid(Recovered(bad)) /\ current' = Recovered(bad)
      /\ Recovered(bad) = None => current' = current
  BY PointerRecovered DEF Inv
<1>2. {current, backup} \subseteq {None, latest, previous} /\ CurrentKept /\ BackupStandsIn
  BY DEF Hurt, Pointed, PointersPublished, StandIns
<1>3. CurrentKept' /\ BackupStandsIn'
  BY <1>1, <1>2 DEF CurrentKept, BackupStandsIn, Lingers, Valid, Alive
<1>4. RepairsBackup'
  BY DEF Hurt, Repairs, RepairsBackup, Valid, Alive
<1>5. RepairHarmless'
  <2> SUFFICES ASSUME Reading, Valid(backup), Valid(current)'
      PROVE  current' = backup \/ ~Due(current.cert)'
    BY DEF RepairHarmless, Reading, Valid, Alive
  <2>1. bad = {}
    BY DEF Reading, Unhurt, ReadersIdle
  <2>2. CASE Valid(current)
    <3>1. current' = current
      BY <1>1, <2>1, <2>2, PointerRecovered DEF Inv
    <3> QED
      BY <2>2, <3>1 DEF Hurt, Repairs, RepairHarmless, Due
  <2>3. CASE ~Valid(current)
    <3>1. Recovered(bad) = backup
      BY <2>1, <2>3, PointerRecovered DEF Inv
    <3> QED
      BY <1>1, <3>1, Expiries DEF Inv
  <2> QED
    BY <2>2, <2>3
<1> QED
  BY <1>1, <1>2, <1>3, <1>4, <1>5 DEF RecoveredDisk

LEMMA ConsiderHurt ==
  ASSUME Inv, Hurt, NEW bad, Consider(bad), bad = {} \/ Unhurt
  PROVE  Hurt'
<1>1. /\ job = None /\ Recover(bad)
      /\ UNCHANGED <<now, dirs, backup, reader, latest, previous>>
  BY DEF Consider, historyVars
<1>2. RecoveredDisk'
  BY <1>1, RecoverHurt
<1>3. job' = None \/ Begins(bad)
  BY <1>1, ConsiderBegins DEF Inv
<1>4. ~Writing' /\ (job' # None => job'.stage = "certbot")
  BY <1>3 DEF Writing, Begins, Before
<1>5. AheadOfRepair'
  <2> SUFFICES ASSUME Begins(bad), Reading, Valid(backup), Valid(current)'
      PROVE  current' = backup
    BY <1>1, <1>3 DEF AheadOfRepair, Ahead, Reading, Valid, Alive
  <2>1. bad = {}
    BY DEF Reading, Unhurt, ReadersIdle
  <2>2. CASE Valid(current)
    <3>1. Recovered(bad) = current /\ current # None /\ current' = current
      BY <1>1, <2>1, <2>2, PointerRecovered, Expiries DEF Inv
    <3> QED
      BY <2>2, <3>1 DEF Begins, Hurt, Repairs, RepairHarmless
  <2>3. CASE ~Valid(current)
    BY <1>1, <2>1, <2>3, PointerRecovered, Expiries DEF Inv
  <2> QED
    BY <2>2, <2>3
<1> QED
  BY <1>2, <1>4, <1>5
  DEF RecoveredDisk, Hurt, Pointed, PointersPublished, StandIns, BaseMissed, Repairs, Replaced,
      BackupIsBase, BaseServed, CleanupKeeps

LEMMA ImportHurt ==
  ASSUME Inv, Hurt, NEW bad, BeginImport(bad), bad = {} \/ Unhurt
  PROVE  Hurt'
<1>1. /\ job = None /\ Recover(bad) /\ ~migrated
      /\ UNCHANGED <<now, dirs, backup, reader, latest, previous>>
  BY DEF BeginImport, historyVars
<1>2. RecoveredDisk'
  BY <1>1, RecoverHurt
<1>3. job' = None \/ ImportStarts
  BY <1>1, ImportBegins DEF Inv
<1>4. ~Reading'
  BY <1>1 DEF Inv, SurvivalInv, Solid, ImportFirst, Reading
<1> QED
  BY <1>2, <1>3, <1>4
  DEF RecoveredDisk, Hurt, Pointed, PointersPublished, StandIns, BaseMissed, Repairs,
      AheadOfRepair, Replaced, BackupIsBase, BaseServed, CleanupKeeps, ImportStarts, Writing,
      Before

LEMMA BeginHurt ==
  ASSUME Inv, Fresh, Hurt, NEW bad, BeginPublish(bad), bad = {} \/ Unhurt
  PROVE  Hurt'
<1> DEFINE base == Recovered(bad)
<1>1. /\ job # None /\ job.stage = "publish" /\ Recover(bad)
      /\ UNCHANGED <<now, dirs, backup, reader, latest, previous>>
  BY PublishBegins
<1>2. RecoveredDisk' /\ base \in {None, latest, previous}
  BY <1>1, RecoverHurt
<1>3. CASE job' = None
  BY <1>2, <1>3
  DEF RecoveredDisk, Hurt, Pointed, PointersPublished, StandIns, BaseMissed, Repairs,
      AheadOfRepair, Replaced, BackupIsBase, BaseServed, CleanupKeeps, Writing, Ahead
<1>4. CASE BeginsWriting(bad)
  <2>1. /\ job'.base = base /\ job'.stage = "install" /\ ~Ahead'
        /\ Valid(backup)' = Valid(backup) /\ Reading' = Reading /\ Lingers' = Lingers
    BY <1>1, <1>4 DEF BeginsWriting, Ahead, Valid, Alive, Reading, Lingers
  <2>2. /\ base # None => base \in {current, backup} /\ Valid(base) /\ current' = base
        /\ base = None => current' = current
        /\ bad = {} => base = IF Valid(current) THEN current
                              ELSE IF Valid(backup) THEN backup ELSE None
    BY <1>1, PointerRecovered DEF Inv
  <2> HIDE DEF base
  <2>3. BackupIsBase'
    <3> SUFFICES ASSUME Valid(backup), Reading \/ ~Valid(current)'
        PROVE  base = backup
      BY <1>1, <2>1 DEF BackupIsBase
    <3>1. CASE bad = {}
      <4>1. CASE Valid(current)
        <5>1. base = current /\ current' = current /\ current # None
          BY <2>2, <3>1, <4>1, Expiries DEF Inv
        <5>2. Reading
          BY <1>1, <4>1, <5>1 DEF Valid, Alive
        <5>3. Ahead
          BY <1>1, <5>2 DEF Ahead, Reading, Inv, SurvivalInv, Solid, ImportFirst
        <5> QED
          BY <4>1, <5>1, <5>2, <5>3 DEF Hurt, Repairs, AheadOfRepair
      <4>2. CASE ~Valid(current)
        BY <2>2, <3>1, <4>2
      <4> QED
        BY <4>1, <4>2
    <3>2. CASE Unhurt
      <4>1. ~Reading /\ Valid(current)
        BY <3>2, BackupNotNeeded DEF Inv, Reading, Unhurt, ReadersIdle
      <4>2. Valid(current)'
        BY <1>1, <2>2, <4>1 DEF Valid, Alive
      <4> QED
        BY <4>1, <4>2
    <3> QED
      BY <3>1, <3>2
  <2>4. BaseServed'
    BY <1>1, <2>1, <2>2 DEF BaseServed, Valid, Alive
  <2>5. BaseMissed'
    <3> SUFFICES ASSUME base = None, Lingers, current = None
        PROVE  FALSE
      BY <2>1, <2>2 DEF BaseMissed
    <3>1. Valid(latest) /\ latest # None
      BY LatestOutlives
    <3>2. CASE bad = {}
      <4>1. backup # None /\ backup \in {latest, previous} /\ backup \in dirs
        BY DEF Hurt, StandIns, BackupStandsIn, Pointed, PointersPublished, Inv, SurvivalInv,
               Solid, BackupKept
      <4>2. Valid(backup)
        BY <3>1, <4>1 DEF Valid, Lingers
      <4> QED
        BY <2>2, <3>2, <4>1, <4>2, Expiries DEF Inv
    <3>3. CASE Unhurt
      BY <3>1, <3>3 DEF Unhurt
    <3> QED
      BY <3>2, <3>3
  <2>6. PointersPublished'
    BY <1>1, <1>2, <2>1 DEF RecoveredDisk, PointersPublished
  <2> QED
    BY <1>2, <2>1, <2>3, <2>4, <2>5, <2>6
    DEF RecoveredDisk, Hurt, Pointed, StandIns, Repairs, AheadOfRepair, Replaced, CleanupKeeps
<1> QED
  BY <1>3, <1>4, PublishBegins
LEMMA WritesHurt ==
  ASSUME Inv, Hurt, InstallGeneration \/ WriteBackup \/ WriteCurrent
  PROVE  Hurt'
<1> USE WriteStage DEF Inv
<1>1. Lingers' = Lingers \/ WriteCurrent
  BY DEF InstallGeneration, WriteBackup, historyVars, Lingers, Alive
<1>2. Reading' = Reading /\ ~Ahead'
  BY DEF Reading, Ahead
<1>3. CASE InstallGeneration
  <2>1. UNCHANGED <<current, backup, latest, previous>> /\ ~WriteCurrent /\ Writing'
    BY <1>3 DEF InstallGeneration, historyVars, WriteCurrent, Writing, Before
  <2>2. /\ current # None => current \in dirs
        /\ backup # None => backup \in dirs
    BY DEF Hurt, Pointed, CurrentKept, SurvivalInv, Solid, BackupKept
  <2>3. Valid(current)' = Valid(current) /\ Valid(backup)' = Valid(backup)
    BY <1>3, <2>1, <2>2, InstallAddsNew, Expiries DEF Valid, Alive
  <2>4. Pointed'
    BY <1>3, <2>1, <2>2, InstallAddsNew, Expiries
    DEF Hurt, Pointed, PointersPublished, CurrentKept
  <2>5. StandIns'
    BY <1>1, <2>1 DEF Hurt, StandIns, BackupStandsIn, BaseMissed
  <2>6. Repairs'
    BY <1>2, <2>1, <2>3 DEF Hurt, Repairs, RepairsBackup, RepairHarmless, AheadOfRepair, Due
  <2>7. Replaced'
    BY <1>2, <1>3, <2>1, <2>3
    DEF Hurt, Replaced, BackupIsBase, BaseServed, CleanupKeeps, Alive
  <2> QED
    BY <2>4, <2>5, <2>6, <2>7 DEF Hurt
<1>4. CASE WriteBackup
  <2>1. /\ UNCHANGED <<current, dirs, latest, previous>> /\ backup' = job.base /\ ~WriteCurrent
        /\ Writing'
    BY <1>4 DEF WriteBackup, historyVars, WriteCurrent, Writing, Before
  <2>2. Valid(current)' = Valid(current)
    BY <2>1 DEF Valid, Alive
  <2>3. Pointed'
    BY <2>1 DEF Hurt, Pointed, PointersPublished, CurrentKept
  <2>4. StandIns'
    BY <1>1, <2>1 DEF Hurt, StandIns, BackupStandsIn, BaseMissed
  <2>5. RepairsBackup'
    <3> SUFFICES ASSUME NEW r \in Readers, reader[r] # None, reader[r].pointer # None
        PROVE  reader[r].pointer = job.base /\ Valid(job.base)
      BY <2>1 DEF RepairsBackup, Valid, Alive
    <3>1. reader[r].pointer = backup /\ Valid(backup) /\ Reading
      BY DEF Hurt, Repairs, RepairsBackup, Reading
    <3> QED
      BY <3>1 DEF Hurt, Replaced, BackupIsBase
  <2>6. RepairHarmless'
    <3> SUFFICES ASSUME Valid(job.base), Valid(current) PROVE current = job.base
      BY <2>1, <2>2 DEF RepairHarmless, Valid, Alive
    <3> QED
      BY Expiries DEF Hurt, Replaced, BaseServed
  <2>7. Replaced'
    BY <1>4, <2>1 DEF Hurt, Replaced, BackupIsBase, BaseServed, CleanupKeeps, Alive
  <2> QED
    BY <1>2, <2>3, <2>4, <2>5, <2>6, <2>7 DEF Hurt, Repairs, AheadOfRepair
<1>5. CASE WriteCurrent
  <2>1. /\ current' = New /\ latest' = New /\ previous' = job.base /\ UNCHANGED <<dirs, backup>>
        /\ ~Writing'
    BY <1>5 DEF WriteCurrent, Writing, Before
  <2>2. backup = job.base
    BY <1>5 DEF SurvivalInv, Solid, BackupKept, Writing
  <2>3. New \in dirs
    BY <1>5 DEF PublicationInv, NumbersRise, Writing
  <2>4. Pointed'
    BY <2>1, <2>2, <2>3 DEF Pointed, PointersPublished, CurrentKept
  <2>5. StandIns'
    BY <2>1 DEF StandIns, BackupStandsIn, BaseMissed
  <2>6. Reading => ~Due(New.cert)
    BY DEF New, Reading, Writing, Before, Publishing, SurvivalInv, Solid, ImportFirst, FreshJob
  <2>7. Repairs'
    BY <1>2, <2>1, <2>6
    DEF Hurt, Repairs, RepairsBackup, RepairHarmless, AheadOfRepair, Valid, Alive, Due
  <2>8. Replaced'
    BY <2>1 DEF Replaced, BackupIsBase, BaseServed, CleanupKeeps
  <2> QED
    BY <2>4, <2>5, <2>7, <2>8 DEF Hurt
<1> QED
  BY <1>3, <1>4, <1>5

\* A manifest finds the pointer unusable, or misreads it for the first time.
LEMMA FindHurt ==
  ASSUME Inv, Fresh, Hurt, NEW r \in Readers, FindUnusable(r),
         ~Valid(current) \/ (Unhurt /\ Renewed)
  PROVE  Hurt'
<1>1. UNCHANGED <<now, job, dirs, current, backup, latest, previous>>
  BY DEF FindUnusable, diskVars, historyVars
<1>2. \A q \in Readers : reader'[q] = IF q = r THEN [pointer |-> None] ELSE reader[q]
  BY DEF FindUnusable, Inv, TypeInv, TypeOK
<1>3. Writing' = Writing /\ Ahead' = Ahead /\ Lingers' = Lingers
  BY <1>1 DEF Writing, Ahead, Lingers, Alive, Import
<1>4. Valid(current)' = Valid(current) /\ Valid(backup)' = Valid(backup)
  BY <1>1 DEF Valid, Alive
<1>5. RepairsBackup'
  BY <1>1, <1>2, <1>4 DEF Hurt, Repairs, RepairsBackup
<1>6. RepairHarmless' /\ AheadOfRepair'
  <2>1. CASE ~Valid(current)
    BY <1>4, <2>1 DEF RepairHarmless, AheadOfRepair
  <2>2. CASE Unhurt /\ Renewed
    <3>1. current = latest
      BY <2>2 DEF Unhurt
    <3>2. Valid(current) /\ Valid(backup) /\ Due(current.cert) => current = backup
      BY <2>2, <3>1, DueHasNoPredecessor DEF Hurt, Pointed
    <3>3. Ahead /\ Valid(current) => Due(current.cert)
      BY <2>2 DEF Unhurt, OldDue, Ahead
    <3> QED
      BY <1>1, <1>3, <1>4, <3>2, <3>3 DEF RepairHarmless, AheadOfRepair, Due
  <2> QED
    BY <2>1, <2>2
<1>7. BackupIsBase'
  <2>1. Writing /\ Valid(backup) => job.base = backup
    BY BaseIsBackup DEF Hurt, Pointed, Replaced, BackupIsBase
  <2> QED
    BY <1>1, <1>3, <1>4, <2>1 DEF BackupIsBase
<1>8. Pointed' /\ StandIns'
  BY <1>1, <1>3
  DEF Hurt, Pointed, PointersPublished, CurrentKept, StandIns, BackupStandsIn, BaseMissed
<1>9. BaseServed' /\ CleanupKeeps'
  BY <1>1, <1>3 DEF Hurt, Replaced, BaseServed, CleanupKeeps, New, Alive
<1> QED
  BY <1>5, <1>6, <1>7, <1>8, <1>9 DEF Hurt, Repairs, Replaced

LEMMA ReadHurt ==
  ASSUME Inv, Hurt, NEW r \in Readers, ReadBackup(r)
  PROVE  Hurt'
<1>1. UNCHANGED <<now, job, dirs, current, backup, latest, previous>>
  BY DEF ReadBackup, diskVars, historyVars
<1>2. /\ \A q \in Readers \ {r} : reader'[q] = reader[q]
      /\ reader'[r] = None \/ (Valid(backup) /\ reader'[r].pointer = backup)
      /\ reader[r] # None
  BY DEF ReadBackup, Inv, TypeInv, TypeOK, Repair
<1>3. Reading' => Reading
  BY <1>2 DEF Reading
<1>4. Writing' = Writing /\ Ahead' = Ahead /\ Lingers' = Lingers
  BY <1>1 DEF Writing, Ahead, Lingers, Alive, Import
<1>5. Valid(current)' = Valid(current) /\ Valid(backup)' = Valid(backup)
  BY <1>1 DEF Valid, Alive
<1>6. RepairsBackup'
  BY <1>1, <1>2, <1>5 DEF Hurt, Repairs, RepairsBackup
<1>7. RepairHarmless' /\ AheadOfRepair' /\ BackupIsBase'
  BY <1>1, <1>3, <1>4, <1>5
  DEF Hurt, Repairs, RepairHarmless, AheadOfRepair, Replaced, BackupIsBase, Due
<1>8. Pointed' /\ StandIns'
  BY <1>1, <1>4
  DEF Hurt, Pointed, PointersPublished, CurrentKept, StandIns, BackupStandsIn, BaseMissed
<1>9. BaseServed' /\ CleanupKeeps'
  BY <1>1, <1>4 DEF Hurt, Replaced, BaseServed, CleanupKeeps, New, Alive
<1> QED
  BY <1>6, <1>7, <1>8, <1>9 DEF Hurt, Repairs, Replaced

\* The pointer becomes the backup, which is what an attempt that got any further than
\* certbot is going to keep.
LEMMA WriteBackHurt ==
  ASSUME Inv, Hurt, NEW r \in Readers, WriteBack(r)
  PROVE  Hurt'
<1>1. /\ UNCHANGED <<now, job, dirs, backup, latest, previous>> /\ reader[r] # None
      /\ \A q \in Readers : reader'[q] = IF q = r THEN None ELSE reader[q]
  BY DEF WriteBack, Inv, TypeInv, TypeOK, historyVars
<1>2. current' = backup /\ Valid(backup) /\ Reading /\ backup # None /\ backup \in dirs
  BY Expiries DEF WriteBack, Hurt, Repairs, RepairsBackup, Reading, Valid, Inv
<1>3. Writing' = Writing /\ Lingers' = Lingers
  BY <1>1 DEF Writing, Lingers, Alive
<1>4. Writing => job.base = backup
  BY <1>2 DEF Hurt, Replaced, BackupIsBase
<1>5. Pointed'
  BY <1>1, <1>2, <1>3 DEF Hurt, Pointed, PointersPublished, CurrentKept
<1>6. StandIns'
  BY <1>1, <1>2 DEF StandIns, BackupStandsIn, BaseMissed
<1>7. Repairs'
  BY <1>1, <1>2
  DEF Hurt, Repairs, RepairsBackup, RepairHarmless, AheadOfRepair, Valid, Alive
<1>8. Replaced'
  BY <1>1, <1>2, <1>3, <1>4
  DEF Hurt, Replaced, BackupIsBase, BaseServed, CleanupKeeps, Alive
<1> QED
  BY <1>5, <1>6, <1>7, <1>8 DEF Hurt

LEMMA DamageHurt ==
  ASSUME Inv, Fresh, Hurt, Unhurt, Renewed, Damage
  PROVE  Hurt'
<1>1. /\ UNCHANGED <<now, job, dirs, backup, reader, latest, previous>> /\ current' = None
      /\ current # None
  BY DEF Damage, historyVars
<1>2. Writing' = Writing /\ Lingers' = Lingers /\ Valid(backup)' = Valid(backup)
  BY <1>1 DEF Writing, Lingers, Valid, Alive
<1>3. ~Valid(current)'
  BY <1>1, Expiries DEF Valid, Inv
<1>4. Pointed'
  BY <1>1, <1>2 DEF Hurt, Pointed, PointersPublished, CurrentKept
<1>5. BaseMissed'
  <2>1. Lingers => Valid(current)
    BY LatestOutlives DEF Unhurt
  <2> QED
    BY <1>1, <1>2, <2>1 DEF BaseMissed, Renewed, NothingUsable
<1>6. BackupStandsIn'
  BY <1>1, <1>2 DEF BackupStandsIn, Renewed, BackupThere
<1>7. Repairs'
  BY <1>1, <1>2, <1>3 DEF Hurt, Repairs, RepairsBackup, RepairHarmless, AheadOfRepair
<1>8. BackupIsBase'
  BY <1>1, <1>2, BaseIsBackup DEF BackupIsBase, Hurt, Pointed
<1>9. BaseServed' /\ CleanupKeeps'
  BY <1>1, <1>2 DEF Hurt, Replaced, BaseServed, CleanupKeeps, Alive
<1> QED
  BY <1>4, <1>5, <1>6, <1>7, <1>8, <1>9 DEF Hurt, StandIns, Replaced

LEMMA HurtStep ==
  ASSUME Inv, HurtInv, hurts' <= 1, [Next]_vars
  PROVE  Hurt'
<1>1. hurts \in Nat /\ (hurts' = hurts \/ hurts' = hurts + 1)
  BY HurtsOnlyGrow DEF Inv
<1>2. Hurt /\ Fresh
  BY <1>1 DEF HurtInv
<1>3. hurts' # hurts => Unhurt /\ Renewed
  BY <1>1 DEF HurtInv, Inv, SurvivalInv
<1>4. ASSUME NEW bad, Consider(bad) \/ BeginImport(bad) \/ BeginPublish(bad)
      PROVE  Hurt'
  <2>1. Misread(bad)
    BY <1>4 DEF Consider, BeginImport, BeginPublish
  <2>2. bad = {} \/ Unhurt
    BY <1>1, <1>3, <2>1 DEF Misread
  <2> QED
    BY <1>2, <1>4, <2>2, ConsiderHurt, ImportHurt, BeginHurt
<1>5. CASE CertbotSucceeds \/ Authorize
  BY <1>2, <1>5, EarlyHurt
<1>6. CASE InstallGeneration \/ WriteBackup \/ WriteCurrent
  BY <1>2, <1>6, WritesHurt
<1>7. CASE CertbotFails \/ PublishFails \/ Cleanup \/ Crash \/ Tick
  BY <1>2, <1>7, EndsHurt
<1>8. ASSUME NEW r \in Readers, FindUnusable(r) \/ ReadBackup(r) \/ WriteBack(r)
      PROVE  Hurt'
  <2>1. FindUnusable(r) => ~Valid(current) \/ hurts' # hurts
    BY <1>1 DEF FindUnusable, Misread
  <2> QED
    BY <1>2, <1>3, <1>8, <2>1, FindHurt, ReadHurt, WriteBackHurt
<1>9. CASE Damage
  BY <1>1, <1>2, <1>3, <1>9, DamageHurt DEF Damage
<1>10. CASE HookPresents \/ BackoffEnds \/ UNCHANGED vars
              \/ \E on \in BOOLEAN : SetAuthorised(on)
  <2>1. Aside /\ hurts' = hurts
    BY <1>10
    DEF Aside, HookPresents, BackoffEnds, vars, SetAuthorised, diskVars, historyVars
  <2> QED
    BY <1>1, <2>1, AsideStep DEF HurtInv
<1> QED
  BY <1>4, <1>5, <1>6, <1>7, <1>8, <1>9, <1>10 DEF Next, Worker, Manifests, Surroundings

LEMMA HurtInvStep ==
  ASSUME Inv, HurtInv, [Next]_vars
  PROVE  HurtInv'
<1>1. Fresh'
  BY FreshStep DEF HurtInv
<1>2. hurts' = 0 => Renewed'
  BY RenewedStep DEF HurtInv
<1>3. hurts' <= 1 => Hurt'
  BY HurtStep
<1> QED
  BY <1>1, <1>2, <1>3 DEF HurtInv

LEMMA HurtIsServed ==
  ASSUME Inv, HurtInv
  PROVE  PreviousSurvives
<1> SUFFICES ASSUME hurts <= 1, Lingers PROVE Served \in {latest, previous}
  BY DEF PreviousSurvives, Lingers
<1>1. Hurt /\ Valid(latest) /\ latest # None
  BY LatestOutlives DEF HurtInv
<1>2. \A p \in {latest, previous} : p \in dirs => Valid(p)
  BY <1>1 DEF Lingers, Valid
<1>3. current # None => Valid(current) /\ current \in {latest, previous}
  BY <1>1, <1>2 DEF Hurt, Pointed, CurrentKept, PointersPublished
<1>4. current = None => Valid(backup) /\ backup \in {latest, previous}
  BY <1>1, <1>2
  DEF Hurt, Pointed, PointersPublished, StandIns, BackupStandsIn, Inv, SurvivalInv, Solid,
      BackupKept
<1> QED
  BY <1>3, <1>4, Expiries DEF Served, Recovered, Inv

\* Wherever attempts fail and the panel stops, every manifest gets the certificate that
\* was published last until it expires; and if the pointer was damaged or misread once,
\* that one or the one it took the place of, as long as the latter is alive.
THEOREM CertificateIsServed == Spec => []CertificateSurvives
<1>1. Init => Inv /\ HurtInv
  BY TypeInit, PublicationInit, SurvivalInit, HurtInit DEF Inv
<1>2. Inv /\ HurtInv /\ [Next]_vars => Inv' /\ HurtInv'
  BY InvStep, HurtInvStep
<1>3. Inv /\ HurtInv => PreviousSurvives
  BY HurtIsServed
<1> QED
  BY <1>1, <1>2, <1>3, LatestIsServed, PTL DEF Spec, CertificateSurvives
=============================================================================
