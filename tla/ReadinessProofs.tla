--------------------------- MODULE ReadinessProofs ---------------------------
(***************************************************************************)
(* Theorems about the verdicts of the Gateway reconciler, alone and below    *)
(* the reconcilers that derive from it, for every number of generations,     *)
(* credentials and edits, when a reconcile sees the patches of the ones      *)
(* before it.                                                                *)
(***************************************************************************)
EXTENDS Readiness, TLAPS

Probes == [generation : Gens, credential : Creds, found : BOOLEAN]

\* What the verdicts rest on; queues and counters play no part.
VerdictTypeOK ==
    /\ gateway \in Gateways /\ gatewaySeen \in Gateways
    /\ secret \in 0..MaxCred /\ secretSeen \in 0..MaxCred /\ creds \in 0..MaxCred
    /\ jobs \in [JobNames -> Jobs] /\ jobsSeen \in [JobNames -> Jobs]
    /\ probes \subseteq Probes

\* A probe of this generation succeeded with this credential or a later one.
Backed(generation, credential) ==
    \E p \in probes : p.found /\ p.generation = generation /\ p.credential >= credential

\* A Job keeps to the generation in its name, was named for a credential that
\* was written, probes with that one or a later one, and is complete only after
\* a probe that succeeded.
JobSound(n, job) ==
    /\ job.state # "absent" => job.generation = n[1] /\ n[2] <= creds
    /\ job.state = "probing" => n[2] <= job.credential
    /\ job.state = "complete" => Backed(n[1], n[2])

\* The cached copy has the status of the API server's, unless the Gateway is gone.
Mirrors ==
    gateway.generation # 0 =>
        /\ gatewaySeen.ready = gateway.ready
        /\ gatewaySeen.connectionVerified = gateway.connectionVerified
        /\ gatewaySeen.verifiedCredentialHash = gateway.verifiedCredentialHash

Claim(g) ==
    g.ready.reason = "ConnectionVerified" => Backed(g.ready.generation, g.verifiedCredentialHash)

VerdictInv ==
    /\ VerdictTypeOK
    /\ secret \in {0, creds} /\ secretSeen <= creds
    /\ \A n \in JobNames : JobSound(n, jobs[n]) /\ JobSound(n, jobsSeen[n])
    /\ Mirrors
    /\ Claim(gateway)

\* The invariant says more than the property the runs check.
LEMMA InvGivesProbed == VerdictInv => VerifiedWasProbed
BY DEF VerdictInv, Claim, Backed, VerifiedWasProbed

-----------------------------------------------------------------------------
\* A Gateway without a status claims nothing.
LEMMA NoGatewayType == NoGateway \in Gateways /\ Claim(NoGateway)
BY GatewayAssumption DEF NoGateway, Gateways, ReadyConditions, Claim

\* A Job that does not exist is sound under every name.
LEMMA NoJobType == NoJob \in Jobs /\ \A n : JobSound(n, NoJob)
BY GatewayAssumption DEF NoJob, Jobs, JobStates, JobSound

\* The patch of a reconcile whose cached status is current writes what the
\* reconcile computed.
LEMMA PatchWrites ==
    ASSUME ReadsOwnWrites, VerdictTypeOK, Mirrors, Claim(gateway),
           NEW changed \in Gateways, NEW ok \in BOOLEAN,
           PatchStatus(changed, ok), Claim(changed)
    PROVE  /\ gateway' \in Gateways /\ gatewaySeen' \in Gateways
           /\ Mirrors' /\ Claim(gateway')
<1>1. CASE UNCHANGED <<gateway, gatewaySeen>>
    BY <1>1 DEF VerdictTypeOK, Mirrors, Claim, Backed
<1>2. CASE /\ gateway.generation # 0
           /\ gateway' =
                [generation |-> gateway.generation, ready |-> changed.ready,
                 connectionVerified |-> changed.connectionVerified,
                 verifiedCredentialHash |-> changed.verifiedCredentialHash]
           /\ gatewaySeen' = gateway'
  <2>1. gateway' \in Gateways
      BY <1>2 DEF VerdictTypeOK, Gateways
  <2>2. Claim(gateway')
      BY <1>2 DEF Claim
  <2>. QED BY <1>2, <2>1, <2>2 DEF Mirrors
<1>3. <1>1!1 \/ <1>2!1
  <2>1. CASE ok /\ gateway.generation # 0
    <3>1. /\ Merged(gatewaySeen.ready, changed.ready, gateway.ready) = changed.ready
          /\ Merged(gatewaySeen.connectionVerified, changed.connectionVerified,
                    gateway.connectionVerified) = changed.connectionVerified
          /\ Merged(gatewaySeen.verifiedCredentialHash, changed.verifiedCredentialHash,
                    gateway.verifiedCredentialHash) = changed.verifiedCredentialHash
        BY <2>1 DEF Merged, Mirrors
    <3>. QED BY <2>1, <3>1 DEF PatchStatus
  <2>2. CASE ~ok \/ gateway.generation = 0
      BY <2>2 DEF PatchStatus
  <2>. QED BY <2>1, <2>2
<1>. QED BY <1>1, <1>2, <1>3

\* Deleting Jobs leaves the others as they are.
LEMMA DeleteKeeps ==
    ASSUME NEW keep, NEW from \in [JobNames -> Jobs],
           \A n \in JobNames : JobSound(n, from[n]),
           DeleteVerificationJobs(keep, from)
    PROVE  jobs' \in [JobNames -> Jobs] /\ \A n \in JobNames : JobSound(n, jobs'[n])
<1>1. PICK undeleted :
        jobs' = [n \in JobNames |->
                   IF jobsSeen[n].state = "absent" \/ n = keep \/ n \in undeleted
                   THEN from[n] ELSE NoJob]
    BY DEF DeleteVerificationJobs
<1>. QED BY <1>1, NoJobType

\* The status of a reconcile that sets Ready.
LEMMA SetReadyType ==
    ASSUME VerdictTypeOK,
           NEW status \in {"True", "False"},
           NEW reason \in {"Verifying", "VerificationSkipped"} \cup Verdicts \cup CredentialReasons
    PROVE  /\ SetReady(status, reason) \in Gateways
           /\ SetReady(status, reason).ready.reason = reason
           /\ LET c == [SetReady(status, reason) EXCEPT !.verifiedCredentialHash = secretSeen]
              IN  /\ c \in Gateways /\ c.verifiedCredentialHash = secretSeen
                  /\ c.ready.reason = reason /\ c.ready.generation = gatewaySeen.generation
BY DEF VerdictTypeOK, SetReady, Gateways, ReadyConditions

\* Only ConnectionVerified claims anything.
LEMMA OtherReasonsClaimNothing ==
    ASSUME VerdictTypeOK,
           NEW status \in {"True", "False"},
           NEW reason \in {"Verifying", "VerificationSkipped"} \cup CredentialReasons
    PROVE  /\ Claim(SetReady(status, reason))
           /\ Claim([SetReady(status, reason) EXCEPT !.verifiedCredentialHash = secretSeen])
<1>1. reason # "ConnectionVerified"
    BY DEF CredentialReasons
<1>2. SetReady(status, reason).ready.reason = reason
    BY SetReadyType
<1>3. [SetReady(status, reason) EXCEPT !.verifiedCredentialHash = secretSeen].ready.reason = reason
    BY SetReadyType
<1>. QED BY <1>1, <1>2, <1>3 DEF Claim

\* A reconcile that verifies uses the Job named for what it read.
LEMMA JobNameType ==
    ASSUME VerdictTypeOK, Verifying
    PROVE  /\ JobName \in JobNames /\ JobName[1] = gatewaySeen.generation
           /\ JobName[2] = secretSeen
BY GatewayAssumption DEF VerdictTypeOK, Verifying, Probed, Reconciling, Usable, JobName,
        VerificationJobName, JobNames, Gateways, Gens, Creds

-----------------------------------------------------------------------------
\* What a reconcile must do to keep the invariant: leave the Secret, the caches
\* of Jobs and the probes alone, and get Jobs and status right.
LEMMA ReconcileFrame ==
    ASSUME VerdictInv, UNCHANGED <<secret, secretSeen, creds, jobsSeen, probes>>,
           gateway' \in Gateways, gatewaySeen' \in Gateways, Mirrors', Claim(gateway'),
           jobs' \in [JobNames -> Jobs], \A n \in JobNames : JobSound(n, jobs'[n])
    PROVE  VerdictInv'
<1>1. VerdictTypeOK' /\ secret' \in {0, creds'} /\ secretSeen' <= creds'
    BY DEF VerdictInv, VerdictTypeOK
<1>2. \A n, job : JobSound(n, job) => JobSound(n, job)'
    BY DEF JobSound, Backed
<1>3. \A n \in JobNames : JobSound(n, jobs[n])' /\ JobSound(n, jobsSeen[n])'
    BY DEF VerdictInv, JobSound, Backed
<1>4. Claim(gateway)'
    BY DEF Claim, Backed
<1>. QED BY <1>1, <1>3, <1>4 DEF VerdictInv

\* Every way through the Gateway's Reconcile, whether or not its last write succeeds.
LEMMA ReconcileKeeps ==
    ASSUME ReadsOwnWrites, VerdictInv, NEW ok \in BOOLEAN, ReconcileGateway(ok)
    PROVE  VerdictInv'
<1>0. /\ VerdictTypeOK /\ Mirrors /\ Claim(gateway)
      /\ jobs \in [JobNames -> Jobs] /\ \A n \in JobNames : JobSound(n, jobs[n])
    BY DEF VerdictInv, VerdictTypeOK
<1>1. CASE ReconcileNoCredential(ok)
  <2>1. PICK reason \in CredentialReasons : PatchStatus(SetReady("False", reason), ok)
      BY <1>1 DEF ReconcileNoCredential, CredentialReasons
  <2>2. /\ SetReady("False", reason) \in Gateways
        /\ Claim(SetReady("False", reason))
      BY <1>0, SetReadyType, OtherReasonsClaimNothing
  <2>3. gateway' \in Gateways /\ gatewaySeen' \in Gateways /\ Mirrors' /\ Claim(gateway')
      BY <1>0, <2>1, <2>2, PatchWrites
  <2>. QED BY <1>0, <1>1, <2>3, ReconcileFrame DEF ReconcileNoCredential, unread
<1>2. CASE ReconcileSkipped(ok)
  <2>1. CASE UNCHANGED <<gateway, gatewaySeen, jobs>>
      BY <1>2, <2>1, <1>0, ReconcileFrame DEF ReconcileSkipped, unread, VerdictTypeOK, Mirrors,
              Claim, Backed
  <2>2. CASE /\ DeleteVerificationJobs(<<0, 0>>, jobs)
             /\ PatchStatus([SetReady("True", "VerificationSkipped")
                               EXCEPT !.verifiedCredentialHash = secretSeen], ok)
    <3>1. jobs' \in [JobNames -> Jobs] /\ \A n \in JobNames : JobSound(n, jobs'[n])
        BY <1>0, <2>2, DeleteKeeps
    <3>2. LET c == [SetReady("True", "VerificationSkipped")
                      EXCEPT !.verifiedCredentialHash = secretSeen]
          IN  c \in Gateways /\ Claim(c)
        BY <1>0, SetReadyType, OtherReasonsClaimNothing
    <3>3. gateway' \in Gateways /\ gatewaySeen' \in Gateways /\ Mirrors' /\ Claim(gateway')
        BY <1>0, <2>2, <3>2, PatchWrites
    <3>. QED BY <1>0, <1>2, <3>1, <3>3, ReconcileFrame DEF ReconcileSkipped, unread
  <2>. QED BY <1>2, <2>1, <2>2 DEF ReconcileSkipped
<1>v. /\ SetReady("False", "Verifying") \in Gateways
      /\ Claim(SetReady("False", "Verifying"))
    BY <1>0, SetReadyType, OtherReasonsClaimNothing
<1>3. CASE ReconcileCreateJob(ok)
  <2>0. Verifying /\ JobName \in JobNames /\ JobName[1] = gatewaySeen.generation /\ JobName[2] = secretSeen
      BY <1>0, <1>3, JobNameType DEF ReconcileCreateJob
  <2>. DEFINE created == [state |-> "waiting", credential |-> 0, generation |-> gatewaySeen.generation]
  <2>1. CASE /\ DeleteVerificationJobs(JobName, [jobs EXCEPT ![JobName] = created])
             /\ PatchStatus(SetReady("False", "Verifying"), ok)
    <3>1. created \in Jobs /\ JobSound(JobName, created)
        BY <1>0, <2>0, GatewayAssumption DEF Jobs, JobStates, JobSound, VerdictInv, VerdictTypeOK, Gateways
    <3>. HIDE DEF created
    <3>2. /\ [jobs EXCEPT ![JobName] = created] \in [JobNames -> Jobs]
          /\ \A n \in JobNames : JobSound(n, [jobs EXCEPT ![JobName] = created][n])
        BY <1>0, <2>0, <3>1
    <3>3. jobs' \in [JobNames -> Jobs] /\ \A n \in JobNames : JobSound(n, jobs'[n])
        BY <2>1, <3>2, DeleteKeeps
    <3>4. gateway' \in Gateways /\ gatewaySeen' \in Gateways /\ Mirrors' /\ Claim(gateway')
        BY <1>0, <1>v, <2>1, PatchWrites
    <3>. QED BY <1>3, <3>3, <3>4, ReconcileFrame DEF ReconcileCreateJob, unread
  <2>2. CASE DeleteVerificationJobs(JobName, jobs) /\ UNCHANGED <<gateway, gatewaySeen>>
    <3>1. jobs' \in [JobNames -> Jobs] /\ \A n \in JobNames : JobSound(n, jobs'[n])
        BY <1>0, <2>2, DeleteKeeps
    <3>2. gateway' \in Gateways /\ gatewaySeen' \in Gateways /\ Mirrors' /\ Claim(gateway')
        BY <1>0, <2>2 DEF VerdictTypeOK, Mirrors
    <3>. QED BY <1>3, <3>1, <3>2, ReconcileFrame DEF ReconcileCreateJob, unread
  <2>. QED BY <1>3, <2>1, <2>2 DEF ReconcileCreateJob
<1>4. CASE ReconcileJobRunning(ok)
  <2>1. jobs' \in [JobNames -> Jobs] /\ \A n \in JobNames : JobSound(n, jobs'[n])
      BY <1>0, <1>4, DeleteKeeps DEF ReconcileJobRunning
  <2>2. gateway' \in Gateways /\ gatewaySeen' \in Gateways /\ Mirrors' /\ Claim(gateway')
      BY <1>0, <1>v, <1>4, PatchWrites DEF ReconcileJobRunning
  <2>. QED BY <1>4, <2>1, <2>2, ReconcileFrame DEF ReconcileJobRunning, unread
<1>5. CASE ReconcileVerdict(ok)
  <2>0. Verifying /\ JobName \in JobNames /\ JobName[1] = gatewaySeen.generation /\ JobName[2] = secretSeen
      BY <1>0, <1>5, JobNameType DEF ReconcileVerdict
  <2>1. jobs' \in [JobNames -> Jobs] /\ \A n \in JobNames : JobSound(n, jobs'[n])
    <3>1. PICK deleted \in BOOLEAN :
            DeleteVerificationJobs(JobName, IF deleted THEN [jobs EXCEPT ![JobName] = NoJob] ELSE jobs)
        BY <1>5 DEF ReconcileVerdict
    <3>2. /\ [jobs EXCEPT ![JobName] = NoJob] \in [JobNames -> Jobs]
          /\ \A n \in JobNames : JobSound(n, [jobs EXCEPT ![JobName] = NoJob][n])
        BY <1>0, <2>0, NoJobType
    <3>3. CASE deleted
        BY <3>1, <3>2, <3>3, DeleteKeeps
    <3>4. CASE ~deleted
        BY <1>0, <3>1, <3>4, DeleteKeeps
    <3>. QED BY <3>3, <3>4
  <2>2. PICK reason \in GatewayVerifyReason(jobsSeen[JobName]) :
          PatchStatus([VerdictStatus(reason) EXCEPT !.verifiedCredentialHash = secretSeen], ok)
      BY <1>5 DEF ReconcileVerdict
  <2>. DEFINE status == IF reason = "ConnectionVerified" THEN "True" ELSE "False"
              c == [SetReady(status, reason) EXCEPT !.verifiedCredentialHash = secretSeen]
  <2>3. reason \in Verdicts /\ status \in {"True", "False"}
      BY <2>2 DEF GatewayVerifyReason, Verdicts
  <2>4. /\ c \in Gateways /\ c.ready.generation = gatewaySeen.generation
        /\ c.ready.reason = reason /\ c.verifiedCredentialHash = secretSeen
    <3>. HIDE DEF status
    <3>. QED BY <1>0, <2>3, SetReadyType
  <2>5. reason = "ConnectionVerified" => jobsSeen[JobName].state = "complete"
      BY <2>2, GatewayAssumption DEF GatewayVerifyReason
  <2>6. Claim(c)
    <3>1. JobSound(JobName, jobsSeen[JobName])
        BY <2>0 DEF VerdictInv
    <3>. QED BY <2>0, <2>4, <2>5, <3>1 DEF Claim, JobSound
  <2>7. PatchStatus(c, ok)
      BY <2>2 DEF VerdictStatus
  <2>. HIDE DEF c
  <2>8. gateway' \in Gateways /\ gatewaySeen' \in Gateways /\ Mirrors' /\ Claim(gateway')
      BY <1>0, <2>4, <2>6, <2>7, PatchWrites
  <2>. QED BY <1>5, <2>1, <2>8, ReconcileFrame DEF ReconcileVerdict, unread
<1>. QED BY <1>1, <1>2, <1>3, <1>4, <1>5 DEF ReconcileGateway

-----------------------------------------------------------------------------
\* Evidence is never lost: probes only grow, and so does the Secret's version.
LEMMA SoundMonotone ==
    ASSUME VerdictTypeOK, probes \subseteq probes', creds' \in 0..MaxCred, creds <= creds'
    PROVE  /\ \A g \in Gateways : Claim(g) => Claim(g)'
           /\ \A n \in JobNames : \A job \in Jobs : JobSound(n, job) => JobSound(n, job)'
<1>1. \A g, c : Backed(g, c) => Backed(g, c)'
    BY DEF Backed
<1>2. \A g \in Gateways : Claim(g) => Claim(g)'
    BY <1>1 DEF Claim
<1>3. ASSUME NEW n \in JobNames, NEW job \in Jobs, JobSound(n, job)
      PROVE  JobSound(n, job)'
  <2>1. n[2] \in Nat /\ creds \in Nat /\ creds' \in Nat
      BY GatewayAssumption DEF VerdictTypeOK, JobNames, Creds
  <2>. QED BY <1>1, <1>3, <2>1 DEF JobSound
<1>. QED BY <1>2, <1>3

\* The watches, and a restart, copy what is at the API server.
LEMMA InformersKeep ==
    ASSUME VerdictInv, SyncGateway \/ SyncSecret \/ SyncJob \/ RestartGateway
    PROVE  VerdictInv'
<1>1. UNCHANGED <<gateway, secret, creds, jobs, probes>>
    BY DEF SyncGateway, SyncSecret, SyncJob, RestartGateway
<1>2. /\ gatewaySeen' \in {gatewaySeen, gateway} /\ secretSeen' \in {secretSeen, secret}
      /\ jobsSeen' \in [JobNames -> Jobs]
      /\ \A n \in JobNames : jobsSeen'[n] \in {jobsSeen[n], jobs[n]}
    BY DEF SyncGateway, SyncSecret, SyncJob, RestartGateway, VerdictInv, VerdictTypeOK
<1>3. VerdictTypeOK' /\ secret' \in {0, creds'} /\ secretSeen' <= creds'
    BY <1>1, <1>2, GatewayAssumption DEF VerdictInv, VerdictTypeOK
<1>4. \A n \in JobNames : JobSound(n, jobs[n])' /\ JobSound(n, jobsSeen[n])'
    BY <1>1, <1>2 DEF VerdictInv, JobSound, Backed
<1>5. Mirrors' /\ Claim(gateway)'
    BY <1>1, <1>2 DEF VerdictInv, Mirrors, Claim, Backed
<1>. QED BY <1>3, <1>4, <1>5 DEF VerdictInv

\* A step of one Job's pod.
LEMMA JobStepKeeps ==
    ASSUME VerdictInv, UNCHANGED <<gateway, gatewaySeen, secret, secretSeen, creds, jobsSeen>>,
           probes \subseteq probes', probes' \subseteq Probes,
           NEW n \in JobNames, NEW job \in Jobs, jobs' = [jobs EXCEPT ![n] = job],
           JobSound(n, job)'
    PROVE  VerdictInv'
<1>1. creds \in 0..MaxCred /\ creds <= creds /\ VerdictTypeOK
    BY GatewayAssumption DEF VerdictInv, VerdictTypeOK
<1>2. VerdictTypeOK' /\ secret' \in {0, creds'} /\ secretSeen' <= creds'
    BY DEF VerdictInv, VerdictTypeOK
<1>3. /\ \A g \in Gateways : Claim(g) => Claim(g)'
      /\ \A k \in JobNames : \A j \in Jobs : JobSound(k, j) => JobSound(k, j)'
    BY <1>1, SoundMonotone
<1>4. \A k \in JobNames : JobSound(k, jobs[k])' /\ JobSound(k, jobsSeen[k])'
  <2>1. \A k \in JobNames : JobSound(k, jobs[k]) /\ JobSound(k, jobsSeen[k])
                              /\ jobs[k] \in Jobs /\ jobsSeen[k] \in Jobs
      BY <1>1 DEF VerdictInv, VerdictTypeOK
  <2>2. \A k \in JobNames : \A j \in Jobs : JobSound(k, j) => JobSound(k, j)'
      BY <1>3
  <2>3. \A k \in JobNames : jobs'[k] = IF k = n THEN job ELSE jobs[k]
      BY <1>1 DEF VerdictTypeOK
  <2>. QED BY <2>1, <2>2, <2>3 DEF JobSound, Backed
<1>5. Mirrors' /\ Claim(gateway)'
    BY <1>3 DEF VerdictInv, VerdictTypeOK, Mirrors
<1>. QED BY <1>2, <1>4, <1>5 DEF VerdictInv

\* The pods of the verification Jobs, their deadline and the garbage collector.
LEMMA PodKeeps ==
    ASSUME VerdictInv, ProbePod
    PROVE  VerdictInv'
<1>1. PICK n \in JobNames : ProbeStart(n) \/ ProbeAnswer(n) \/ ProbeDeadline(n) \/ CollectJob(n)
    BY DEF ProbePod
<1>2. /\ UNCHANGED <<gateway, gatewaySeen, secret, secretSeen, creds, jobsSeen>>
    BY <1>1 DEF ProbeStart, ProbeAnswer, ProbeDeadline, Probe, CollectJob, reconcilerVars
<1>3. /\ jobs[n] \in Jobs /\ JobSound(n, jobs[n]) /\ n[1] \in Gens /\ n[2] \in Creds
      /\ Creds \subseteq Nat /\ creds \in Nat /\ jobs \in [JobNames -> Jobs] /\ probes \subseteq Probes
    BY GatewayAssumption DEF VerdictInv, VerdictTypeOK, JobNames, Creds
<1>4. CASE ProbeStart(n)
  <2>1. PICK c \in Creds : jobs' = [jobs EXCEPT ![n].state = "probing", ![n].credential = c] /\ n[2] <= c
    <3>1. jobs[n].state = "waiting" /\ n[2] <= creds
        BY <1>3, <1>4 DEF ProbeStart, JobSound
    <3>2. CASE jobs[n].generation \in KeylessGens
        BY <1>3, <1>4, <3>2 DEF ProbeStart
    <3>3. CASE jobs[n].generation \notin KeylessGens
      <4>1. secret = creds /\ secret \in Creds
          BY <1>4, <3>3, GatewayAssumption DEF ProbeStart, Usable, VerdictInv, VerdictTypeOK, Creds
      <4>. QED BY <1>4, <3>1, <3>3, <4>1 DEF ProbeStart
    <3>. QED BY <3>2, <3>3
  <2>2. PICK job \in Jobs :
               /\ jobs' = [jobs EXCEPT ![n] = job] /\ job.generation = jobs[n].generation
               /\ job.state = "probing" /\ job.credential = c
    <3>. DEFINE probing == [jobs[n] EXCEPT !.state = "probing", !.credential = c]
    <3>1. /\ "probing" \in JobStates /\ c \in 0..MaxCred
          /\ jobs[n] \in [state : JobStates, generation : 0..MaxGen, credential : 0..MaxCred]
        BY <1>3, GatewayAssumption DEF Jobs, JobStates, Creds
    <3>2. probing \in [state : JobStates, generation : 0..MaxGen, credential : 0..MaxCred]
        BY <3>1
    <3>3. /\ probing.generation = jobs[n].generation
          /\ probing.state = "probing" /\ probing.credential = c
        BY <3>1
    <3>4. jobs' = [jobs EXCEPT ![n] = probing]
        BY <1>3, <2>1, <3>1
    <3>. QED BY <3>2, <3>3, <3>4 DEF Jobs
  <2>3. jobs[n].state # "absent"
      BY <1>4 DEF ProbeStart
  <2>4. JobSound(n, job)'
      BY <1>2, <1>3, <2>1, <2>2, <2>3 DEF JobSound
  <2>5. UNCHANGED probes
      BY <1>4 DEF ProbeStart
  <2>. QED BY <1>2, <1>3, <2>2, <2>4, <2>5, JobStepKeeps
<1>5. ASSUME NEW credential \in Creds, NEW found \in BOOLEAN, Probe(n, credential, found),
             jobs[n].state # "absent", found => n[2] <= credential
      PROVE  VerdictInv'
  <2>1. jobs[n].generation = n[1] /\ n[2] <= creds
      BY <1>3, <1>5 DEF JobSound
  <2>2. PICK job \in Jobs : /\ jobs' = [jobs EXCEPT ![n] = job] /\ job.generation = n[1]
                            /\ job.state = IF found THEN "complete" ELSE "failed"
    <3>. DEFINE done == [jobs[n] EXCEPT !.state = IF found THEN "complete" ELSE "failed"]
    <3>1. done \in Jobs /\ done.generation = n[1] /\ done.state = IF found THEN "complete" ELSE "failed"
        BY <1>3, <2>1 DEF Jobs, JobStates
    <3>2. jobs' = [jobs EXCEPT ![n] = done]
        BY <1>3, <1>5 DEF Probe
    <3>. QED BY <3>1, <3>2
  <2>3. PICK p \in Probes : /\ probes' = probes \cup {p} /\ p.generation = n[1]
                            /\ p.credential = credential /\ p.found = found
    <3>. DEFINE probe == [generation |-> jobs[n].generation, credential |-> credential, found |-> found]
    <3>1. probe \in Probes
        BY <1>3, <1>5, <2>1 DEF Probes
    <3>2. probes' = probes \cup {probe}
        BY <1>5 DEF Probe
    <3>. QED BY <2>1, <3>1, <3>2
  <2>4. found => Backed(n[1], n[2])'
    <3>1. SUFFICES ASSUME found PROVE \E q \in probes' : q.found /\ q.generation = n[1] /\ q.credential >= n[2]
        BY DEF Backed
    <3>2. p \in probes' /\ p.found /\ p.generation = n[1] /\ p.credential = credential
        BY <2>3, <3>1
    <3>3. credential >= n[2]
        BY <1>3, <1>5, <3>1
    <3>. QED BY <3>2, <3>3
  <2>5. JobSound(n, job)'
    <3>1. job.state # "probing" /\ (job.state = "complete" => found)
        BY <2>2
    <3>2. n[2] <= creds'
        BY <1>2, <2>1
    <3>. QED BY <2>2, <2>4, <3>1, <3>2 DEF JobSound
  <2>6. probes \subseteq probes' /\ probes' \subseteq Probes
      BY <1>3, <2>3
  <2>. QED BY <1>2, <2>2, <2>5, <2>6, JobStepKeeps
<1>6. CASE ProbeAnswer(n)
  <2>1. PICK found \in BOOLEAN : Probe(n, jobs[n].credential, found)
                                 /\ (found => <<jobs[n].generation, jobs[n].credential>> \in Working)
      BY <1>6 DEF ProbeAnswer
  <2>2. n[2] <= jobs[n].credential /\ jobs[n].credential \in Creds /\ jobs[n].state # "absent"
      BY <1>3, <1>6 DEF ProbeAnswer, JobSound, Jobs, Creds
  <2>. QED BY <1>5, <2>1, <2>2
<1>7. CASE ProbeDeadline(n)
  <2>1. PICK credential \in Creds : Probe(n, credential, FALSE)
    <3>1. jobs[n].state = "probing" => jobs[n].credential \in Creds
        BY <1>3 DEF JobSound, Jobs, Creds
    <3>. QED BY <1>3, <1>7, <3>1 DEF ProbeDeadline
  <2>2. jobs[n].state # "absent"
      BY <1>7 DEF ProbeDeadline
  <2>. QED BY <1>5, <2>1, <2>2
<1>8. CASE CollectJob(n)
  <2>1. JobSound(n, NoJob)' /\ NoJob \in Jobs
      BY NoJobType DEF NoJob, JobSound
  <2>. QED BY <1>2, <1>3, <1>8, <2>1, JobStepKeeps DEF CollectJob
<1>. QED BY <1>1, <1>4, <1>6, <1>7, <1>8

\* Edits, rotations and deletions change what is current, not what was probed.
LEMMA UserKeeps ==
    ASSUME VerdictInv, GatewayUser
    PROVE  VerdictInv'
<1>1. UNCHANGED <<gatewaySeen, secretSeen, jobs, jobsSeen, probes>>
    BY DEF GatewayUser, EditGateway, DeleteGateway, RotateSecret, DeleteSecret, reconcilerVars
<1>2. creds' \in 0..MaxCred /\ creds <= creds' /\ secret' \in {0, creds'}
    BY GatewayAssumption DEF VerdictInv, VerdictTypeOK, GatewayUser, EditGateway, DeleteGateway,
            RotateSecret, DeleteSecret
<1>3. gateway' \in Gateways /\ Mirrors' /\ Claim(gateway')
  <2>1. CASE EditGateway
    <3>1. PICK g \in (gateway.generation + 1)..MaxGen : gateway' = [gateway EXCEPT !.generation = g]
        BY <2>1 DEF EditGateway
    <3>2. gateway.generation \in Nat /\ gateway \in Gateways /\ gateway.generation # 0
        BY <2>1, GatewayAssumption DEF EditGateway, VerdictInv, VerdictTypeOK, Gateways
    <3>3. g \in 0..MaxGen
        BY <3>2, GatewayAssumption
    <3>4. /\ gateway' \in Gateways /\ gateway'.ready = gateway.ready
          /\ gateway'.connectionVerified = gateway.connectionVerified
          /\ gateway'.verifiedCredentialHash = gateway.verifiedCredentialHash
        BY <3>1, <3>2, <3>3 DEF Gateways
    <3>. QED BY <1>1, <3>2, <3>4 DEF VerdictInv, Mirrors, Claim
  <2>2. CASE DeleteGateway
    <3>1. gateway' = NoGateway /\ NoGateway.generation = 0
        BY <2>2 DEF DeleteGateway, NoGateway
    <3>. QED BY <3>1, NoGatewayType DEF Mirrors
  <2>3. CASE RotateSecret \/ DeleteSecret
      BY <1>1, <2>3 DEF RotateSecret, DeleteSecret, VerdictInv, VerdictTypeOK, Mirrors
  <2>. QED BY <2>1, <2>2, <2>3 DEF GatewayUser
<1>4. VerdictTypeOK' /\ secretSeen' <= creds'
    BY <1>1, <1>2, <1>3, GatewayAssumption DEF VerdictInv, VerdictTypeOK
<1>5. \A n \in JobNames : JobSound(n, jobs[n])' /\ JobSound(n, jobsSeen[n])'
  <2>1. \A n \in JobNames : \A job \in Jobs : JobSound(n, job) => JobSound(n, job)'
      BY <1>1, <1>2, SoundMonotone DEF VerdictInv
  <2>. QED BY <1>1, <2>1 DEF VerdictInv, VerdictTypeOK
<1>6. Claim(gateway)'
    BY <1>1, <1>3 DEF Claim, Backed
<1>. QED BY <1>2, <1>3, <1>4, <1>5, <1>6 DEF VerdictInv

-----------------------------------------------------------------------------
\* A Gateway starts without a status, and no Job exists.
LEMMA InvInit == GatewayInit => VerdictInv
<1>. SUFFICES ASSUME GatewayInit PROVE VerdictInv
    OBVIOUS
<1>1. gateway \in Gateways /\ gateway.ready.reason = "None"
  <2>1. gateway = [generation |-> 1, ready |-> [status |-> "None", generation |-> 0, reason |-> "None"],
                   connectionVerified |-> FALSE, verifiedCredentialHash |-> 0]
      BY DEF GatewayInit, NoGateway
  <2>2. NoGateway \in Gateways /\ 1 \in 0..MaxGen /\ 0 \in 0..MaxCred
      BY NoGatewayType, GatewayAssumption
  <2>3. [status |-> "None", generation |-> 0, reason |-> "None"] \in ReadyConditions
      BY <2>2 DEF NoGateway, Gateways
  <2>. QED BY <2>1, <2>2, <2>3 DEF Gateways
<1>2. VerdictTypeOK
    BY <1>1, NoJobType, GatewayAssumption DEF GatewayInit, VerdictTypeOK
<1>3. \A n \in JobNames : JobSound(n, jobs[n]) /\ JobSound(n, jobsSeen[n])
    BY NoJobType DEF GatewayInit
<1>4. Mirrors /\ Claim(gateway)
    BY <1>1 DEF GatewayInit, Mirrors, Claim
<1>5. secret \in {0, creds} /\ secretSeen <= creds
    BY DEF GatewayInit
<1>. QED BY <1>2, <1>3, <1>4, <1>5 DEF VerdictInv

\* What the verdicts rest on does not change.
LEMMA StutterKeeps ==
    ASSUME VerdictInv, UNCHANGED <<gateway, gatewaySeen, secret, secretSeen, creds, jobs, jobsSeen, probes>>
    PROVE  VerdictInv'
BY DEF VerdictInv, VerdictTypeOK, JobSound, Backed, Mirrors, Claim

\* Every step of the Gateway's reconciler and of what surrounds it.
LEMMA GatewayStepKeeps ==
    ASSUME ReadsOwnWrites, VerdictInv, GatewayNext
    PROVE  VerdictInv'
<1>1. CASE \E ok \in BOOLEAN : ReconcileGateway(ok)
    BY <1>1, ReconcileKeeps
<1>2. CASE ReconcileGatewayGone \/ ReconcileSettled
    BY <1>2, StutterKeeps DEF ReconcileGatewayGone, ReconcileSettled, unread
<1>. QED BY <1>1, <1>2, InformersKeep, PodKeeps, UserKeeps
        DEF GatewayNext, GatewayReconciler, GatewayProgress

\* The inductive invariant of the three reconcilers in one manager: every Job,
\* at the API server and in the cache, is complete only on a probe of its own
\* generation with its own credential or a later one, and a status that claims a
\* verified connection has such a probe.
THEOREM VerdictsKept == ASSUME ReadsOwnWrites PROVE Spec => []VerdictInv
<1>1. Init => VerdictInv
    BY InvInit DEF Init
<1>2. VerdictInv /\ [Next]_vars => VerdictInv'
  <2>. SUFFICES ASSUME VerdictInv, [Next]_vars PROVE VerdictInv'
      OBVIOUS
  <2>1. CASE GatewaySide \/ Restart
      BY <2>1, GatewayStepKeeps DEF GatewaySide, Restart, GatewayNext
  <2>2. CASE \/ AgentProgress \/ WorkflowProgress \/ ReconcileFails
             \/ SyncSkill \/ SyncAgent \/ SyncWorkflow
             \/ EditAgent \/ DeleteAgent \/ EditSkill \/ UNCHANGED vars
    <3>1. UNCHANGED <<gateway, gatewaySeen, secret, secretSeen, creds, jobs, jobsSeen, probes>>
        BY <2>2 DEF AgentProgress, WorkflowProgress, ReconcileFails, ReconcileAgent, ReconcileWorkflow,
                reconciled, SyncSkill, SyncAgent, SyncWorkflow, EditAgent, DeleteAgent, EditSkill,
                vars, gatewayVars
    <3>. QED BY <3>1, StutterKeeps
  <2>. QED BY <2>1, <2>2 DEF Next
<1>. QED BY <1>1, <1>2, PTL DEF Spec

\* "Stamp the credential this outcome describes": for every number of
\* generations, credentials and edits, whatever fails or restarts, a Gateway is
\* reported as verified only after a probe of that generation's endpoint
\* succeeded with the credential the status names or one that replaced it.
THEOREM VerdictsAreProbed == ASSUME ReadsOwnWrites PROVE Spec => []VerifiedWasProbed
BY VerdictsKept, InvGivesProbed, PTL
=============================================================================
