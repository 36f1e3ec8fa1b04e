------------------------------ MODULE Gateway ------------------------------
(***************************************************************************)
(* The Gateway reconciler (internal/controller/gateway_controller.go): one  *)
(* Gateway, the Secret its credentialRef names, and the verification Jobs   *)
(* that probe its endpoint.  The status speaks for one generation of the    *)
(* spec and one credential; either may change while a probe is under way.   *)
(*                                                                          *)
(* Gateway, Secret and Jobs are read from informer caches (the "seen"       *)
(* values) that trail the API server.  With ReadsOwnWrites the Gateway's    *)
(* informer has delivered the reconciler's own status patch before the next *)
(* reconcile starts, as in AgentRun.                                        *)
(***************************************************************************)
EXTENDS Naturals

CONSTANTS
    MaxGen,       \* generations of the Gateway's spec
    MaxCred,      \* versions of the Secret's data
    SkippedGens,  \* generations whose provider has no models endpoint to probe
    KeylessGens,  \* generations whose credentialRef names no key
    BadCreds,     \* versions of the Secret without the key, or without any data
    FailureReasons, \* what gatewayVerifyReason makes of the probes that fail
    ReadsOwnWrites, \* whether a reconcile sees the patches of the ones before it
    Working,      \* <<generation, version>> pairs the endpoint answers with 2xx
    MaxEdits,     \* changes made by users
    MaxFailures,  \* reconciles that end with an error of the API server
    Faults        \* what may go wrong around the reconciler

Gens == 1..MaxGen
Creds == 1..MaxCred

ASSUME GatewayAssumption ==
    /\ MaxGen \in Nat \ {0} /\ MaxCred \in Nat \ {0} /\ MaxEdits \in Nat /\ MaxFailures \in Nat
    /\ SkippedGens \subseteq Gens /\ KeylessGens \subseteq Gens /\ BadCreds \subseteq Creds
    /\ Working \subseteq Gens \X Creds
    /\ FailureReasons \subseteq {"ConnectionFailed", "AuthenticationFailed", "EndpointUnreachable"}
    /\ FailureReasons # {}
    /\ ReadsOwnWrites \in BOOLEAN
    /\ Faults \subseteq {"deleteError", "restart"}

VARIABLES
    gateway,      \* the Gateway at the API server; generation 0 when there is none
    gatewaySeen,  \* the Gateway in the cache
    gatewayQueued, \* its key is in the work queue
    secret,       \* the version of the Secret at the API server; 0 when there is none
    secretSeen,   \* the Secret in the cache
    creds,        \* versions of the Secret written so far
    jobs,         \* the verification Job of each name at the API server
    jobsSeen,     \* those Jobs in the cache
    edits,        \* changes users have made
    failures,     \* reconciles that have ended with an error
    probes        \* history: what the probes found

gatewayVars == <<gateway, gatewaySeen, gatewayQueued, secret, secretSeen, creds, jobs, jobsSeen,
                 edits, failures, probes>>

-----------------------------------------------------------------------------
Verdicts == FailureReasons \cup {"ConnectionVerified"}
CredentialReasons == {"CredentialSecretNotFound", "CredentialKeyNotFound", "CredentialSecretEmpty"}
ReadyConditions ==
    [status : {"None", "True", "False"}, generation : 0..MaxGen,
     reason : {"None", "Verifying", "VerificationSkipped"} \cup Verdicts \cup CredentialReasons]

\* verifiedCredentialHash is the version it digests; 0 before the first.
Gateways ==
    [generation : 0..MaxGen, ready : ReadyConditions, connectionVerified : BOOLEAN,
     verifiedCredentialHash : 0..MaxCred]

\* A Job knows the generation it was made for; its pod reads the Secret when
\* it starts (secretKeyRef), not when the Job is created.
JobStates == {"absent", "waiting", "probing", "complete", "failed"}
JobNames == Gens \X Creds
Jobs == [state : JobStates, generation : 0..MaxGen, credential : 0..MaxCred]

NoJob == [state |-> "absent", generation |-> 0, credential |-> 0]
NoGateway ==
    [generation |-> 0, ready |-> [status |-> "None", generation |-> 0, reason |-> "None"],
     connectionVerified |-> FALSE, verifiedCredentialHash |-> 0]

GatewayInit ==
    /\ gateway = [NoGateway EXCEPT !.generation = 1] /\ gatewaySeen = gateway
    /\ gatewayQueued = TRUE
    /\ secret \in {0, 1} /\ secretSeen = secret /\ creds = secret
    /\ jobs = [n \in JobNames |-> NoJob] /\ jobsSeen = jobs
    /\ edits = 0 /\ failures = 0 /\ probes = {}

-----------------------------------------------------------------------------
(* Reconcile, one action per way through it.                                 *)

Merged(original, changed, onto) == IF changed # original THEN changed ELSE onto

\* patchStatus: a merge patch against what the reconcile read, without a
\* resourceVersion.  A watch event for the new version follows.
PatchStatus(changed, ok) ==
    \/ /\ ok /\ gateway.generation # 0
       /\ gateway' =
            [generation |-> gateway.generation,
             ready |-> Merged(gatewaySeen.ready, changed.ready, gateway.ready),
             connectionVerified |-> Merged(gatewaySeen.connectionVerified,
                                           changed.connectionVerified, gateway.connectionVerified),
             verifiedCredentialHash |-> Merged(gatewaySeen.verifiedCredentialHash,
                                               changed.verifiedCredentialHash,
                                               gateway.verifiedCredentialHash)]
       /\ gatewaySeen' = IF ReadsOwnWrites THEN gateway' ELSE gatewaySeen
       /\ gatewayQueued' = (ReadsOwnWrites /\ gatewaySeen' # gatewaySeen)
    \/ /\ ~ok \/ gateway.generation = 0
       /\ gatewayQueued' = TRUE
       /\ UNCHANGED <<gateway, gatewaySeen>>

\* meta.SetStatusCondition with the generation that was read.
SetReady(status, reason) ==
    [gatewaySeen EXCEPT
       !.ready = [status |-> status, generation |-> gatewaySeen.generation, reason |-> reason],
       !.connectionVerified = (reason = "ConnectionVerified")]

Usable(s) == s # 0 /\ s \notin BadCreds
HasModelsProbe(g) == g \notin SkippedGens
IsTerminalReadyReason(reason) == reason \in Verdicts \cup {"VerificationSkipped"}

\* Mutant: a rotated credential leaves the verdict in place.
SettledAnyCredential ==
    /\ gatewaySeen.ready.status # "None"
    /\ gatewaySeen.ready.generation = gatewaySeen.generation

\* The Ready condition speaks for this generation and this credential.
Settled ==
    /\ gatewaySeen.ready.status # "None"
    /\ gatewaySeen.ready.generation = gatewaySeen.generation
    /\ gatewaySeen.verifiedCredentialHash = secretSeen

Reconciling == gatewayQueued /\ gatewaySeen.generation # 0
unread == <<secret, secretSeen, creds, jobsSeen, edits, probes>>

\* The Gateway is gone.
ReconcileGatewayGone ==
    /\ gatewayQueued /\ gatewaySeen.generation = 0
    /\ gatewayQueued' = FALSE
    /\ UNCHANGED <<gateway, gatewaySeen, jobs, unread>>

\* The Secret, or the key in it, is missing.  The hash is left alone.
ReconcileNoCredential(ok) ==
    /\ Reconciling /\ ~Usable(secretSeen)
    /\ PatchStatus(SetReady("False",
                     CASE secretSeen = 0 -> "CredentialSecretNotFound"
                       [] secretSeen # 0 /\ gatewaySeen.generation \notin KeylessGens ->
                            "CredentialKeyNotFound"
                       [] OTHER -> "CredentialSecretEmpty"), ok)
    /\ UNCHANGED <<jobs, unread>>

\* deleteVerificationJobs: what the cache lists except keep; a Delete that
\* fails is only logged.  from is what the rest of the reconcile makes of Jobs.
DeleteVerificationJobs(keep, from) ==
    \E undeleted \in SUBSET {n \in JobNames \ {keep} : jobsSeen[n].state # "absent"} :
      /\ "deleteError" \notin Faults => undeleted = {}
      /\ jobs' = [n \in JobNames |->
                    IF jobsSeen[n].state = "absent" \/ n = keep \/ n \in undeleted
                    THEN from[n] ELSE NoJob]

\* Mutant: the name leaves out the generation.
VerificationJobNameAnyGeneration(generation, credential) == <<1, credential>>

VerificationJobName(generation, credential) == <<generation, credential>>

ReconcileSkipped(ok) ==
    /\ Reconciling /\ Usable(secretSeen) /\ ~HasModelsProbe(gatewaySeen.generation)
    /\ \/ /\ Settled /\ gatewaySeen.ready.reason = "VerificationSkipped"
          /\ gatewayQueued' = FALSE
          /\ UNCHANGED <<gateway, gatewaySeen, jobs>>
       \/ /\ ~(Settled /\ gatewaySeen.ready.reason = "VerificationSkipped")
          /\ DeleteVerificationJobs(<<0, 0>>, jobs)
          /\ PatchStatus([SetReady("True", "VerificationSkipped")
                            EXCEPT !.verifiedCredentialHash = secretSeen], ok)
    /\ UNCHANGED unread

Probed == Reconciling /\ Usable(secretSeen) /\ HasModelsProbe(gatewaySeen.generation)

\* Already verified, or failed, for this generation and this credential.
ReconcileSettled ==
    /\ Probed /\ Settled /\ IsTerminalReadyReason(gatewaySeen.ready.reason)
    /\ gatewayQueued' = FALSE
    /\ UNCHANGED <<gateway, gatewaySeen, jobs, unread>>

Verifying == Probed /\ ~(Settled /\ IsTerminalReadyReason(gatewaySeen.ready.reason))
JobName == VerificationJobName(gatewaySeen.generation, secretSeen)

\* No Job of the name in the cache: create it.  A Job the cache has not seen
\* yet makes Create fail, and the reconcile is tried again.
ReconcileCreateJob(ok) ==
    /\ Verifying /\ jobsSeen[JobName].state = "absent"
    /\ \/ /\ jobs[JobName].state = "absent"
          /\ DeleteVerificationJobs(JobName,
               [jobs EXCEPT ![JobName] = [state |-> "waiting", credential |-> 0,
                                          generation |-> gatewaySeen.generation]])
          /\ PatchStatus(SetReady("False", "Verifying"), ok)
       \/ /\ jobs[JobName].state # "absent" \/ ~ok
          /\ DeleteVerificationJobs(JobName, jobs)
          /\ gatewayQueued' = TRUE
          /\ UNCHANGED <<gateway, gatewaySeen>>
    /\ UNCHANGED unread

IsJobComplete(job) == job.state \in {"complete", "failed"}

\* The Job is still running.
ReconcileJobRunning(ok) ==
    /\ Verifying /\ jobsSeen[JobName].state # "absent" /\ ~IsJobComplete(jobsSeen[JobName])
    /\ DeleteVerificationJobs(JobName, jobs)
    /\ PatchStatus(SetReady("False", "Verifying"), ok)
    /\ UNCHANGED unread

\* gatewayVerifyReason: the Job's own outcome decides; the diagnostic read from
\* its pod, if there is one, only tells the failures apart.
GatewayVerifyReason(job) ==
    IF job.state = "complete" THEN {"ConnectionVerified"} ELSE FailureReasons

VerdictStatus(reason) ==
    SetReady(IF reason = "ConnectionVerified" THEN "True" ELSE "False", reason)

\* The Job is done: take its verdict, delete it (an error is only logged), then
\* patch the status.
ReconcileVerdict(ok) ==
    /\ Verifying /\ IsJobComplete(jobsSeen[JobName])
    /\ \E deleted \in BOOLEAN :
         /\ "deleteError" \notin Faults => deleted
         /\ DeleteVerificationJobs(JobName,
              IF deleted THEN [jobs EXCEPT ![JobName] = NoJob] ELSE jobs)
    /\ \E reason \in GatewayVerifyReason(jobsSeen[JobName]) :
         PatchStatus([VerdictStatus(reason) EXCEPT !.verifiedCredentialHash = secretSeen], ok)
    /\ UNCHANGED unread

ReconcileGateway(ok) ==
    \/ ReconcileNoCredential(ok) \/ ReconcileSkipped(ok)
    \/ ReconcileCreateJob(ok) \/ ReconcileJobRunning(ok) \/ ReconcileVerdict(ok)

-----------------------------------------------------------------------------
(* The watches of SetupWithManager.                                          *)

SyncGateway ==
    /\ gatewaySeen # gateway
    /\ gatewaySeen' = gateway
    /\ gatewayQueued' = TRUE
    /\ UNCHANGED <<gateway, secret, secretSeen, creds, jobs, jobsSeen, edits, failures, probes>>

\* findGatewaysForSecret.
SyncSecret ==
    /\ secretSeen # secret
    /\ secretSeen' = secret
    /\ gatewayQueued' = TRUE
    /\ UNCHANGED <<gateway, gatewaySeen, secret, creds, jobs, jobsSeen, edits, failures, probes>>

\* Owns(&batchv1.Job{}).
SyncJob ==
    /\ \E n \in JobNames :
         /\ jobsSeen[n] # jobs[n]
         /\ jobsSeen' = [jobsSeen EXCEPT ![n] = jobs[n]]
    /\ gatewayQueued' = TRUE
    /\ UNCHANGED <<gateway, gatewaySeen, secret, secretSeen, creds, jobs, edits, failures, probes>>

RestartGateway ==
    /\ "restart" \in Faults
    /\ gatewaySeen' = gateway /\ secretSeen' = secret /\ jobsSeen' = jobs
    /\ gatewayQueued' = TRUE
    /\ UNCHANGED <<gateway, secret, creds, jobs, edits, failures, probes>>

-----------------------------------------------------------------------------
(* The Job controller and the probe's pod, the garbage collector, the users. *)

reconcilerVars == <<gatewaySeen, gatewayQueued, secretSeen, jobsSeen, failures>>

\* The pod starts once the key it refers to exists, with what it holds then; a
\* keyless one sends no credential.
ProbeStart(n) ==
    /\ jobs[n].state = "waiting"
    /\ \/ /\ jobs[n].generation \in KeylessGens
          /\ jobs' = [jobs EXCEPT ![n].state = "probing", ![n].credential = n[2]]
       \/ /\ jobs[n].generation \notin KeylessGens /\ Usable(secret)
          /\ jobs' = [jobs EXCEPT ![n].state = "probing", ![n].credential = secret]
    /\ UNCHANGED <<reconcilerVars, gateway, secret, creds, edits, probes>>

Probe(n, credential, found) ==
    /\ jobs' = [jobs EXCEPT ![n].state = IF found THEN "complete" ELSE "failed"]
    /\ probes' = probes \cup {[generation |-> jobs[n].generation, credential |-> credential,
                               found |-> found]}
    /\ UNCHANGED <<reconcilerVars, gateway, secret, creds, edits>>

\* curl answers: 2xx, or anything else, which also happens to a good endpoint.
ProbeAnswer(n) ==
    /\ jobs[n].state = "probing"
    /\ \E found \in BOOLEAN :
         /\ found => <<jobs[n].generation, jobs[n].credential>> \in Working
         /\ Probe(n, jobs[n].credential, found)

\* activeDeadlineSeconds: a pod that never started counts against the
\* credential the Job was named for.
ProbeDeadline(n) ==
    /\ jobs[n].state \in {"waiting", "probing"}
    /\ Probe(n, IF jobs[n].state = "probing" THEN jobs[n].credential ELSE n[2], FALSE)

CollectJob(n) ==
    /\ gateway.generation = 0 /\ jobs[n].state # "absent"
    /\ jobs' = [jobs EXCEPT ![n] = NoJob]
    /\ UNCHANGED <<reconcilerVars, gateway, secret, creds, edits, probes>>

\* One edit, or several in a row.
EditGateway ==
    /\ edits < MaxEdits /\ gateway.generation # 0
    /\ \E g \in (gateway.generation + 1)..MaxGen : gateway' = [gateway EXCEPT !.generation = g]
    /\ edits' = edits + 1
    /\ UNCHANGED <<reconcilerVars, secret, creds, jobs, probes>>

DeleteGateway ==
    /\ edits < MaxEdits /\ gateway.generation # 0
    /\ gateway' = NoGateway
    /\ edits' = edits + 1
    /\ UNCHANGED <<reconcilerVars, secret, creds, jobs, probes>>

\* A credential is rotated, created, or deleted; no version ever comes back
\* with other data.
RotateSecret ==
    /\ edits < MaxEdits
    /\ \E c \in (creds + 1)..MaxCred : secret' = c /\ creds' = c
    /\ edits' = edits + 1
    /\ UNCHANGED <<reconcilerVars, gateway, jobs, probes>>

DeleteSecret ==
    /\ edits < MaxEdits /\ secret # 0
    /\ secret' = 0
    /\ edits' = edits + 1
    /\ UNCHANGED <<reconcilerVars, gateway, creds, jobs, probes>>

ProbePod ==
    \E n \in JobNames : ProbeStart(n) \/ ProbeAnswer(n) \/ ProbeDeadline(n) \/ CollectJob(n)

GatewayUser == EditGateway \/ DeleteGateway \/ RotateSecret \/ DeleteSecret

GatewayProgress ==
    /\ ReconcileGatewayGone \/ ReconcileSettled \/ ReconcileGateway(TRUE)
    /\ UNCHANGED failures

\* A reconcile one of whose calls fails; it is tried again.
Failing == failures < MaxFailures /\ failures' = failures + 1

GatewayReconciler ==
    \/ GatewayProgress
    \/ Failing /\ ReconcileGateway(FALSE)

GatewayNext ==
    \/ GatewayReconciler
    \/ SyncGateway \/ SyncSecret \/ SyncJob \/ RestartGateway
    \/ ProbePod \/ GatewayUser

GatewaySpec == GatewayInit /\ [][GatewayNext]_gatewayVars

-----------------------------------------------------------------------------
(* Properties.                                                               *)

\* Every variable stays in its range.
GatewayTypeOK ==
    /\ gateway \in Gateways /\ gatewaySeen \in Gateways /\ gatewayQueued \in BOOLEAN
    /\ secret \in 0..MaxCred /\ secretSeen \in 0..MaxCred /\ creds \in 0..MaxCred
    /\ jobs \in [JobNames -> Jobs] /\ jobsSeen \in [JobNames -> Jobs]
    /\ edits \in 0..MaxEdits /\ failures \in 0..MaxFailures
    /\ probes \subseteq [generation : Gens, credential : Creds, found : BOOLEAN]

\* "Stamp the credential this outcome describes": a Gateway is reported as
\* verified only after a probe of that generation's endpoint succeeded with the
\* credential the status names, or with one that has replaced it since.
VerifiedWasProbed ==
    gateway.ready.reason = "ConnectionVerified" =>
        \E p \in probes :
            /\ p.found /\ p.generation = gateway.ready.generation
            /\ p.credential >= gateway.verifiedCredentialHash

\* The status says what is true of the Gateway and of the Secret as they are.
UpToDate ==
    /\ gateway.ready.generation = gateway.generation
    /\ ~Usable(secret) =>
          gateway.ready.reason \in CredentialReasons /\ gateway.ready.status = "False"
    /\ Usable(secret) => gateway.verifiedCredentialHash = secret
    /\ Usable(secret) /\ ~HasModelsProbe(gateway.generation) =>
          gateway.ready.reason = "VerificationSkipped" /\ ~gateway.connectionVerified
    /\ Usable(secret) /\ HasModelsProbe(gateway.generation) =>
          /\ gateway.ready.reason \in Verdicts
          /\ [generation |-> gateway.generation, credential |-> secret,
              found |-> gateway.connectionVerified] \in probes

=============================================================================
