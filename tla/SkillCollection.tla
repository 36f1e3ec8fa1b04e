--------------------------- MODULE SkillCollection ---------------------------
(***************************************************************************)
(* A SkillCollection and the SkillCards it is about.  A generation of the   *)
(* collection's spec either names an image, whose skills an enumeration Job *)
(* turns into SkillCards that the collection owns                           *)
(* (skillcollection_enumerate.go, skills/materialize.go), or lists          *)
(* SkillCards that users wrote (skillcollection_controller.go).  The        *)
(* SkillCard reconciler (skillcard_controller.go) works on both kinds.      *)
(*                                                                          *)
(* The reconcilers read informer caches (the "seen" values), one per kind   *)
(* of object and each trailing on its own; the Job writes to the API server *)
(* from its pod, one call at a time.                                        *)
(***************************************************************************)
EXTENDS Naturals, FiniteSets

CONSTANTS
    MaxGen,       \* generations of the collection's spec
    Cards,        \* names of SkillCards
    Holds,        \* the cards an image generation's skills are to become; {} for a bad source
    Listed,       \* the cards the other generations list
    SelfContained, \* of those generations, the ones that also list an image or a git source
    CardSpecs,    \* the specs users give to their cards
    Registry,     \* what the image resolver may answer; {} without a resolver
    SeesOwnJobs,  \* whether a reconcile sees the Jobs created by the ones before it
    MaxEdits,     \* changes made by users
    MaxFailures,  \* reconciles that end with an error of the API server
    Faults        \* what may go wrong around the reconcilers

Gens == 1..MaxGen
ImageGens == DOMAIN Holds
ListGens == Gens \ ImageGens

ASSUME SkillCollectionAssumption ==
    /\ MaxGen \in Nat \ {0} /\ MaxEdits \in Nat /\ MaxFailures \in Nat
    /\ ImageGens \subseteq Gens /\ Holds \in [ImageGens -> SUBSET Cards]
    /\ Listed \in [ListGens -> SUBSET Cards] /\ SelfContained \subseteq ListGens
    /\ CardSpecs \subseteq {"image", "source", "inline", "badInline", "nothing"}
    /\ Registry \subseteq {"True", "False", "Unknown"}
    /\ SeesOwnJobs \in BOOLEAN
    /\ Faults \subseteq {"forbidden", "jobFails", "restart", "deleteCollection"}

VARIABLES
    collection,     \* the SkillCollection at the API server; generation 0 when there is none
    collectionSeen, \* the SkillCollection in the cache
    queued,         \* its key is in the work queue
    timer,          \* a RequeueAfter is pending for it
    jobs,           \* the enumeration Job of each generation, with its pod
    jobsSeen,       \* what the cache says of each Job
    cards,          \* the SkillCards at the API server
    cardsSeen,      \* the SkillCards in the cache
    cardQueue,      \* the SkillCard reconciler's work queue
    forbidden,      \* the cluster refuses the controller RBAC in this namespace
    edits,          \* changes users have made
    failures        \* reconciles that have ended with an error

vars == <<collection, collectionSeen, queued, timer, jobs, jobsSeen, cards, cardsSeen, cardQueue,
          forbidden, edits, failures>>

-----------------------------------------------------------------------------
Reasons == {"None", "AllSkillsResolved", "EnumerationFailed", "Enumerating", "NoSkills",
            "SkillsNotReady"}
Collections ==
    [generation : 0..MaxGen, resolvedSkills : SUBSET Cards,
     ready : [status : {"None", "True", "False"}, reason : Reasons, generation : 0..MaxGen]]
NoCollection ==
    [generation |-> 0, resolvedSkills |-> {},
     ready |-> [status |-> "None", reason |-> "None", generation |-> 0]]

\* The pod writes, lists, then prunes; todo is what is left of the phase.
JobStates == {"absent", "writing", "pruning", "complete", "failed"}
Jobs == [state : JobStates, todo : SUBSET Cards, deleting : BOOLEAN]
NoJob == [state |-> "absent", todo |-> {}, deleting |-> FALSE]
Running(job) == job.state \in {"writing", "pruning"}
JobViews == {"absent", "running", "complete", "failed"}
JobView(job) == IF Running(job) THEN "running" ELSE job.state

\* from is the generation whose image a generated card points at.  Ready and
\* Resolvable are entries of one list, which a merge patch replaces whole.
Conditions == [ready : {"None", "True", "False"}, resolvable : {"None", "True", "False", "Unknown"}]
SkillCards ==
    [owner : {"nobody", "collection", "user"}, from : 0..MaxGen, spec : CardSpecs \cup {"image", "nothing"},
     conditions : Conditions]
NoCard ==
    [owner |-> "nobody", from |-> 0, spec |-> "nothing",
     conditions |-> [ready |-> "None", resolvable |-> "None"]]
UserCard == [NoCard EXCEPT !.owner = "user"]
Exists(card) == card.owner # "nobody"
Owned(cs) == {c \in Cards : cs[c].owner = "collection"}

Init ==
    /\ collection = [NoCollection EXCEPT !.generation = 1] /\ collectionSeen = collection
    /\ queued = TRUE /\ timer = FALSE
    /\ jobs = [g \in Gens |-> NoJob] /\ jobsSeen = [g \in Gens |-> "absent"]
    /\ \E written \in SUBSET Cards :
         cards = [c \in Cards |-> IF c \in written THEN UserCard ELSE NoCard]
    /\ cardsSeen = cards /\ cardQueue = {c \in Cards : Exists(cards[c])}
    /\ forbidden \in {FALSE, "forbidden" \in Faults}
    /\ edits = 0 /\ failures = 0

-----------------------------------------------------------------------------
(* SkillCollectionReconciler.Reconcile.                                      *)

Merged(original, changed, onto) == IF changed # original THEN changed ELSE onto

\* The status patch, then what the reconcile returns: nothing more to do, an
\* error (again), or RequeueAfter.  A patch of a collection that is gone is an
\* error too.
PatchStatus(status, reason, resolved, again, later) ==
    /\ collection' =
         IF collection.generation = 0 THEN collection
         ELSE [generation |-> collection.generation,
               resolvedSkills |-> Merged(collectionSeen.resolvedSkills, resolved,
                                         collection.resolvedSkills),
               ready |-> Merged(collectionSeen.ready,
                                [status |-> status, reason |-> reason,
                                 generation |-> collectionSeen.generation], collection.ready)]
    /\ queued' = (again \/ collection.generation = 0)
    /\ timer' = (timer \/ (later /\ collection.generation # 0))

Reconciling == queued /\ collectionSeen.generation # 0
ReconcilingImage == Reconciling /\ collectionSeen.generation \in ImageGens
unreconciled == <<collectionSeen, cardsSeen, cardQueue, forbidden, edits>>

ReconcileGone ==
    /\ queued /\ collectionSeen.generation = 0
    /\ queued' = FALSE
    /\ UNCHANGED <<collection, timer, jobs, jobsSeen, cards, failures, unreconciled>>

\* enumerationJobName: a Job belongs to one generation.
EnumerationJob == collectionSeen.generation

\* deleteStaleEnumerationJobs: a foreground deletion, by what the cache lists.
StaleJobs(current) == {g \in Gens \ {current} : jobsSeen[g] # "absent"}
MarkDeleted(stale) ==
    [g \in Gens |-> IF g \in stale /\ jobs[g].state # "absent"
                    THEN [jobs[g] EXCEPT !.deleting = TRUE] ELSE jobs[g]]

\* Mutant: deletes the stale Jobs and goes on.
WaitsForNoJob == FALSE

\* A Job on its way out holds up the next one.
WaitsForStaleJobs == StaleJobs(EnumerationJob) # {}

\* No Job of this generation, but one of another: delete it and wait.
ReconcileStaleJobs ==
    /\ ReconcilingImage /\ jobsSeen[EnumerationJob] = "absent" /\ WaitsForStaleJobs
    /\ jobs' = MarkDeleted(StaleJobs(EnumerationJob))
    /\ PatchStatus("False", "Enumerating", collectionSeen.resolvedSkills, FALSE, FALSE)
    /\ UNCHANGED <<jobsSeen, cards, failures, unreconciled>>

\* ensureEnumeratorRBAC is refused: come back in rbacRetryInterval.
ReconcileForbidden ==
    /\ ReconcilingImage /\ jobsSeen[EnumerationJob] = "absent" /\ ~WaitsForStaleJobs
    /\ forbidden
    /\ PatchStatus("False", "EnumerationFailed", collectionSeen.resolvedSkills, FALSE, TRUE)
    /\ UNCHANGED <<jobs, jobsSeen, cards, failures, unreconciled>>

\* createEnumerationJob; one that is there already will do.
ReconcileCreateJob ==
    /\ ReconcilingImage /\ jobsSeen[EnumerationJob] = "absent" /\ ~WaitsForStaleJobs
    /\ ~forbidden
    /\ jobs' = IF jobs[EnumerationJob].state = "absent"
               THEN [MarkDeleted(StaleJobs(EnumerationJob)) EXCEPT ![EnumerationJob] =
                       [state |-> "writing", todo |-> Holds[collectionSeen.generation],
                        deleting |-> FALSE]]
               ELSE MarkDeleted(StaleJobs(EnumerationJob))
    /\ jobsSeen' = IF SeesOwnJobs
                   THEN [jobsSeen EXCEPT ![EnumerationJob] = JobView(jobs'[EnumerationJob])]
                   ELSE jobsSeen
    /\ PatchStatus("False", "Enumerating", collectionSeen.resolvedSkills, FALSE, FALSE)
    /\ UNCHANGED <<cards, failures, unreconciled>>

ReconcileJobRunning ==
    /\ ReconcilingImage /\ jobsSeen[EnumerationJob] = "running"
    /\ PatchStatus("False", "Enumerating", collectionSeen.resolvedSkills, FALSE, FALSE)
    /\ UNCHANGED <<jobs, jobsSeen, cards, failures, unreconciled>>

\* A terminal error: only a new spec changes it.
ReconcileJobFailed ==
    /\ ReconcilingImage /\ jobsSeen[EnumerationJob] = "failed"
    /\ PatchStatus("False", "EnumerationFailed", collectionSeen.resolvedSkills, FALSE, FALSE)
    /\ UNCHANGED <<jobs, jobsSeen, cards, failures, unreconciled>>

\* The Job is complete but the cache has seen none of its cards: an error, and
\* tried again.
ReconcileNotVisible ==
    /\ ReconcilingImage /\ jobsSeen[EnumerationJob] = "complete" /\ Owned(cardsSeen) = {}
    /\ PatchStatus("False", "EnumerationFailed", collectionSeen.resolvedSkills, TRUE, FALSE)
    /\ UNCHANGED <<jobs, jobsSeen, cards, failures, unreconciled>>

\* What the cache lists is the answer.
ReconcileEnumerated ==
    /\ ReconcilingImage /\ jobsSeen[EnumerationJob] = "complete" /\ Owned(cardsSeen) # {}
    /\ PatchStatus("True", "AllSkillsResolved", Owned(cardsSeen), FALSE, FALSE)
    /\ UNCHANGED <<jobs, jobsSeen, cards, failures, unreconciled>>

\* checkSkillCardRef, for every entry of the list.
CheckSkillCardRef(c) == Exists(cardsSeen[c]) /\ cardsSeen[c].conditions.ready = "True"

\* Without an image: dropEnumeratedSkillCards, by the published list and the
\* cache, then the readiness of the listed skills.
ReconcileList ==
    /\ Reconciling /\ collectionSeen.generation \in ListGens
    /\ LET g == collectionSeen.generation
           drops == collectionSeen.resolvedSkills # {}
           ready == \A c \in Listed[g] : CheckSkillCardRef(c)
           reason == CASE Listed[g] = {} /\ g \notin SelfContained -> "NoSkills"
                       [] (Listed[g] # {} \/ g \in SelfContained) /\ ready -> "AllSkillsResolved"
                       [] OTHER -> "SkillsNotReady"
       IN /\ jobs' = IF drops THEN MarkDeleted(StaleJobs(0)) ELSE jobs
          /\ cards' = [c \in Cards |-> IF drops /\ c \in Owned(cardsSeen) THEN NoCard ELSE cards[c]]
          /\ PatchStatus(IF reason = "AllSkillsResolved" THEN "True" ELSE "False", reason, {},
                         FALSE, FALSE)
    /\ UNCHANGED <<jobsSeen, failures, unreconciled>>

\* A call to the API server fails.  On the image path the error is put on the
\* collection first; deletions made before it stand.
ReconcileFails ==
    /\ Reconciling /\ failures < MaxFailures
    /\ failures' = failures + 1
    /\ \/ /\ ReconcilingImage
          /\ jobs' \in {jobs, MarkDeleted(IF jobsSeen[EnumerationJob] = "absent"
                                          THEN StaleJobs(EnumerationJob) ELSE {})}
          /\ PatchStatus("False", "EnumerationFailed", collectionSeen.resolvedSkills, TRUE, FALSE)
          /\ UNCHANGED cards
       \/ /\ collectionSeen.generation \in ListGens
          /\ collectionSeen.resolvedSkills # {}
          /\ jobs' = MarkDeleted(StaleJobs(0))
          /\ \E dropped \in SUBSET Owned(cardsSeen) :
               cards' = [c \in Cards |-> IF c \in dropped THEN NoCard ELSE cards[c]]
          /\ queued' = TRUE
          /\ UNCHANGED <<collection, timer>>
       \/ /\ queued' = TRUE
          /\ UNCHANGED <<collection, timer, jobs, cards>>
    /\ UNCHANGED <<jobsSeen, unreconciled>>

RequeueAfter ==
    /\ timer
    /\ timer' = FALSE /\ queued' = TRUE
    /\ UNCHANGED <<collection, collectionSeen, jobs, jobsSeen, cards, cardsSeen, cardQueue,
                   forbidden, edits, failures>>

-----------------------------------------------------------------------------
(* SkillCardReconciler.Reconcile.                                            *)

\* Mutant: Ready waits for the registry.
VerdictsOfRegistry(spec) ==
    [ready : IF spec = "image" /\ Registry # {} THEN Registry
             ELSE {IF spec \in {"image", "source", "inline"} THEN "True" ELSE "False"},
     resolvable : IF spec = "image" /\ Registry # {} THEN Registry ELSE {"None"}]

\* reconcileImage with setResolvable, reconcileSource, reconcileInline, and a
\* card without any of them.  Ready never waits for the registry.
Verdicts(spec) ==
    [ready : {IF spec \in {"image", "source", "inline"} THEN "True" ELSE "False"},
     resolvable : IF spec = "image" /\ Registry # {} THEN Registry ELSE {"None"}]

\* A key comes from a watch or, for an image card, from RequeueAfter; one whose
\* patch fails stays.
ReconcileCard(c) ==
    /\ c \in cardQueue \/ (cardsSeen[c].spec = "image" /\ Registry # {})
    /\ \E verdict \in Verdicts(cardsSeen[c].spec) :
         cards' = IF Exists(cardsSeen[c]) /\ Exists(cards[c])
                  THEN [cards EXCEPT ![c].conditions =
                          Merged(cardsSeen[c].conditions, verdict, @)]
                  ELSE cards
    /\ cardQueue' = IF Exists(cardsSeen[c]) /\ ~Exists(cards[c]) THEN cardQueue ELSE cardQueue \ {c}
    /\ UNCHANGED <<collection, collectionSeen, queued, timer, jobs, jobsSeen, cardsSeen, forbidden,
                   edits, failures>>

-----------------------------------------------------------------------------
(* The watches.                                                              *)

SyncCollection ==
    /\ collectionSeen # collection
    /\ collectionSeen' = collection
    /\ queued' = TRUE
    /\ UNCHANGED <<collection, timer, jobs, jobsSeen, cards, cardsSeen, cardQueue, forbidden, edits,
                   failures>>

\* Owns(&batchv1.Job{}).
SyncJob(g) ==
    /\ jobsSeen[g] # JobView(jobs[g])
    /\ jobsSeen' = [jobsSeen EXCEPT ![g] = JobView(jobs[g])]
    /\ queued' = TRUE
    /\ UNCHANGED <<collection, collectionSeen, timer, jobs, cards, cardsSeen, cardQueue, forbidden,
                   edits, failures>>

\* Mutant: neither owned nor listed cards bring the collection back.
WatchesNoCard(c) == FALSE

\* Owns(&SkillCard{}), and findCollectionsForSkillCard through the index.
FindCollectionsForSkillCard(c) ==
    \/ "collection" \in {cards[c].owner, cardsSeen[c].owner}
    \/ collectionSeen.generation \in ListGens /\ c \in Listed[collectionSeen.generation]

SyncCard(c) ==
    /\ cardsSeen[c] # cards[c]
    /\ cardsSeen' = [cardsSeen EXCEPT ![c] = cards[c]]
    /\ queued' = (queued \/ FindCollectionsForSkillCard(c))
    /\ cardQueue' = cardQueue \cup {c}
    /\ UNCHANGED <<collection, collectionSeen, timer, jobs, jobsSeen, cards, forbidden, edits,
                   failures>>

\* The manager starts again: every cache is filled and every object enqueued.
Restart ==
    /\ "restart" \in Faults
    /\ collectionSeen' = collection /\ cardsSeen' = cards
    /\ jobsSeen' = [g \in Gens |-> JobView(jobs[g])]
    /\ queued' = TRUE /\ timer' = FALSE /\ cardQueue' = {c \in Cards : Exists(cards[c])}
    /\ UNCHANGED <<collection, jobs, cards, forbidden, edits, failures>>

-----------------------------------------------------------------------------
(* The enumeration Job: Materialize, one call at a time.                     *)

reconcilerVars == <<collection, collectionSeen, queued, timer, jobsSeen, cardsSeen, cardQueue,
                    forbidden, edits, failures>>

\* CreateOrUpdate of one card; one that is not the collection's fails the Job.
WriteCard(g, c) ==
    /\ jobs[g].state = "writing" /\ c \in jobs[g].todo
    /\ \/ /\ cards[c].owner # "user"
          /\ cards' = [cards EXCEPT ![c].owner = "collection", ![c].from = g, ![c].spec = "image"]
          /\ jobs' = [jobs EXCEPT ![g].todo = @ \ {c}]
       \/ /\ cards[c].owner = "user"
          /\ jobs' = [jobs EXCEPT ![g].state = "failed", ![g].todo = {}]
          /\ UNCHANGED cards
    /\ UNCHANGED reconcilerVars

\* Mutant: the Job leaves what earlier generations wrote.
UnwantedNone(g) == {}

\* The owned cards that the source does not hold.
Unwanted(g) == Owned(cards) \ Holds[g]

\* The writes are done: List the owned cards.  A source without a skill never
\* gets here (Validate).
ListOwned(g) ==
    /\ jobs[g].state = "writing" /\ jobs[g].todo = {} /\ Holds[g] # {}
    /\ jobs' = [jobs EXCEPT ![g].state = "pruning", ![g].todo = Unwanted(g)]
    /\ UNCHANGED <<reconcilerVars, cards>>

\* Delete one of them; one that is gone already is an error.
PruneCard(g, c) ==
    /\ jobs[g].state = "pruning" /\ c \in jobs[g].todo
    /\ cards' = [cards EXCEPT ![c] = NoCard]
    /\ jobs' = IF Exists(cards[c]) THEN [jobs EXCEPT ![g].todo = @ \ {c}]
               ELSE [jobs EXCEPT ![g].state = "failed", ![g].todo = {}]
    /\ UNCHANGED reconcilerVars

JobCompletes(g) ==
    /\ jobs[g].state = "pruning" /\ jobs[g].todo = {}
    /\ jobs' = [jobs EXCEPT ![g].state = "complete"]
    /\ UNCHANGED <<reconcilerVars, cards>>

\* A bad source, a call that fails, or the deadline.  There is no second pod.
JobFails(g) ==
    /\ Running(jobs[g])
    /\ "jobFails" \in Faults \/ Holds[g] = {}
    /\ jobs' = [jobs EXCEPT ![g].state = "failed", ![g].todo = {}]
    /\ UNCHANGED <<reconcilerVars, cards>>

\* Foreground deletion is over: the pod is gone, then the Job.
JobGone(g) ==
    /\ jobs[g].deleting \/ (collection.generation = 0 /\ jobs[g].state # "absent")
    /\ jobs' = [jobs EXCEPT ![g] = NoJob]
    /\ UNCHANGED <<reconcilerVars, cards>>

\* The garbage collector, once the owner is gone.
CollectCard(c) ==
    /\ collection.generation = 0 /\ cards[c].owner = "collection"
    /\ cards' = [cards EXCEPT ![c] = NoCard]
    /\ UNCHANGED <<reconcilerVars, jobs>>

JobStep(g) ==
    \/ \E c \in Cards : WriteCard(g, c) \/ PruneCard(g, c)
    \/ ListOwned(g) \/ JobCompletes(g)

-----------------------------------------------------------------------------
(* Users.                                                                    *)

Edit == edits < MaxEdits /\ edits' = edits + 1
\* One edit, or several in a row.
EditCollection ==
    /\ Edit /\ collection.generation # 0
    /\ \E g \in (collection.generation + 1)..MaxGen :
         collection' = [collection EXCEPT !.generation = g]
    /\ UNCHANGED <<collectionSeen, queued, timer, jobs, jobsSeen, cards, cardsSeen, cardQueue,
                   forbidden, failures>>

DeleteCollection ==
    /\ "deleteCollection" \in Faults
    /\ Edit /\ collection.generation # 0
    /\ collection' = NoCollection
    /\ UNCHANGED <<collectionSeen, queued, timer, jobs, jobsSeen, cards, cardsSeen, cardQueue,
                   forbidden, failures>>

\* A user writes a card of their own, or gives it another spec.
EditCard(c) ==
    /\ Edit /\ cards[c].owner # "collection"
    /\ \E spec \in CardSpecs :
         cards' = [cards EXCEPT ![c].owner = "user", ![c].spec = spec]
    /\ UNCHANGED <<collection, collectionSeen, queued, timer, jobs, jobsSeen, cardsSeen, cardQueue,
                   forbidden, failures>>

\* The identity is created by hand.
GrantRBAC ==
    /\ Edit /\ forbidden
    /\ forbidden' = FALSE
    /\ UNCHANGED <<collection, collectionSeen, queued, timer, jobs, jobsSeen, cards, cardsSeen,
                   cardQueue, failures>>

-----------------------------------------------------------------------------
Reconcile ==
    \/ ReconcileGone \/ ReconcileStaleJobs \/ ReconcileForbidden \/ ReconcileCreateJob
    \/ ReconcileJobRunning \/ ReconcileJobFailed \/ ReconcileNotVisible \/ ReconcileEnumerated
    \/ ReconcileList

Next ==
    \/ Reconcile \/ ReconcileFails \/ RequeueAfter \/ SyncCollection \/ Restart
    \/ \E g \in Gens : SyncJob(g)
    \/ \E g \in ImageGens : JobStep(g) \/ JobFails(g) \/ JobGone(g)
    \/ \E c \in Cards : ReconcileCard(c) \/ SyncCard(c) \/ CollectCard(c)
    \/ EditCollection \/ DeleteCollection \/ GrantRBAC
    \/ \E c \in Cards : EditCard(c)

Spec == Init /\ [][Next]_vars

\* The work queues drain, a requeue comes, the informers deliver; a pod gets
\* on with its work (a Job that cannot ends at its deadline), and a deletion
\* is carried out.
Fairness ==
    /\ WF_vars(Reconcile) /\ WF_vars(RequeueAfter) /\ WF_vars(SyncCollection)
    /\ \A g \in Gens : WF_vars(SyncJob(g))
    /\ \A g \in ImageGens :
         /\ WF_vars(JobStep(g)) /\ WF_vars(JobGone(g))
         /\ WF_vars(Holds[g] = {} /\ JobFails(g))
    /\ \A c \in Cards : WF_vars(ReconcileCard(c)) /\ WF_vars(SyncCard(c)) /\ WF_vars(CollectCard(c))

FairSpec == Spec /\ Fairness

-----------------------------------------------------------------------------
(* Properties.                                                               *)

\* Every variable stays in its range.
TypeOK ==
    /\ collection \in Collections /\ collectionSeen \in Collections
    /\ queued \in BOOLEAN /\ timer \in BOOLEAN /\ forbidden \in BOOLEAN
    /\ jobs \in [Gens -> Jobs] /\ jobsSeen \in [Gens -> JobViews]
    /\ cards \in [Cards -> SkillCards] /\ cardsSeen \in [Cards -> SkillCards]
    /\ cardQueue \subseteq Cards
    /\ edits \in 0..MaxEdits /\ failures \in 0..MaxFailures

\* deleteStaleEnumerationJobs: "two overlapping materializations delete each
\* other's cards".  No two pods of enumeration Jobs are ever at work together,
\* whatever the order of edits, deletions and events; the reconciler must have
\* seen the Jobs it created itself.
OneMaterializer ==
    \A g, h \in Gens : Running(jobs[g]) /\ Running(jobs[h]) => g = h

\* Once users stop editing, an image source is enumerated: the owned cards and
\* the published list are the skills of the image the collection names now, all
\* pointing at it; or the Job failed and the collection says so; or the cluster
\* still refuses the Job its identity and the collection says so.
ImageEnumerated ==
    <>[](collection.generation \in ImageGens =>
            LET g == collection.generation IN
            /\ collection.ready.generation = g
            /\ \/ /\ jobs[g].state = "complete"
                  /\ collection.ready.status = "True"
                  /\ collection.resolvedSkills = Holds[g]
                  /\ Owned(cards) = Holds[g]
                  /\ \A c \in Holds[g] : cards[c].from = g
               \/ /\ jobs[g].state = "failed" \/ forbidden
                  /\ collection.ready.reason = "EnumerationFailed")

\* The conditions come to follow the specs: a card's, through edits of its kind,
\* and those of a collection that lists cards, which publishes no list of its own.
ReadinessFollows ==
    <>[](/\ \A c \in Cards : Exists(cards[c]) => cards[c].conditions \in Verdicts(cards[c].spec)
         /\ collection.generation \in ListGens =>
              LET g == collection.generation IN
              /\ collection.resolvedSkills = {}
              /\ (collection.ready.status = "True") =
                   /\ Listed[g] # {} \/ g \in SelfContained
                   /\ \A c \in Listed[g] : Exists(cards[c]) /\ cards[c].conditions.ready = "True")

\* "A collection that no longer names an image keeps neither the cards the
\* enumeration wrote nor a status naming them" (skillcollection_controller.go):
\* the cards of an image that was given up are eventually gone.
CardsDropped ==
    <>[](collection.generation \notin ImageGens => Owned(cards) = {})

=============================================================================
