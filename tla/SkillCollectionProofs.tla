------------------------ MODULE SkillCollectionProofs ------------------------
(* Proofs about SkillCollection, for every number of generations, every set   *)
(* of cards and every source.                                                 *)
EXTENDS SkillCollection, TLAPS

-----------------------------------------------------------------------------
(* What the operators of the reconcilers return.                             *)

\* An image generation is a generation, and its skills are cards.
LEMMA GensFact ==
    /\ ImageGens \subseteq Gens /\ ListGens \subseteq Gens
    /\ \A g \in ImageGens : Holds[g] \subseteq Cards
    /\ \A g \in Gens : g \in 0..MaxGen /\ g \in ImageGens \cup ListGens
BY SkillCollectionAssumption DEF Gens, ListGens

\* No object of its kind.
LEMMA NothingFact ==
    /\ NoCollection \in Collections /\ NoCollection.generation = 0
    /\ NoJob \in Jobs /\ NoJob.state = "absent"
    /\ NoCard \in SkillCards /\ UserCard \in SkillCards
<1>1. 0 \in 0..MaxGen
    BY SkillCollectionAssumption
<1>2. NoCollection \in Collections /\ NoCollection.generation = 0
    BY <1>1 DEF NoCollection, Collections, Reasons
<1>3. NoJob \in Jobs /\ NoJob.state = "absent"
    BY DEF NoJob, Jobs, JobStates
<1>4. [ready |-> "None", resolvable |-> "None"] \in Conditions
    BY DEF Conditions
<1>5. NoCard \in SkillCards
    BY <1>1, <1>4 DEF NoCard, SkillCards
<1>6. UserCard \in SkillCards
    BY <1>5 DEF UserCard, SkillCards
<1>. QED BY <1>2, <1>3, <1>5, <1>6

\* A job is shown as absent just when it is.
LEMMA JobViewFact ==
    ASSUME NEW j \in Jobs
    PROVE  JobView(j) \in JobViews /\ (JobView(j) = "absent" <=> j.state = "absent")
BY DEF Jobs, JobStates, JobViews, JobView, Running

\* A Job is there before the step if it is there after, and the cache shows of
\* it what it showed or what it is.
Keeps ==
    \A g \in Gens : /\ jobs'[g].state # "absent" => jobs[g].state # "absent"
                    /\ jobsSeen'[g] = jobsSeen[g] \/ jobsSeen'[g] = JobView(jobs'[g])

\* Marking Jobs deleted changes no state of any.
LEMMA MarkDeletedFact ==
    ASSUME TypeOK, NEW stale
    PROVE  /\ MarkDeleted(stale) \in [Gens -> Jobs]
           /\ \A g \in Gens : MarkDeleted(stale)[g].state = jobs[g].state
<1>1. \A g \in Gens : jobs[g] \in Jobs
    BY DEF TypeOK
<1>2. \A j \in Jobs : [j EXCEPT !.deleting = TRUE] \in Jobs /\ [j EXCEPT !.deleting = TRUE].state = j.state
    BY DEF Jobs
<1>. QED BY <1>1, <1>2 DEF MarkDeleted

\* The status patch keeps the types.
LEMMA PatchStatusFact ==
    ASSUME TypeOK, collectionSeen.generation # 0,
           NEW status \in {"None", "True", "False"}, NEW reason \in Reasons,
           NEW resolved \in SUBSET Cards, NEW again \in BOOLEAN, NEW later \in BOOLEAN,
           PatchStatus(status, reason, resolved, again, later)
    PROVE  collection' \in Collections /\ queued' \in BOOLEAN /\ timer' \in BOOLEAN
<1>1. queued' \in BOOLEAN /\ timer' \in BOOLEAN
    BY DEF PatchStatus, TypeOK
<1>2. /\ collection.generation \in 0..MaxGen /\ collectionSeen.generation \in 0..MaxGen
      /\ collection.resolvedSkills \in SUBSET Cards
      /\ collection.ready \in
           [status : {"None", "True", "False"}, reason : Reasons, generation : 0..MaxGen]
    BY DEF TypeOK, Collections
<1>3. CASE collection.generation = 0
    BY <1>1, <1>3 DEF PatchStatus, TypeOK
<1>4. CASE collection.generation # 0
  <2>1. PICK rs, rd : /\ collection' = [generation |-> collection.generation,
                                       resolvedSkills |-> rs, ready |-> rd]
                      /\ rs \in {resolved, collection.resolvedSkills}
                      /\ rd \in {[status |-> status, reason |-> reason,
                                  generation |-> collectionSeen.generation], collection.ready}
      BY <1>4 DEF PatchStatus, Merged
  <2>2. rs \in SUBSET Cards
      BY <1>2, <2>1
  <2>3. rd \in [status : {"None", "True", "False"}, reason : Reasons, generation : 0..MaxGen]
      BY <1>2, <2>1
  <2>4. collection' \in Collections
      BY <1>2, <2>1, <2>2, <2>3 DEF Collections
  <2>. QED BY <1>1, <2>4
<1>. QED BY <1>3, <1>4

-----------------------------------------------------------------------------
(* Reconcile of a SkillCollection.                                           *)

\* Every way through Reconcile keeps the types; only one creates a Job.
LEMMA ReconcileFact ==
    ASSUME TypeOK, Reconcile
    PROVE  TypeOK' /\ (Keeps \/ ReconcileCreateJob)
<1>0. /\ collectionSeen.generation \in 0..MaxGen /\ collectionSeen.resolvedSkills \in SUBSET Cards
      /\ Owned(cardsSeen) \in SUBSET Cards
    BY DEF TypeOK, Collections, Owned
<1>r. /\ "Enumerating" \in Reasons /\ "EnumerationFailed" \in Reasons
      /\ "AllSkillsResolved" \in Reasons
    BY DEF Reasons
<1>1. CASE ReconcileGone
    BY <1>1 DEF ReconcileGone, unreconciled, TypeOK, Keeps
<1>2. CASE ReconcileStaleJobs
  <2>1. /\ jobs' = MarkDeleted(StaleJobs(EnumerationJob)) /\ collectionSeen.generation # 0
        /\ PatchStatus("False", "Enumerating", collectionSeen.resolvedSkills, FALSE, FALSE)
        /\ UNCHANGED <<jobsSeen, cards, failures, unreconciled>>
      BY <1>2 DEF ReconcileStaleJobs, ReconcilingImage, Reconciling
  <2>2. collection' \in Collections /\ queued' \in BOOLEAN /\ timer' \in BOOLEAN
      BY <1>0, <1>r, <2>1, PatchStatusFact
  <2>3. jobs' \in [Gens -> Jobs] /\ \A g \in Gens : jobs'[g].state = jobs[g].state
      BY <2>1, MarkDeletedFact
  <2>. QED BY <2>1, <2>2, <2>3 DEF TypeOK, Keeps, unreconciled
<1>3. CASE \/ ReconcileForbidden \/ ReconcileJobRunning \/ ReconcileJobFailed
           \/ ReconcileNotVisible \/ ReconcileEnumerated
  <2>1. PICK status \in {"None", "True", "False"}, reason \in Reasons, resolved \in SUBSET Cards,
             again \in BOOLEAN, later \in BOOLEAN :
          PatchStatus(status, reason, resolved, again, later)
      BY <1>0, <1>r, <1>3 DEF ReconcileForbidden, ReconcileJobRunning, ReconcileJobFailed,
         ReconcileNotVisible, ReconcileEnumerated
  <2>2. /\ UNCHANGED <<jobs, jobsSeen, cards, failures, unreconciled>>
        /\ collectionSeen.generation # 0
      BY <1>3 DEF ReconcileForbidden, ReconcileJobRunning, ReconcileJobFailed,
         ReconcileNotVisible, ReconcileEnumerated, ReconcilingImage, Reconciling
  <2>3. collection' \in Collections /\ queued' \in BOOLEAN /\ timer' \in BOOLEAN
      BY <2>1, <2>2, PatchStatusFact
  <2>. QED BY <2>2, <2>3 DEF TypeOK, Keeps, unreconciled
<1>4. CASE ReconcileCreateJob
  <2>1. /\ collectionSeen.generation \in ImageGens /\ collectionSeen.generation # 0
        /\ PatchStatus("False", "Enumerating", collectionSeen.resolvedSkills, FALSE, FALSE)
        /\ UNCHANGED <<cards, failures, unreconciled>>
      BY <1>4 DEF ReconcileCreateJob, ReconcilingImage, Reconciling
  <2>2. collection' \in Collections /\ queued' \in BOOLEAN /\ timer' \in BOOLEAN
      BY <1>0, <1>r, <2>1, PatchStatusFact
  <2>3. EnumerationJob \in Gens /\ Holds[collectionSeen.generation] \in SUBSET Cards
      BY <2>1, GensFact DEF EnumerationJob
  <2>. DEFINE j == [state |-> "writing", todo |-> Holds[collectionSeen.generation],
                    deleting |-> FALSE]
  <2>4. j \in Jobs
      BY <2>3 DEF Jobs, JobStates
  <2>. HIDE DEF j
  <2>5. jobs' \in [Gens -> Jobs]
    <3>. DEFINE M == MarkDeleted(StaleJobs(EnumerationJob))
    <3>1. M \in [Gens -> Jobs]
        BY MarkDeletedFact
    <3>2. jobs' = IF jobs[EnumerationJob].state = "absent" THEN [M EXCEPT ![EnumerationJob] = j] ELSE M
        BY <1>4 DEF ReconcileCreateJob, j
    <3>. HIDE DEF M
    <3>. QED BY <2>4, <3>1, <3>2
  <2>6. jobsSeen' \in [Gens -> JobViews]
    <3>1. JobView(jobs'[EnumerationJob]) \in JobViews
        BY <2>3, <2>5, JobViewFact
    <3>2. jobsSeen' = IF SeesOwnJobs
                      THEN [jobsSeen EXCEPT ![EnumerationJob] = JobView(jobs'[EnumerationJob])]
                      ELSE jobsSeen
        BY <1>4 DEF ReconcileCreateJob
    <3>. QED BY <3>1, <3>2 DEF TypeOK
  <2>. QED BY <1>4, <2>1, <2>2, <2>5, <2>6 DEF TypeOK, unreconciled
<1>5. CASE ReconcileList
  <2>1. /\ \/ jobs' = MarkDeleted(StaleJobs(0))
           \/ jobs' = jobs
        /\ \E drops \in BOOLEAN :
             cards' = [c \in Cards |-> IF drops /\ c \in Owned(cardsSeen) THEN NoCard ELSE cards[c]]
        /\ \E status \in {"None", "True", "False"}, reason \in Reasons :
             PatchStatus(status, reason, {}, FALSE, FALSE)
        /\ UNCHANGED <<jobsSeen, failures, unreconciled>> /\ collectionSeen.generation # 0
      BY <1>5 DEF ReconcileList, Reconciling, Reasons
  <2>2. jobs' \in [Gens -> Jobs] /\ \A g \in Gens : jobs'[g].state = jobs[g].state
      BY <2>1, MarkDeletedFact DEF TypeOK
  <2>3. cards' \in [Cards -> SkillCards]
      BY <2>1, NothingFact DEF TypeOK
  <2>4. collection' \in Collections /\ queued' \in BOOLEAN /\ timer' \in BOOLEAN
    <3>1. PICK status \in {"None", "True", "False"}, reason \in Reasons :
            PatchStatus(status, reason, {}, FALSE, FALSE)
        BY <2>1
    <3>2. {} \in SUBSET Cards
        OBVIOUS
    <3>. QED BY <2>1, <3>1, <3>2, PatchStatusFact
  <2>. QED BY <2>1, <2>2, <2>3, <2>4 DEF TypeOK, Keeps, unreconciled
<1>. QED BY <1>1, <1>2, <1>3, <1>4, <1>5 DEF Reconcile

\* So does a reconcile that ends with an error.
LEMMA ReconcileFailsFact ==
    ASSUME TypeOK, ReconcileFails
    PROVE  TypeOK' /\ Keeps
<1>0. /\ collectionSeen.generation \in 0..MaxGen /\ collectionSeen.resolvedSkills \in SUBSET Cards
      /\ "EnumerationFailed" \in Reasons
    BY DEF TypeOK, Collections, Reasons
<1>1. /\ failures' \in 0..MaxFailures /\ collectionSeen.generation # 0
      /\ UNCHANGED <<jobsSeen, unreconciled>>
    BY SkillCollectionAssumption DEF ReconcileFails, Reconciling, TypeOK
<1>2. jobs' \in [Gens -> Jobs] /\ \A g \in Gens : jobs'[g].state = jobs[g].state
  <2>1. jobs' = jobs \/ \E stale \in SUBSET Gens : jobs' = MarkDeleted(stale)
      BY DEF ReconcileFails, StaleJobs
  <2>. QED BY <2>1, MarkDeletedFact DEF TypeOK
<1>3. cards' \in [Cards -> SkillCards]
    BY NothingFact DEF ReconcileFails, TypeOK
<1>4. collection' \in Collections /\ queued' \in BOOLEAN /\ timer' \in BOOLEAN
  <2>1. \/ PatchStatus("False", "EnumerationFailed", collectionSeen.resolvedSkills, TRUE, FALSE)
        \/ queued' = TRUE /\ UNCHANGED <<collection, timer>>
      BY DEF ReconcileFails
  <2>2. CASE queued' = TRUE /\ UNCHANGED <<collection, timer>>
      BY <2>2 DEF TypeOK
  <2>3. CASE PatchStatus("False", "EnumerationFailed", collectionSeen.resolvedSkills, TRUE, FALSE)
      BY <1>0, <1>1, <2>3, PatchStatusFact
  <2>. QED BY <2>1, <2>2, <2>3
<1>. QED BY <1>1, <1>2, <1>3, <1>4 DEF TypeOK, Keeps, unreconciled

-----------------------------------------------------------------------------
(* SkillCards, the watches and the Job's pod.                                *)

\* One card is replaced.
LEMMA CardUpdateFact ==
    ASSUME TypeOK, NEW c \in Cards, NEW d \in SkillCards
    PROVE  [cards EXCEPT ![c] = d] \in [Cards -> SkillCards]
BY DEF TypeOK

\* What the SkillCard reconciler concludes is a list of conditions.
LEMMA VerdictsFact ==
    ASSUME NEW spec
    PROVE  Verdicts(spec) \subseteq Conditions
BY SkillCollectionAssumption DEF Verdicts, Conditions

\* The SkillCard reconciler, the watches and a restart of the manager.
LEMMA WatchFact ==
    ASSUME TypeOK,
           \/ RequeueAfter \/ SyncCollection \/ Restart
           \/ \E g \in Gens : SyncJob(g)
           \/ \E c \in Cards : ReconcileCard(c) \/ SyncCard(c) \/ CollectCard(c)
    PROVE  TypeOK' /\ Keeps
<1>1. CASE RequeueAfter
    BY <1>1 DEF RequeueAfter, TypeOK, Keeps
<1>2. CASE SyncCollection
    BY <1>2 DEF SyncCollection, TypeOK, Keeps
<1>3. CASE Restart
  <2>1. \A g \in Gens : JobView(jobs[g]) \in JobViews
      BY JobViewFact DEF TypeOK
  <2>. QED BY <1>3, <2>1 DEF Restart, TypeOK, Keeps
<1>4. ASSUME NEW g \in Gens, SyncJob(g) PROVE TypeOK' /\ Keeps
  <2>1. JobView(jobs[g]) \in JobViews
      BY JobViewFact DEF TypeOK
  <2>. QED BY <1>4, <2>1 DEF SyncJob, TypeOK, Keeps
<1>5. ASSUME NEW c \in Cards, ReconcileCard(c) PROVE TypeOK' /\ Keeps
  <2>1. cards' \in [Cards -> SkillCards]
    <3>1. PICK conditions \in Conditions :
            cards' = cards \/ cards' = [cards EXCEPT ![c] = [cards[c] EXCEPT !.conditions = conditions]]
      <4>1. PICK verdict \in Verdicts(cardsSeen[c].spec) :
              \/ cards' = cards
              \/ cards' = [cards EXCEPT ![c] = [cards[c] EXCEPT !.conditions =
                            Merged(cardsSeen[c].conditions, verdict, cards[c].conditions)]]
          BY <1>5 DEF ReconcileCard
      <4>2. verdict \in Conditions /\ cards[c].conditions \in Conditions
          BY VerdictsFact DEF TypeOK, SkillCards
      <4>3. Merged(cardsSeen[c].conditions, verdict, cards[c].conditions) \in Conditions
          BY <4>2 DEF Merged
      <4>. QED BY <4>1, <4>3
    <3>2. cards[c] \in SkillCards
        BY DEF TypeOK
    <3>3. [cards[c] EXCEPT !.conditions = conditions] \in SkillCards
        BY <3>2 DEF SkillCards
    <3>. QED BY <3>1, <3>3 DEF TypeOK
  <2>. QED BY <1>5, <2>1 DEF ReconcileCard, TypeOK, Keeps
<1>6. ASSUME NEW c \in Cards, SyncCard(c) PROVE TypeOK' /\ Keeps
  <2>1. queued' \in BOOLEAN /\ cardsSeen' \in [Cards -> SkillCards]
      BY <1>6 DEF SyncCard, TypeOK
  <2>. QED BY <1>6, <2>1 DEF SyncCard, TypeOK, Keeps
<1>7. ASSUME NEW c \in Cards, CollectCard(c) PROVE TypeOK' /\ Keeps
    BY <1>7, NothingFact DEF CollectCard, reconcilerVars, TypeOK, Keeps
<1>. QED BY <1>1, <1>2, <1>3, <1>4, <1>5, <1>6, <1>7

\* One Job moves on.
LEMMA JobUpdateFact ==
    ASSUME TypeOK, NEW g \in Gens, NEW j \in Jobs, j.state # "absent" => jobs[g].state # "absent",
           jobs' = [jobs EXCEPT ![g] = j]
    PROVE  /\ jobs' \in [Gens -> Jobs]
           /\ \A h \in Gens : jobs'[h].state # "absent" => jobs[h].state # "absent"
BY DEF TypeOK

\* A Job with another state, another rest of its work.
SetJob(j, state, todo) == [j EXCEPT !.state = state, !.todo = todo]

\* It is a Job, in that state.
LEMMA SetJobFact ==
    ASSUME NEW j \in Jobs, NEW state \in JobStates, NEW todo \in SUBSET Cards
    PROVE  SetJob(j, state, todo) \in Jobs /\ SetJob(j, state, todo).state = state
BY DEF SetJob, Jobs

\* The pod of a Job, and what ends it.
LEMMA JobFact ==
    ASSUME TypeOK, NEW g \in ImageGens, JobStep(g) \/ JobFails(g) \/ JobGone(g)
    PROVE  TypeOK' /\ Keeps
<1>0. g \in Gens /\ jobs[g] \in Jobs /\ jobs[g].todo \in SUBSET Cards
    BY GensFact DEF TypeOK, Jobs
<1>1. ASSUME NEW state \in JobStates, NEW todo \in SUBSET Cards,
             jobs[g].state # "absent", jobs' = [jobs EXCEPT ![g] = SetJob(jobs[g], state, todo)],
             cards' \in [Cards -> SkillCards], UNCHANGED reconcilerVars
      PROVE  TypeOK' /\ Keeps
  <2>1. SetJob(jobs[g], state, todo) \in Jobs
      BY <1>0, SetJobFact
  <2>2. /\ jobs' \in [Gens -> Jobs]
        /\ \A h \in Gens : jobs'[h].state # "absent" => jobs[h].state # "absent"
      BY <1>0, <1>1, <2>1, JobUpdateFact
  <2>. QED BY <1>1, <2>2 DEF TypeOK, Keeps, reconcilerVars
<1>s. /\ "failed" \in JobStates /\ "pruning" \in JobStates /\ "complete" \in JobStates
      /\ "writing" \in JobStates /\ {} \in SUBSET Cards
    BY DEF JobStates
<1>2. ASSUME NEW c \in Cards, WriteCard(g, c) PROVE TypeOK' /\ Keeps
  <2>1. CASE cards[c].owner # "user"
    <3>1. jobs' = [jobs EXCEPT ![g] = SetJob(jobs[g], "writing", jobs[g].todo \ {c})]
      <4>1. jobs' = [jobs EXCEPT ![g] = [jobs[g] EXCEPT !.todo = jobs[g].todo \ {c}]]
          BY <1>2, <2>1 DEF WriteCard
      <4>2. [jobs[g] EXCEPT !.todo = jobs[g].todo \ {c}] = SetJob(jobs[g], "writing", jobs[g].todo \ {c})
          BY <1>0, <1>2 DEF WriteCard, SetJob, Jobs
      <4>. QED BY <4>1, <4>2
    <3>2. cards' \in [Cards -> SkillCards]
      <4>. DEFINE d == [cards[c] EXCEPT !.owner = "collection", !.from = g, !.spec = "image"]
      <4>1. cards' = [cards EXCEPT ![c] = d]
          BY <1>2, <2>1 DEF WriteCard, TypeOK
      <4>2. d \in SkillCards
        <5>1. cards[c] \in SkillCards /\ g \in 0..MaxGen
            BY <1>0, GensFact DEF TypeOK
        <5>. QED BY <5>1 DEF SkillCards
      <4>. HIDE DEF d
      <4>. QED BY <4>1, <4>2, CardUpdateFact
    <3>3. jobs[g].todo \ {c} \in SUBSET Cards /\ jobs[g].state # "absent" /\ UNCHANGED reconcilerVars
        BY <1>0, <1>2 DEF WriteCard
    <3>. QED BY <1>1, <1>s, <3>1, <3>2, <3>3
  <2>2. CASE cards[c].owner = "user"
    <3>1. jobs' = [jobs EXCEPT ![g] = SetJob(jobs[g], "failed", {})]
        BY <1>0, <1>2, <2>2 DEF WriteCard, SetJob, TypeOK
    <3>. QED BY <1>1, <1>2, <1>s, <2>2, <3>1 DEF WriteCard, TypeOK
  <2>. QED BY <2>1, <2>2
<1>3. ASSUME NEW c \in Cards, PruneCard(g, c) PROVE TypeOK' /\ Keeps
  <2>1. cards' \in [Cards -> SkillCards]
      BY <1>3, CardUpdateFact, NothingFact DEF PruneCard
  <2>2. CASE Exists(cards[c])
    <3>1. jobs' = [jobs EXCEPT ![g] = SetJob(jobs[g], "pruning", jobs[g].todo \ {c})]
      <4>1. jobs' = [jobs EXCEPT ![g] = [jobs[g] EXCEPT !.todo = jobs[g].todo \ {c}]]
          BY <1>3, <2>2 DEF PruneCard
      <4>2. [jobs[g] EXCEPT !.todo = jobs[g].todo \ {c}] = SetJob(jobs[g], "pruning", jobs[g].todo \ {c})
          BY <1>0, <1>3 DEF PruneCard, SetJob, Jobs
      <4>. QED BY <4>1, <4>2
    <3>2. jobs[g].todo \ {c} \in SUBSET Cards /\ jobs[g].state # "absent" /\ UNCHANGED reconcilerVars
        BY <1>0, <1>3 DEF PruneCard
    <3>. QED BY <1>1, <1>s, <2>1, <3>1, <3>2
  <2>3. CASE ~Exists(cards[c])
    <3>1. jobs' = [jobs EXCEPT ![g] = SetJob(jobs[g], "failed", {})]
        BY <1>0, <1>3, <2>3 DEF PruneCard, SetJob, TypeOK
    <3>. QED BY <1>1, <1>3, <1>s, <2>1, <3>1 DEF PruneCard
  <2>. QED BY <2>2, <2>3
<1>4. CASE ListOwned(g)
  <2>1. Unwanted(g) \in SUBSET Cards
      BY DEF Unwanted, Owned
  <2>2. jobs' = [jobs EXCEPT ![g] = SetJob(jobs[g], "pruning", Unwanted(g))]
      BY <1>0, <1>4 DEF ListOwned, SetJob, TypeOK
  <2>. QED BY <1>1, <1>4, <1>s, <2>1, <2>2 DEF ListOwned, TypeOK
<1>5. CASE JobCompletes(g)
  <2>1. jobs' = [jobs EXCEPT ![g] = SetJob(jobs[g], "complete", jobs[g].todo)]
    <3>1. jobs' = [jobs EXCEPT ![g] = [jobs[g] EXCEPT !.state = "complete"]]
        BY <1>5 DEF JobCompletes
    <3>2. [jobs[g] EXCEPT !.state = "complete"] = SetJob(jobs[g], "complete", jobs[g].todo)
        BY <1>0 DEF SetJob, Jobs
    <3>. QED BY <3>1, <3>2
  <2>. QED BY <1>0, <1>1, <1>5, <1>s, <2>1 DEF JobCompletes, TypeOK
<1>6. CASE JobFails(g)
  <2>1. jobs' = [jobs EXCEPT ![g] = SetJob(jobs[g], "failed", {})]
      BY <1>0, <1>6 DEF JobFails, SetJob, TypeOK
  <2>. QED BY <1>1, <1>6, <1>s, <2>1 DEF JobFails, Running, TypeOK
<1>7. CASE JobGone(g)
  <2>1. /\ jobs' \in [Gens -> Jobs]
        /\ \A h \in Gens : jobs'[h].state # "absent" => jobs[h].state # "absent"
      BY <1>0, <1>7, NothingFact, JobUpdateFact DEF JobGone
  <2>. QED BY <1>7, <2>1 DEF JobGone, TypeOK, Keeps, reconcilerVars
<1>. QED BY <1>2, <1>3, <1>4, <1>5, <1>6, <1>7 DEF JobStep

\* What users do.
LEMMA UserFact ==
    ASSUME TypeOK,
           EditCollection \/ DeleteCollection \/ GrantRBAC \/ \E c \in Cards : EditCard(c)
    PROVE  TypeOK' /\ Keeps
<1>0. edits' \in 0..MaxEdits
  <2>1. Edit
      BY DEF EditCollection, DeleteCollection, GrantRBAC, EditCard
  <2>. QED BY <2>1, SkillCollectionAssumption DEF Edit, TypeOK
<1>1. CASE EditCollection
  <2>1. PICK g \in (collection.generation + 1)..MaxGen : collection' = [collection EXCEPT !.generation = g]
      BY <1>1 DEF EditCollection
  <2>2. g \in 0..MaxGen
      BY SkillCollectionAssumption DEF TypeOK, Collections
  <2>3. collection' \in Collections
      BY <2>1, <2>2 DEF TypeOK, Collections
  <2>. QED BY <1>0, <1>1, <2>3 DEF EditCollection, TypeOK, Keeps
<1>2. CASE DeleteCollection
    BY <1>0, <1>2, NothingFact DEF DeleteCollection, TypeOK, Keeps
<1>3. CASE GrantRBAC
    BY <1>0, <1>3 DEF GrantRBAC, TypeOK, Keeps
<1>4. ASSUME NEW c \in Cards, EditCard(c) PROVE TypeOK' /\ Keeps
  <2>1. PICK spec \in CardSpecs : cards' = [cards EXCEPT ![c].owner = "user", ![c].spec = spec]
      BY <1>4 DEF EditCard
  <2>. DEFINE d == [cards[c] EXCEPT !.owner = "user", !.spec = spec]
  <2>2. cards' = [cards EXCEPT ![c] = d]
      BY <2>1 DEF TypeOK
  <2>3. d \in SkillCards
    <3>1. cards[c] \in SkillCards
        BY DEF TypeOK
    <3>. QED BY <3>1 DEF SkillCards
  <2>. HIDE DEF d
  <2>4. cards' \in [Cards -> SkillCards]
      BY <2>2, <2>3, CardUpdateFact
  <2>. QED BY <1>0, <1>4, <2>4 DEF EditCard, TypeOK, Keeps
<1>. QED BY <1>1, <1>2, <1>3, <1>4

\* The summary of Next that everything below is proved from.
LEMMA NextFact ==
    ASSUME TypeOK, Next
    PROVE  TypeOK' /\ (Keeps \/ ReconcileCreateJob)
BY ReconcileFact, ReconcileFailsFact, WatchFact, JobFact, UserFact DEF Next

\* Type correctness, for every number of generations and every set of cards.
THEOREM TypeCorrect == Spec => []TypeOK
<1>1. Init => TypeOK
  <2>. SUFFICES ASSUME Init PROVE TypeOK
      OBVIOUS
  <2>1. collection \in Collections /\ collectionSeen \in Collections
    <3>1. 1 \in 0..MaxGen
        BY SkillCollectionAssumption
    <3>2. [NoCollection EXCEPT !.generation = 1] \in Collections
        BY <3>1, NothingFact DEF Collections
    <3>. QED BY <3>2 DEF Init
  <2>2. jobs \in [Gens -> Jobs] /\ jobsSeen \in [Gens -> JobViews]
      BY NothingFact DEF Init, JobViews
  <2>3. cards \in [Cards -> SkillCards] /\ cardsSeen \in [Cards -> SkillCards]
      BY NothingFact DEF Init
  <2>4. edits \in 0..MaxEdits /\ failures \in 0..MaxFailures
      BY SkillCollectionAssumption DEF Init
  <2>5. queued \in BOOLEAN /\ timer \in BOOLEAN /\ cardQueue \subseteq Cards
      BY DEF Init
  <2>6. forbidden \in BOOLEAN
    <3>1. forbidden = FALSE \/ forbidden = ("forbidden" \in Faults)
        BY Zenon DEF Init
    <3>2. ("forbidden" \in Faults) = TRUE \/ ("forbidden" \in Faults) = FALSE
        OBVIOUS
    <3>. QED BY <3>1, <3>2, Zenon
  <2>. QED BY <2>1, <2>2, <2>3, <2>4, <2>5, <2>6 DEF TypeOK
<1>2. TypeOK /\ [Next]_vars => TypeOK'
  <2>1. CASE Next
      BY <2>1, NextFact
  <2>2. CASE UNCHANGED vars
      BY <2>2 DEF TypeOK, vars
  <2>. QED BY <2>1, <2>2
<1>. QED BY <1>1, <1>2, PTL DEF Spec

-----------------------------------------------------------------------------
(* One materialization at a time.                                            *)

\* At most one enumeration Job exists, at work or not, and the cache has not
\* missed it.
OneJob ==
    \A g \in Gens : jobs[g].state # "absent" =>
        /\ jobsSeen[g] # "absent"
        /\ \A h \in Gens : jobs[h].state # "absent" => g = h

\* No step adds a second Job while one is in the cache, and the cache sees the
\* Jobs the controller itself created.
LEMMA OneJobStep ==
    ASSUME SeesOwnJobs, TypeOK, TypeOK', OneJob, Keeps \/ ReconcileCreateJob
    PROVE  OneJob'
<1>1. CASE Keeps
  <2>1. \A g \in Gens : JobView(jobs'[g]) = "absent" <=> jobs'[g].state = "absent"
      BY JobViewFact DEF TypeOK
  <2>. QED BY <1>1, <2>1 DEF OneJob, Keeps
<1>2. CASE ReconcileCreateJob
  <2>. DEFINE e == EnumerationJob
  <2>1. e \in Gens /\ StaleJobs(e) = {}
      BY <1>2, GensFact DEF ReconcileCreateJob, WaitsForStaleJobs, ReconcilingImage, EnumerationJob
  <2>2. \A g \in Gens : g # e => jobs[g].state = "absent"
      BY <2>1 DEF StaleJobs, OneJob
  <2>3. jobs[e].state = "absent"
      BY <1>2, <2>1 DEF ReconcileCreateJob, OneJob
  <2>4. \A g \in Gens : g # e => jobs'[g].state = "absent"
    <3>. DEFINE M == MarkDeleted(StaleJobs(e))
    <3>1. M \in [Gens -> Jobs] /\ \A g \in Gens : M[g].state = jobs[g].state
        BY MarkDeletedFact
    <3>2. \E j : jobs' = [M EXCEPT ![e] = j]
        BY <1>2, <2>3 DEF ReconcileCreateJob
    <3>. HIDE DEF M
    <3>. QED BY <2>2, <3>1, <3>2
  <2>5. jobsSeen'[e] = "absent" => jobs'[e].state = "absent"
    <3>1. jobsSeen'[e] = JobView(jobs'[e])
        BY <1>2, <2>1 DEF ReconcileCreateJob, TypeOK
    <3>. QED BY <2>1, <3>1, JobViewFact DEF TypeOK
  <2>. HIDE DEF e
  <2>. QED BY <2>4, <2>5 DEF OneJob
<1>. QED BY <1>1, <1>2

\* At most one enumeration Job exists at any time, one being deleted included.
THEOREM OneJobKept == ASSUME SeesOwnJobs PROVE Spec => []OneJob
<1>1. Init => OneJob
    BY NothingFact DEF Init, OneJob
<1>2. TypeOK /\ TypeOK' /\ OneJob /\ [Next]_vars => OneJob'
  <2>1. CASE Next
      BY <2>1, NextFact, OneJobStep
  <2>2. CASE UNCHANGED vars
      BY <2>2 DEF OneJob, vars
  <2>. QED BY <2>1, <2>2
<1>. QED BY <1>1, <1>2, TypeCorrect, PTL DEF Spec

\* No two pods of enumeration Jobs are ever at work together, so that no
\* materialization deletes another's cards.
THEOREM MaterializersDoNotOverlap == ASSUME SeesOwnJobs PROVE Spec => []OneMaterializer
<1>1. OneJob => OneMaterializer
    BY DEF OneJob, OneMaterializer, Running
<1>. QED BY <1>1, OneJobKept, PTL

=============================================================================
