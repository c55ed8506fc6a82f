------------------------ MODULE ContributionPipeline ------------------------
(***************************************************************************)
(* The receive side of a worker: DefaultContributionPipeline with its      *)
(* gathering policy, contribution store, ordered postbox and the receive   *)
(* coordinator that turns a collection handle into an acknowledgement.     *)
(*                                                                         *)
(* A submission is one call of submit, that is one do_put stream received  *)
(* from a source hop.  It also stands for the objects that call allocates: *)
(* the lock slot and the collection handle a submission creates carry its  *)
(* name.  Every action is the stretch of code from one await to the next.  *)
(* The ports awaited inside the critical section are abstract classes, so  *)
(* each of them may suspend, and plans may be stored while they do.        *)
(*                                                                         *)
(*   pc[s]           the await submission s stands at                      *)
(*   contribution[s] what s carries: collection key, source hop, tensors   *)
(*   slotOf[s], handleOf[s], oldOf[s]   the locals of submit               *)
(*   lockSlots, users, lock             _lock_slots: key -> slot, and each *)
(*                   slot's user count and FIFO asyncio.Lock (owner first) *)
(*   handles, future _handles: key -> handle, and each handle's future     *)
(*   store           the contributions kept for a key (names of the        *)
(*                   submissions that brought them)                        *)
(*   deposited       OrderedPostbox: the keys ever deposited, with the     *)
(*                   collection each was deposited with ({} for never)     *)
(*   queue           OrderedPostbox._queue                                 *)
(*   plans           versions the worker plan store knows                  *)
(***************************************************************************)
EXTENDS Naturals, Sequences, FiniteSets

CONSTANTS Submissions,   \* calls of submit
          Keys,          \* collection keys: (model pass context, hop)
          Contributions, \* what may be sent: records [key, source, tensors]
          Versions,      \* plan versions
          VersionOf,     \* the plan version inside a key's context
          InputRouting,  \* routed key -> [source -> tensors expected of it]
          None

ASSUME PipelineAssumption ==
  /\ IsFiniteSet(Submissions)
  /\ None \notin Submissions
  /\ \A c \in Contributions : c.key \in Keys
  /\ VersionOf \in [Keys -> Versions]

VARIABLES pc, contribution, slotOf, handleOf, oldOf, lockSlots, users, lock,
          handles, future, store, deposited, queue, plans

slotVars == <<lockSlots, users, lock>>
handleVars == <<handles, future>>
boxVars == <<store, deposited, queue>>
vars == <<pc, contribution, slotOf, handleOf, oldOf, slotVars, handleVars,
          boxVars, plans>>

InSection == {"get_all", "validate", "is_ready", "put", "deposit", "discard"}
Locals == {"idle", "lock", "future", "acked", "raised"} \cup InSection

keyOf(s) == contribution[s].key

\* Submissions that hold a reference to a lock slot.
Using(s) == pc[s] = "lock" \/ pc[s] \in InSection
UsersOf(slot) == {s \in Submissions : Using(s) /\ slotOf[s] = slot}

Init ==
  /\ pc = [s \in Submissions |-> "idle"]
  /\ contribution \in [Submissions -> Contributions]
  /\ slotOf = [s \in Submissions |-> None]
  /\ handleOf = [s \in Submissions |-> None]
  /\ oldOf = [s \in Submissions |-> {}]
  /\ lockSlots = [k \in Keys |-> None]
  /\ users = [s \in Submissions |-> 0]
  /\ lock = [s \in Submissions |-> <<>>]
  /\ handles = [k \in Keys |-> None]
  /\ future = [s \in Submissions |-> "none"]
  /\ store = [k \in Keys |-> {}]
  /\ deposited = [k \in Keys |-> {}]
  /\ queue = <<>>
  /\ plans \in SUBSET Versions

-----------------------------------------------------------------------------
(* The gathering policy, over sets of submissions.                         *)

TensorsOf(C) == UNION {contribution[c].tensors : c \in C}
ArrivedFrom(C, source) == TensorsOf({c \in C : contribution[c].source = source})

\* HopRoutings.check_inputs_ready: every expected source has delivered
\* exactly the tensors expected of it.
check_inputs_ready(k, C) ==
  \A source \in DOMAIN InputRouting[k] :
    ArrivedFrom(C, source) = InputRouting[k][source]

\* Mutant of validate: the duplicate-tensor check is missing.
validate_without_duplicates(s, old) ==
  LET c == contribution[s]
  IN /\ c.key \in DOMAIN InputRouting
     /\ c.source \in DOMAIN InputRouting[c.key]
     /\ c.tensors \subseteq InputRouting[c.key][c.source]

\* validate, once the plan is found: the key is routed, the source and its
\* tensors are expected, and no tensor was received before.
validate(s, old) ==
  LET c == contribution[s]
  IN /\ c.key \in DOMAIN InputRouting
     /\ c.source \in DOMAIN InputRouting[c.key]
     /\ c.tensors \subseteq InputRouting[c.key][c.source]
     /\ c.tensors \cap TensorsOf(old) = {}

\* Mutant of is_ready: evaluated before the new contribution is added.
is_ready_before(s) == check_inputs_ready(keyOf(s), oldOf[s])

is_ready(s) == check_inputs_ready(keyOf(s), oldOf[s] \cup {s})

-----------------------------------------------------------------------------
(* Handles.  f and h stand for the futures and a handle.                   *)

\* Mutant of done: a handle counts as done once it exists.
done_when_built(f, h) == f[h] # "none"

done(f, h) == f[h] \in {"result", "exception"}

\* Mutant of resolve: the handle is left unresolved.
resolve_never(f, h, outcome) == f

\* "if not handle.future.done()", then set_result or set_exception.
resolve(f, h, outcome) == IF done(f, h) THEN f ELSE [f EXCEPT ![h] = outcome]

setdefault(hs, k, h) == IF hs[k] = None THEN [hs EXCEPT ![k] = h] ELSE hs

\* Mutant of drop_resolved: the resolved handle stays.
drop_never(hs, f, k) == hs

drop_resolved(hs, f, k) ==
  IF hs[k] # None /\ done(f, hs[k]) THEN [hs EXCEPT ![k] = None] ELSE hs

-----------------------------------------------------------------------------
(* Lock slots.                                                             *)

\* Mutant of last_user: the slot is dropped while others wait on it.
last_user_always(slot) == TRUE

last_user(slot) == users[slot] = 1

\* The owner of a lock leaves; the next in line owns it.
hand_on(q) == Tail(q)

owns_lock(s) == lock[slotOf[s]] # <<>> /\ Head(lock[slotOf[s]]) = s

\* Mutant of acquire_lock_slot: the user is not counted.
acquire_uncounted(s) ==
  LET slot == IF lockSlots[keyOf(s)] = None THEN s ELSE lockSlots[keyOf(s)]
  IN /\ lockSlots' = [lockSlots EXCEPT ![keyOf(s)] = slot]
     /\ lock' = [lock EXCEPT ![slot] = Append(@, s)]
     /\ slotOf' = [slotOf EXCEPT ![s] = slot]
     /\ UNCHANGED users

\* _acquire_lock_slot, then the submission queues for the slot's lock.
acquire_lock_slot(s) ==
  LET slot == IF lockSlots[keyOf(s)] = None THEN s ELSE lockSlots[keyOf(s)]
  IN /\ lockSlots' = [lockSlots EXCEPT ![keyOf(s)] = slot]
     /\ users' = [users EXCEPT ![slot] = @ + 1]
     /\ lock' = [lock EXCEPT ![slot] = Append(@, s)]
     /\ slotOf' = [slotOf EXCEPT ![s] = slot]

\* Leaving "async with" and the finally clause: the lock passes to the next
\* in line; the last user drops the slot, and with it a resolved handle.
\* hs and fs are the handle table and the futures the section leaves behind.
release_lock_slot(s, hs, fs) ==
  LET k == keyOf(s)
      slot == slotOf[s]
  IN /\ lock' = [lock EXCEPT ![slot] = hand_on(@)]
     /\ users' = [users EXCEPT ![slot] = @ - 1]
     /\ lockSlots' = IF last_user(slot) THEN [lockSlots EXCEPT ![k] = None]
                     ELSE lockSlots
     /\ future' = fs
     /\ handles' = IF last_user(slot) THEN drop_resolved(hs, fs, k) ELSE hs
     /\ oldOf' = [oldOf EXCEPT ![s] = {}]

-----------------------------------------------------------------------------
(* submit and _submit_pipeline.                                            *)

Submit(s) ==
  /\ pc[s] = "idle"
  /\ acquire_lock_slot(s)
  /\ pc' = [pc EXCEPT ![s] = "lock"]
  /\ UNCHANGED <<contribution, handleOf, oldOf, handleVars, boxVars, plans>>

\* The lock is granted and _get_or_build_handle runs.  A handle already done
\* is returned at once.
EnterReturningDone(s) ==
  /\ pc[s] = "lock"
  /\ owns_lock(s)
  /\ handles[keyOf(s)] # None
  /\ done(future, handles[keyOf(s)])
  /\ handleOf' = [handleOf EXCEPT ![s] = handles[keyOf(s)]]
  /\ release_lock_slot(s, handles, future)
  /\ pc' = [pc EXCEPT ![s] = "future"]
  /\ UNCHANGED <<contribution, slotOf, boxVars, plans>>

EnterSection(s) ==
  /\ pc[s] = "lock"
  /\ owns_lock(s)
  /\ IF handles[keyOf(s)] = None
     THEN /\ handleOf' = [handleOf EXCEPT ![s] = s]
          /\ future' = [future EXCEPT ![s] = "pending"]
     ELSE /\ ~ done(future, handles[keyOf(s)])
          /\ handleOf' = [handleOf EXCEPT ![s] = handles[keyOf(s)]]
          /\ UNCHANGED future
  /\ pc' = [pc EXCEPT ![s] = "get_all"]
  /\ UNCHANGED <<contribution, slotOf, oldOf, slotVars, handles, boxVars, plans>>

GetAll(s) ==
  /\ pc[s] = "get_all"
  /\ oldOf' = [oldOf EXCEPT ![s] = store[keyOf(s)]]
  /\ pc' = [pc EXCEPT ![s] = "validate"]
  /\ UNCHANGED <<contribution, slotOf, handleOf, slotVars, handleVars, boxVars,
                 plans>>

\* NotExistentPlanError: the handle, not in the table, fails and is returned.
ValidateUnknownPlan(s) ==
  /\ pc[s] = "validate"
  /\ VersionOf[keyOf(s)] \notin plans
  /\ release_lock_slot(s, handles, resolve(future, handleOf[s], "exception"))
  /\ pc' = [pc EXCEPT ![s] = "future"]
  /\ UNCHANGED <<contribution, slotOf, handleOf, boxVars, plans>>

\* InvalidContributionError: "Contribution is invalid".
ValidateInvalid(s) ==
  /\ pc[s] = "validate"
  /\ VersionOf[keyOf(s)] \in plans
  /\ ~ validate(s, oldOf[s])
  /\ release_lock_slot(s, handles, future)
  /\ pc' = [pc EXCEPT ![s] = "raised"]
  /\ UNCHANGED <<contribution, slotOf, handleOf, boxVars, plans>>

\* The contribution is accepted; _handles.setdefault(key, handle).
ValidateAccepted(s) ==
  /\ pc[s] = "validate"
  /\ VersionOf[keyOf(s)] \in plans
  /\ validate(s, oldOf[s])
  /\ handles' = setdefault(handles, keyOf(s), handleOf[s])
  /\ pc' = [pc EXCEPT ![s] = "is_ready"]
  /\ UNCHANGED <<contribution, slotOf, handleOf, oldOf, slotVars, future, boxVars,
                 plans>>

IsReady(s) ==
  /\ pc[s] = "is_ready"
  /\ pc' = [pc EXCEPT ![s] = IF is_ready(s) THEN "deposit" ELSE "put"]
  /\ UNCHANGED <<contribution, slotOf, handleOf, oldOf, slotVars, handleVars,
                 boxVars, plans>>

\* Mutant of is_new: the outbox accepts every key.
is_new_always(k) == TRUE

is_new(k) == deposited[k] = {}

\* gather and outbox.deposit of a key never deposited before.
Deposit(s) ==
  /\ pc[s] = "deposit"
  /\ is_new(keyOf(s))
  /\ deposited' = [deposited EXCEPT ![keyOf(s)] = oldOf[s] \cup {s}]
  /\ queue' = Append(queue, keyOf(s))
  /\ pc' = [pc EXCEPT ![s] = "discard"]
  /\ UNCHANGED <<contribution, slotOf, handleOf, oldOf, slotVars, handleVars,
                 store, plans>>

\* InvalidOutboxDepositError: "Invocation already submitted".
DepositDuplicate(s) ==
  /\ pc[s] = "deposit"
  /\ ~ is_new(keyOf(s))
  /\ release_lock_slot(s, handles, future)
  /\ pc' = [pc EXCEPT ![s] = "raised"]
  /\ UNCHANGED <<contribution, slotOf, handleOf, boxVars, plans>>

\* The store forgets the key and the handle resolves.
Discard(s) ==
  /\ pc[s] = "discard"
  /\ store' = [store EXCEPT ![keyOf(s)] = {}]
  /\ release_lock_slot(s, handles, resolve(future, handleOf[s], "result"))
  /\ pc' = [pc EXCEPT ![s] = "future"]
  /\ UNCHANGED <<contribution, slotOf, handleOf, deposited, queue, plans>>

Put(s) ==
  /\ pc[s] = "put"
  /\ store' = [store EXCEPT ![keyOf(s)] = @ \cup {s}]
  /\ release_lock_slot(s, handles, future)
  /\ pc' = [pc EXCEPT ![s] = "future"]
  /\ UNCHANGED <<contribution, slotOf, handleOf, deposited, queue, plans>>

\* The receive coordinator awaits the shielded future of the handle.
Answer(s) ==
  /\ pc[s] = "future"
  /\ done(future, handleOf[s])
  /\ pc' = [pc EXCEPT ![s] =
              IF future[handleOf[s]] = "result" THEN "acked" ELSE "raised"]
  /\ UNCHANGED <<contribution, slotOf, handleOf, oldOf, slotVars, handleVars,
                 boxVars, plans>>

\* A coordination loop takes the oldest collection.
ExtractNext ==
  /\ queue # <<>>
  /\ queue' = Tail(queue)
  /\ UNCHANGED <<pc, contribution, slotOf, handleOf, oldOf, slotVars, handleVars,
                 store, deposited, plans>>

\* A deployment stores the plan of another version.
PutPlan(v) ==
  /\ v \notin plans
  /\ plans' = plans \cup {v}
  /\ UNCHANGED <<pc, contribution, slotOf, handleOf, oldOf, slotVars, handleVars,
                 boxVars>>

Step(s) ==
  \/ EnterReturningDone(s) \/ EnterSection(s) \/ GetAll(s)
  \/ ValidateUnknownPlan(s) \/ ValidateInvalid(s) \/ ValidateAccepted(s)
  \/ IsReady(s) \/ Deposit(s) \/ DepositDuplicate(s) \/ Discard(s) \/ Put(s)
  \/ Answer(s)

Next ==
  \/ \E s \in Submissions : Submit(s) \/ Step(s)
  \/ ExtractNext
  \/ \E v \in Versions : PutPlan(v)

Spec == Init /\ [][Next]_vars

\* The event loop runs every coroutine that can run.  Senders, the
\* deployment and the coordination loops owe nothing.
FairSpec == Spec /\ \A s \in Submissions : WF_vars(Step(s))

-----------------------------------------------------------------------------
(* Properties.                                                             *)

\* Every variable keeps its shape.
TypeOK ==
  /\ pc \in [Submissions -> Locals]
  /\ contribution \in [Submissions -> Contributions]
  /\ slotOf \in [Submissions -> Submissions \cup {None}]
  /\ handleOf \in [Submissions -> Submissions \cup {None}]
  /\ oldOf \in [Submissions -> SUBSET Submissions]
  /\ lockSlots \in [Keys -> Submissions \cup {None}]
  /\ users \in [Submissions -> Nat]
  /\ lock \in [Submissions -> Seq(Submissions)]
  /\ handles \in [Keys -> Submissions \cup {None}]
  /\ future \in [Submissions -> {"none", "pending", "result", "exception"}]
  /\ store \in [Keys -> SUBSET Submissions]
  /\ deposited \in [Keys -> SUBSET Submissions]
  /\ queue \in Seq(Keys)
  /\ plans \in SUBSET Versions

\* Two submissions for one key are never inside the critical section
\* together, although slots, and the locks in them, come and go: the slot of
\* a key is only dropped when nobody holds or waits for its lock.
MutualExclusion ==
  \A s, t \in Submissions :
    /\ pc[s] \in InSection
    /\ pc[t] \in InSection
    /\ keyOf(s) = keyOf(t)
    => s = t

\* The user count of a slot is the number of submissions that refer to it,
\* and the table keeps a key's slot exactly as long as one does: slots do not
\* leak, and a newcomer finds the slot the others wait on.
LockSlotAccounting ==
  /\ \A slot \in Submissions : users[slot] = Cardinality(UsersOf(slot))
  /\ \A s \in Submissions : Using(s) => lockSlots[keyOf(s)] = slotOf[s]
  /\ \A k \in Keys : lockSlots[k] # None =>
       \E s \in Submissions : Using(s) /\ keyOf(s) = k

\* The two together: the submissions of a key are serialised, by a lock that is
\* found as long as anybody needs it and not kept any longer.
KeysAreSerialised == MutualExclusion /\ LockSlotAccounting

\* What reaches the outbox is a whole hop input: the contributions deposited
\* for a key belong to it, bring every expected tensor of every expected
\* source, and bring none twice.
DepositedCollectionsAreExact ==
  \A k \in Keys : deposited[k] # {} =>
    /\ \A s \in deposited[k] : keyOf(s) = k
    /\ check_inputs_ready(k, deposited[k])
    /\ \A s, t \in deposited[k] :
         s # t => contribution[s].tensors \cap contribution[t].tensors = {}

\* Readiness is evaluated by the submission that completes the collection:
\* the store is never left holding a complete one that nobody will deposit.
NoCompleteCollectionLeftBehind ==
  \A k \in Keys :
    /\ store[k] # {}
    /\ \A s \in Submissions : ~ (pc[s] \in InSection /\ keyOf(s) = k)
    => ~ check_inputs_ready(k, store[k])

\* A source is told its contribution arrived only when the invocation of the
\* destination exists, and a source that is told it failed has left nothing
\* behind in a collection, kept or deposited.
AnswersAreTruthful ==
  \A s \in Submissions :
    /\ pc[s] = "acked" => deposited[keyOf(s)] # {}
    /\ pc[s] = "raised" => s \notin store[keyOf(s)] \cup deposited[keyOf(s)]

\* A source that waits on an unresolved handle waits on the one the table
\* holds for its key, which the completing submission will find and resolve.
NoOrphanWaiter ==
  \A s \in Submissions :
    /\ pc[s] = "future"
    /\ future[handleOf[s]] = "pending"
    => handles[keyOf(s)] = handleOf[s]

\* Contributions that are kept have a handle in the table that can still be
\* resolved.
KeptHaveHandle ==
  \A k \in Keys : store[k] # {} =>
    handles[k] # None /\ future[handles[k]] = "pending"

\* Once nobody refers to a key any more its resolved handle is gone.
ResolvedHandlesAreDropped ==
  \A k \in Keys : lockSlots[k] = None /\ handles[k] # None =>
    future[handles[k]] = "pending"

\* Before the deposit of a key no handle is left behind over an empty store.
HandlesHaveKept ==
  \A k \in Keys :
    lockSlots[k] = None /\ handles[k] # None /\ deposited[k] = {} => store[k] # {}

\* The table of handles is in step with the store: who waits, waits on the
\* handle of the table, and until a key is deposited it has a handle between two
\* submissions exactly while contributions are kept for it.  Afterwards it may
\* not: the deposit of a late duplicate of a hop with one source raises, and the
\* handle made for it stays, pending for ever, over an empty store.
HandlesAreInStep ==
  NoOrphanWaiter /\ KeptHaveHandle /\ ResolvedHandlesAreDropped /\ HandlesHaveKept

\* Every contribution of a deposited collection is acknowledged, including
\* those that were answered by nobody while the collection was incomplete.
DepositIsAcknowledged ==
  \A s \in Submissions : s \in deposited[keyOf(s)] ~> pc[s] = "acked"

\* The submissions that can still take part in the collection of k.
TakingPart(k) ==
  {s \in Submissions :
     /\ keyOf(s) = k
     /\ pc[s] \notin {"idle", "raised"}
     /\ ~ (pc[s] = "future" /\ future[handleOf[s]] = "exception")
     /\ validate(s, {})}

\* When all inputs of a routed key have been sent under a known plan, the
\* collection is deposited, whatever the order and the duplicates.
CompleteInputsAreDeposited ==
  \A k \in DOMAIN InputRouting :
    /\ VersionOf[k] \in plans
    /\ TakingPart(k) # {}
    /\ check_inputs_ready(k, TakingPart(k))
    ~> deposited[k] # {}

\* What is accepted for k and not deposited: nothing, from the deposit on.
Pending(k) ==
  IF \E s \in Submissions : pc[s] = "discard" /\ keyOf(s) = k
  THEN {} ELSE store[k]

\* What the source of s has been told.
Told(s) ==
  CASE pc[s] = "acked" -> "ack" [] pc[s] = "raised" -> "error" [] OTHER -> "none"

\* The pipeline implements the atomic promise of HopGathering: a submission
\* takes effect when the outbox, or failing that the store, accepts it.
Gathering == INSTANCE HopGathering WITH
  pending <- [k \in Keys |-> Pending(k)],
  answer <- [s \in Submissions |-> Told(s)]
ImplementsGathering == Gathering!HSpec

=============================================================================
