------------------------------ MODULE CudaRunner ------------------------------
(***************************************************************************)
(* The CUDA Llama runner (miniprefix/src/backend/cuda/llama_runner.cu) on  *)
(* top of the KV manager.  The kernels find the pages of a sequence in a   *)
(* copy of its block table in device memory, of which an append uploads    *)
(* only what it takes to be new.  A stream runs its operations in order    *)
(* and every call waits for it, so an operation happens when it is         *)
(* enqueued; any of them may fail, and the append is then rolled back.     *)
(***************************************************************************)
EXTENDS KVManager

VARIABLES
    device,     \* block_tables_: live id -> the entries of its device table written so far
    dirty,      \* the ids whose device table may be stale anywhere
    uploaded    \* the open append has brought its table up to date

deviceVars == <<device, dirty, uploaded>>
allVars == <<vars, deviceVars>>

\* The entries of a block table from the first-th on.
Entries(blocks, first) == [i \in first .. Len(blocks) |-> blocks[i]]

\* An upload overwrites its entries and leaves the others as they are.
Uploaded(id, entries) ==
    [device EXCEPT ![id] = [e \in DOMAIN entries \cup DOMAIN @ |->
                               IF e \in DOMAIN entries THEN entries[e] ELSE @[e]]]

------------------------------------------------------------------------------
\* Sequences

RunnerCreate(id) ==
    /\ Create(id)
    /\ device' = With(device, id, << >>)
    /\ UNCHANGED <<dirty, uploaded>>

\* The table of the target is uploaded by its next append.
RunnerFork(source, target) ==
    /\ ForkSequence(source, target)
    /\ dirty' = dirty \cup {target}
    /\ UNCHANGED <<device, uploaded>>

\* A prefix that was found is uploaded at once.
RunnerReuse(id, prompt) ==
    /\ ReusePrefix(id, prompt)
    /\ device' = Uploaded(id, Entries(sequences'[id].blocks, 1))
    /\ UNCHANGED <<dirty, uploaded>>

\* The upload fails, done or not: the sequence is reset, its table keeps what
\* it has.
RunnerReuseFails(id, prompt) ==
    LET nodes == Walk(prompt).nodes
    IN  /\ Idle
        /\ Empty(sequences[id])
        /\ nodes # <<>>
        /\ ~BreaksReservation(id, Len(nodes), Len(nodes))
        /\ lru' = Touched(nodes)
        /\ device' \in {device, Uploaded(id, [i \in DOMAIN nodes |-> lease[nodes[i]]])}
        /\ UNCHANGED <<pool, sequences, reservations, lease, appends, publishing, payload,
                       dirty, uploaded>>

RunnerRelease(id) ==
    /\ Release(id)
    /\ device' = Without(device, {id})
    /\ dirty' = dirty \ {id}
    /\ UNCHANGED uploaded

RunnerClear ==
    /\ Clear
    /\ device' = << >>
    /\ dirty' = {}
    /\ UNCHANGED uploaded

------------------------------------------------------------------------------
\* Appends

RunnerPrepare(id, input) ==
    /\ PrepareAppend(id, input)
    /\ UNCHANGED deviceVars

\* Mutant: the entry of a replaced tail is not uploaded again.
OnlyNewEntries(id) == IF id \in dirty THEN 1 ELSE appends[id].original + 1

\* The first entry the device may not have: the replaced tail, or a new page.
FirstStale(id) ==
    CASE id \in dirty                                -> 1
      [] id \notin dirty /\ appends[id].copy # <<>>  -> appends[id].original
      [] OTHER                                       -> appends[id].original + 1

UploadTable(id) ==
    /\ appends[id].copy = <<>> \/ appends[id].copied
    /\ ~uploaded
    /\ device' = Uploaded(id, Entries(sequences[id].blocks, FirstStale(id)))
    /\ uploaded' = TRUE
    /\ UNCHANGED <<vars, dirty>>

\* Where the kernels find position n of a sequence: nowhere, when the entry was
\* never written.
DevicePage(id, n) ==
    LET entry == (n - 1) \div BlockTokens + 1
    IN  {p \in Page : entry \in DOMAIN device[id] /\ device[id][entry] = p}

\* append_kernel and attention_kernel, for the next input token: KVManager's
\* WriteToken by way of the device table.
RunKernels(id) ==
    LET t    == appends[id]
        n    == Used(id) + t.written
        past == sequences[id].tokens \o Prefix(t.input, t.written)
        reads == \A i \in 1 .. n : \E p \in DevicePage(id, i) : payload[p][SlotOf(i)] = Prefix(past, i)
        now  == IF reads THEN Append(past, t.input[t.written + 1]) ELSE Junk
    IN  /\ uploaded
        /\ t.written < Len(t.input)
        /\ payload' = [p \in Page |-> IF p \in DevicePage(id, n + 1)
                                      THEN [payload[p] EXCEPT ![SlotOf(n + 1)] = now] ELSE payload[p]]
        /\ appends' = [appends EXCEPT ![id].written = @ + 1]
        /\ UNCHANGED <<pool, sequences, reservations, lease, lru, publishing, deviceVars>>

RunnerCommit(id) ==
    /\ uploaded
    /\ Commit(id)
    /\ dirty' = dirty \ {id}
    /\ uploaded' = FALSE
    /\ UNCHANGED device

\* Mutant: a failed append leaves its table alone.
StillClean(id) == dirty

\* The table of a failed append may hold pages that were taken back.
DirtyAfterFailure(id) == dirty \cup {id}

\* An operation fails, or the logits are not finite: after the stream is done,
\* the table is given up and the transaction rolled back.
RunnerRollback(id) ==
    /\ Rollback(id)
    /\ dirty' = DirtyAfterFailure(id)
    /\ uploaded' = FALSE
    /\ UNCHANGED device

------------------------------------------------------------------------------

RunnerInit ==
    /\ Init
    /\ device = << >>
    /\ dirty = {}
    /\ uploaded = FALSE

\* Calls the runner hands on to the manager.
Manage ==
    /\ \/ \E id \in Id, n \in ReserveTokens : ReserveRequest(id, n)
       \/ \E id \in Id : ReleaseReservation(id)
       \/ \E id \in DOMAIN sequences : CachePrefix(id)
       \/ \E id \in DOMAIN publishing : PublishKnown(id) \/ PublishNew(id) \/ PublishFails(id)
       \/ ClearPrefixCache
       \/ \E id \in DOMAIN sequences, n \in 1 .. MaxInput :
             n <= Context - Used(id) /\ PrepareExhausted(id, n)
       \/ \E id \in DOMAIN appends : CopySharedTail(id)
    /\ UNCHANGED deviceVars

RunnerNext ==
    \/ Manage
    \/ \E id \in Id : RunnerCreate(id)
    \/ \E source, target \in DOMAIN sequences : RunnerFork(source, target)
    \/ \E id \in DOMAIN sequences, prompt \in Prompts :
          RunnerReuse(id, prompt) \/ RunnerReuseFails(id, prompt)
    \/ \E id \in DOMAIN sequences : RunnerRelease(id)
    \/ RunnerClear
    \/ \E id \in DOMAIN sequences :
          \E input \in Inputs(id) : ValidAppend(id, input) /\ RunnerPrepare(id, input)
    \/ \E id \in DOMAIN appends :
          UploadTable(id) \/ RunKernels(id) \/ RunnerCommit(id) \/ RunnerRollback(id)

RunnerSpec == RunnerInit /\ [][RunnerNext]_allVars

------------------------------------------------------------------------------
\* Properties

\* The kernels never follow a stale entry: a table that is not marked dirty has
\* the pages of its sequence, and an append that is about to run its kernels
\* has brought all of it up to date, whatever failed, was forked, shared,
\* copied or evicted before.  (llama_runner.cu:139)
DeviceTablesCurrent ==
    /\ DOMAIN device = DOMAIN sequences
    /\ \A id \in DOMAIN sequences :
          \/ id \in DOMAIN appends /\ ~uploaded
          \/ id \in dirty \ DOMAIN appends
          \/ LET blocks == sequences[id].blocks
             IN  /\ DOMAIN blocks \subseteq DOMAIN device[id]
                 /\ \A i \in DOMAIN blocks : device[id][i] = blocks[i]
==============================================================================
