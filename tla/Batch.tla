------------------------------- MODULE Batch -------------------------------
(***************************************************************************)
(* DB.Batch of db.go: concurrent calls are collected into a batch that a   *)
(* timer, or the call that fills it, triggers; run executes the calls in   *)
(* one Update, and a call whose function fails is taken out and told to    *)
(* run alone.                                                              *)
(*                                                                         *)
(* What Batch does under batchMu is one action, and so is an Update: the   *)
(* writer lock is held from its Begin to its end.  A function may succeed  *)
(* in one execution and fail in the next.                                  *)
(***************************************************************************)
EXTENDS Integers, Sequences, FiniteSets

CONSTANTS
    Calls,          \* the calls of Batch, each by a goroutine of its own
    BatchSizes,     \* what db.MaxBatchSize may be set to
    None            \* no batch: nil

(* A batch is named by the order of its creation.                          *)
Batches == 1 .. Cardinality(Calls)

ASSUME BatchAssumption ==
    /\ IsFiniteSet(Calls)
    /\ BatchSizes \subseteq Int
    /\ None \notin Batches

VARIABLES
    MaxBatchSize, \* db.MaxBatchSize, not changed while Batch is called
    current,    \* db.batch
    created,    \* how many batches were created
    calls,      \* b.calls
    triggers,   \* who is going to call b.trigger: "timer", "full"
    once,       \* b.start has been used
    running,    \* how many goroutines are in the loop of b.run
    result,     \* what run is passing to the callers, "none" before
    answered,   \* how many callers run has passed it to
    caller,     \* what each call of Batch does
    errCh,      \* the channel of each call, as a sequence
    applied     \* how often the call's function ran in a committed Update

batchvars == <<MaxBatchSize, current, created, calls, triggers, once, running,
               result, answered>>
vars == <<batchvars, caller, errCh, applied>>

Init ==
    /\ MaxBatchSize \in BatchSizes
    /\ current = None
    /\ created = 0
    /\ calls = [b \in Batches |-> <<>>]
    /\ triggers = [b \in Batches |-> {}]
    /\ once = [b \in Batches |-> FALSE]
    /\ running = [b \in Batches |-> 0]
    /\ result = [b \in Batches |-> "none"]
    /\ answered = [b \in Batches |-> 0]
    /\ caller = [c \in Calls |-> "idle"]
    /\ errCh = [c \in Calls |-> <<>>]
    /\ applied = [c \in Calls |-> 0]

-----------------------------------------------------------------------------
(* What an Update that reaches Commit may return.  "unsynced" is the error *)
(* of the fdatasync that follows the write of the meta page: readers see   *)
(* the transaction, and its caller an error.  "error" is any other error,  *)
(* of Begin included.                                                      *)
Answers == {"nil", "error", "unsynced"}

(* How often the functions of the Update have then taken effect.           *)
Effect(err) == IF err \in {"nil", "unsynced"} THEN 1 ELSE 0

(* Mutant of Full: a MaxBatchSize of 0 is taken for no limit.              *)
FullIfLimited(b) == MaxBatchSize > 0 /\ Len(calls[b]) >= MaxBatchSize

Full(b) == Len(calls[b]) >= MaxBatchSize

(* DB.Batch up to the receive from errCh: join the batch, or a new one     *)
(* with its timer armed if there is none or it is full; the call that      *)
(* fills a batch triggers it.                                              *)
CallBatch(c) ==
    LET new == current = None \/ Full(current)
        b == IF new THEN created + 1 ELSE current
        more == Append(calls[b], c)
    IN
    /\ caller[c] = "idle"
    /\ caller' = [caller EXCEPT ![c] = "waiting"]
    /\ current' = b
    /\ created' = IF new THEN created + 1 ELSE created
    /\ calls' = [calls EXCEPT ![b] = more]
    /\ triggers' = [triggers EXCEPT ![b] =
                       @ \cup (IF new THEN {"timer"} ELSE {})
                         \cup (IF Len(more) >= MaxBatchSize THEN {"full"} ELSE {})]
    /\ UNCHANGED <<MaxBatchSize, once, running, result, answered, errCh,
                   applied>>

(* Mutant of Trigger: sync.Once is left out.                               *)
TriggerTwice(b, t) ==
    /\ t \in triggers[b]
    /\ running' = [running EXCEPT ![b] = @ + 1]
    /\ triggers' = [triggers EXCEPT ![b] = @ \ {t}]
    /\ current' = IF current = b THEN None ELSE current
    /\ UNCHANGED <<MaxBatchSize, created, calls, once, result, answered,
                   caller, errCh, applied>>

(* Mutant of Trigger: db.batch keeps pointing to the running batch.        *)
TriggerAttached(b, t) ==
    /\ t \in triggers[b]
    /\ IF once[b]
         THEN triggers' = [triggers EXCEPT ![b] = @ \ {t}]
              /\ UNCHANGED <<once, running>>
         ELSE /\ triggers' = [triggers EXCEPT ![b] = @ \ {t, "timer"}]
              /\ once' = [once EXCEPT ![b] = TRUE]
              /\ running' = [running EXCEPT ![b] = @ + 1]
    /\ UNCHANGED <<MaxBatchSize, current, created, calls, result, answered,
                   caller, errCh, applied>>

(* batch.trigger and the start of batch.run: the first trigger stops the   *)
(* timer and detaches the batch from the database, later ones do nothing.  *)
Trigger(b, t) ==
    /\ t \in triggers[b]
    /\ IF once[b]
         THEN triggers' = [triggers EXCEPT ![b] = @ \ {t}]
              /\ UNCHANGED <<once, running, current>>
         ELSE /\ triggers' = [triggers EXCEPT ![b] = @ \ {t, "timer"}]
              /\ once' = [once EXCEPT ![b] = TRUE]
              /\ running' = [running EXCEPT ![b] = @ + 1]
              /\ current' = IF current = b THEN None ELSE current
    /\ UNCHANGED <<MaxBatchSize, created, calls, result, answered, caller,
                   errCh, applied>>

-----------------------------------------------------------------------------
(* batch.run.                                                              *)

Send(c, err) == errCh' = [errCh EXCEPT ![c] = Append(@, err)]

(* Mutant of Without: the last call is dropped instead of the failing one. *)
WithoutLast(cs, i) == SubSeq(cs, 1, Len(cs) - 1)

(* The failing call is replaced by the last, and the slice shortened.      *)
Without(cs, i) == SubSeq([cs EXCEPT ![i] = cs[Len(cs)]], 1, Len(cs) - 1)

(* An Update in which call i is the first whose function fails or panics;  *)
(* run returns when no call is left.                                       *)
AttemptFails(b, i) ==
    /\ running[b] > 0 /\ result[b] = "none"
    /\ calls' = [calls EXCEPT ![b] = Without(@, i)]
    /\ running' = [running EXCEPT ![b] = IF calls'[b] = <<>> THEN @ - 1 ELSE @]
    /\ Send(calls[b][i], "trySolo")
    /\ UNCHANGED <<MaxBatchSize, current, created, triggers, once, result,
                   answered, caller, applied>>

(* An Update in which every function succeeds; err is what its Begin and   *)
(* Commit return.                                                          *)
AttemptCommits(b, err) ==
    /\ running[b] > 0 /\ result[b] = "none"
    /\ calls[b] # <<>>
    /\ result' = [result EXCEPT ![b] = err]
    /\ applied' = [c \in Calls |-> applied[c] + Effect(err) *
                     Cardinality({i \in 1 .. Len(calls[b]) : calls[b][i] = c})]
    /\ UNCHANGED <<MaxBatchSize, current, created, calls, triggers, once,
                   running, answered, caller, errCh>>

(* "Pass success, or bolt internal errors, to all callers"; run returns    *)
(* when the last one has got it.                                           *)
PassResult(b) ==
    /\ result[b] # "none"
    /\ LET i == answered[b] + 1
           last == i = Len(calls[b])
       IN
         /\ Send(calls[b][i], result[b])
         /\ answered' = [answered EXCEPT ![b] = IF last THEN 0 ELSE i]
         /\ result' = [result EXCEPT ![b] = IF last THEN "none" ELSE @]
         /\ running' = [running EXCEPT ![b] = IF last THEN @ - 1 ELSE @]
    /\ UNCHANGED <<MaxBatchSize, current, created, calls, triggers, once,
                   caller, applied>>

-----------------------------------------------------------------------------
(* The end of DB.Batch.                                                    *)

Receive(c) ==
    /\ caller[c] = "waiting"
    /\ errCh[c] # <<>>
    /\ errCh' = [errCh EXCEPT ![c] = Tail(@)]
    /\ caller' = [caller EXCEPT ![c] =
                     IF Head(errCh[c]) = "trySolo" THEN "solo" ELSE Head(errCh[c])]
    /\ UNCHANGED <<batchvars, applied>>

(* db.Update(fn): the error of the function, of Begin or of Commit is      *)
(* returned; a panic that goes through to the caller counts as an error.   *)
RunSolo(c, err) ==
    /\ caller[c] = "solo"
    /\ caller' = [caller EXCEPT ![c] = err]
    /\ applied' = [applied EXCEPT ![c] = @ + Effect(err)]
    /\ UNCHANGED <<batchvars, errCh>>

-----------------------------------------------------------------------------
Run(b) ==
    \/ \E i \in 1 .. Len(calls[b]) : AttemptFails(b, i)
    \/ \E err \in Answers : AttemptCommits(b, err)
    \/ PassResult(b)

Return(c) == Receive(c) \/ \E err \in Answers : RunSolo(c, err)

Next ==
    \/ \E c \in Calls : CallBatch(c) \/ Return(c)
    \/ \E b \in Batches :
         Run(b) \/ \E t \in {"timer", "full"} : Trigger(b, t)

Spec == Init /\ [][Next]_vars

(* Timers fire, goroutines are scheduled, and an Update returns.           *)
Fairness ==
    /\ \A b \in Batches : WF_vars(Run(b))
    /\ \A b \in Batches, t \in {"timer", "full"} : WF_vars(Trigger(b, t))
    /\ \A c \in Calls : WF_vars(Return(c))

FairSpec == Spec /\ Fairness

-----------------------------------------------------------------------------
(* Properties.                                                             *)

(* A call that returned nil has taken effect exactly once, however often   *)
(* its function was executed in attempts that other calls spoilt; one that *)
(* failed has taken none, except that of a commit whose meta page was      *)
(* written and not synced, and that is told to every call of the batch and *)
(* never retried alone (batch.run, DB.Batch).                              *)
EffectMatchesAnswer ==
    \A c \in Calls :
        /\ caller[c] \in {"nil", "unsynced"} => applied[c] = 1
        /\ caller[c] \in {"error", "solo", "idle"} => applied[c] = 0

(* Sending to errCh, of capacity 1, never blocks run, and nothing is sent  *)
(* to a caller that has left.                                              *)
OneMessagePerCall ==
    \A c \in Calls :
        /\ Len(errCh[c]) <= 1
        /\ caller[c] # "waiting" => errCh[c] = <<>>

(* No batch is larger than MaxBatchSize, though calls arrive between the   *)
(* one that fills it and its run; MaxBatchSize <= 0 disables batching.     *)
BatchSizeBounded ==
    \A b \in Batches :
        Len(calls[b]) <= IF MaxBatchSize > 0 THEN MaxBatchSize ELSE 1

(* Every call of Batch returns.                                            *)
EveryCallReturns == \A c \in Calls : caller[c] = "waiting" ~> caller[c] \in Answers
=============================================================================
