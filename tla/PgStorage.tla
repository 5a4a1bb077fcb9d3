----------------------------- MODULE PgStorage -----------------------------
(***************************************************************************)
(* PgStorage: calls repeat a transaction or a single upsert, the server    *)
(* runs each attempt in a session of its own.  A session outlives the      *)
(* client's interest in it: a request to commit, once sent, may be carried *)
(* out when nobody waits for the answer any more.                          *)
(*                                                                         *)
(* An upsert locks its row until the session ends.  The rows it locked do  *)
(* not change meanwhile, so what a transaction wrote is described by how   *)
(* many rows it has done.                                                  *)
(***************************************************************************)
EXTENDS BatchAggregation, FiniteSets

CONSTANTS
    Requests,       \* calls of the storage
    Singles,        \* UpdateGauge and UpdateCounter; the others are UpdateBatch
    Workloads,      \* what the calls may be made with: a batch for each of them
    MaxRetries,     \* length of retry.DefaultIntervals
    Faults          \* what may fail

ConnectionLost == "connection lost"

ASSUME StorageAssumption ==
    /\ IsFiniteSet(Requests) /\ Singles \subseteq Requests
    /\ \A w \in Workloads :
          /\ DOMAIN w = Requests /\ \A r \in Requests : IsBatch(w[r])
          /\ \A r \in Singles : Len(w[r]) = 1
    /\ MaxRetries \in Nat
    /\ Faults \subseteq {ConnectionLost}

VARIABLES
    batch,      \* the metrics of each call, as the client sent them
    rows,       \* the table: type and name -> delta or value
    applied,    \* history: how often the server committed each call
    call,       \* how far each call has come
    session     \* the server's end of each attempt of a call

storeVars == <<batch, rows, applied>>
vars == <<storeVars, call, session>>

Sessions == Requests \X (0..MaxRetries)
Current(r) == <<r, call[r].attempt>>

Store == INSTANCE MetricStore

Init ==
    /\ Store!Init
    /\ call = [r \in Requests |-> [phase |-> "new", attempt |-> 0, rows |-> <<>>]]
    /\ session = [s \in Sessions |-> [phase |-> "none", done |-> 0]]

\* The rows the session writes, in this order.
Rows(s) == call[s[1]].rows
AllDone(s) == session[s].done = Len(Rows(s))
NextKey(s) == Key(Rows(s)[session[s].done + 1])

Locked(s) ==
    IF session[s].phase \in {"open", "committing"}
      THEN {Key(Rows(s)[i]) : i \in 1..session[s].done} ELSE {}

\* The upsert of s has to wait for t.
Waits(s, t) ==
    /\ session[s].phase \in {"open", "committing"} /\ ~AllDone(s)
    /\ s # t /\ NextKey(s) \in Locked(t)

Free(s) == ~AllDone(s) /\ \A t \in Sessions : ~Waits(s, t)

-----------------------------------------------------------------------------
(* The calls. *)

\* An empty batch is a no-op, a malformed one is refused in full.
Call(r) ==
    /\ call[r].phase = "new"
    /\ call' = [call EXCEPT ![r] =
           IF batch[r] = <<>> THEN [@ EXCEPT !.phase = "ok"]
           ELSE IF ~AllValid(batch[r]) THEN [@ EXCEPT !.phase = "refused"]
           ELSE [phase |-> "starting", attempt |-> 0, rows |-> AggregateBatch(batch[r])]]
    /\ UNCHANGED <<storeVars, session>>

\* A batch opens a transaction; a single upsert is committed by itself.
Begin(r) ==
    /\ call[r].phase = "starting"
    /\ LET phase == IF r \in Singles THEN "committing" ELSE "open"
       IN  /\ call' = [call EXCEPT ![r].phase = phase]
           /\ session' = [session EXCEPT ![Current(r)].phase = phase]
    /\ UNCHANGED storeVars

\* Variant: the upserts are not part of a transaction.
ExecAndCommit(r) ==
    /\ call[r].phase = "open" /\ session[Current(r)].phase = "open"
    /\ Free(Current(r))
    /\ session' = [session EXCEPT ![Current(r)].done = @ + 1]
    /\ rows' = Upsert(rows, Rows(Current(r))[session[Current(r)].done + 1])
    /\ UNCHANGED <<batch, applied, call>>

ExecContext(r) ==
    /\ call[r].phase = "open" /\ session[Current(r)].phase = "open"
    /\ Free(Current(r))
    /\ session' = [session EXCEPT ![Current(r)].done = @ + 1]
    /\ UNCHANGED <<storeVars, call>>

Commit(r) ==
    /\ call[r].phase = "open" /\ session[Current(r)].phase = "open"
    /\ AllDone(Current(r))
    /\ call' = [call EXCEPT ![r].phase = "committing"]
    /\ session' = [session EXCEPT ![Current(r)].phase = "committing"]
    /\ UNCHANGED storeVars

Succeeds(r) ==
    /\ call[r].phase = "committing" /\ session[Current(r)].phase = "committed"
    /\ call' = [call EXCEPT ![r].phase = "ok"]
    /\ UNCHANGED <<storeVars, session>>

\* Variant: one repetition too many.
OneTooMany(r) ==
    /\ call[r].attempt <= MaxRetries
    /\ call[r].phase = "committing" => r \in Singles

\* Variant: a commit that failed is repeated like anything else.
AnyFailure(r) == call[r].attempt < MaxRetries

\* A commit of a batch that failed is final: it may have been carried out.
IsRetriable(r) ==
    /\ call[r].attempt < MaxRetries
    /\ call[r].phase = "committing" => r \in Singles

\* Variant: the error of Commit is not returned.
CommitErrorIgnored(r, passing, rolledBack) ==
    /\ call[r].phase \in {"starting", "open", "committing"}
    /\ ConnectionLost \in Faults \/ session[Current(r)].phase = "aborted"
    /\ call' = [call EXCEPT ![r].phase = IF @ = "committing" THEN "ok" ELSE "failed"]
    /\ UNCHANGED <<storeVars, session>>

\* The connection breaks or is refused, the context ends, or the server has
\* ended the session.  The deferred rollback may or may not reach the server.
AttemptFails(r, passing, rolledBack) ==
    /\ call[r].phase \in {"starting", "open", "committing"}
    /\ ConnectionLost \in Faults \/ session[Current(r)].phase = "aborted"
    /\ call' = [call EXCEPT ![r].phase = IF passing /\ IsRetriable(r) THEN "pausing" ELSE "failed"]
    /\ IF rolledBack /\ session[Current(r)].phase = "open"
         THEN session' = [session EXCEPT ![Current(r)] = [phase |-> "aborted", done |-> 0]]
         ELSE UNCHANGED session
    /\ UNCHANGED storeVars

PauseOver(r) ==
    /\ call[r].phase = "pausing"
    /\ call' = [call EXCEPT ![r].phase = "starting", ![r].attempt = @ + 1]
    /\ UNCHANGED <<storeVars, session>>

PauseCancelled(r) ==
    /\ call[r].phase = "pausing"
    /\ call' = [call EXCEPT ![r].phase = "failed"]
    /\ UNCHANGED <<storeVars, session>>

-----------------------------------------------------------------------------
(* The server. *)

\* The upserts of the session become visible, all at once.
CommitLands(s) ==
    /\ session[s].phase = "committing"
    /\ AllDone(s) \/ Free(s)
    /\ rows' = FoldLeft(Upsert, rows, Rows(s))
    /\ applied' = [applied EXCEPT ![s[1]] = @ + 1]
    /\ session' = [session EXCEPT ![s] = [phase |-> "committed", done |-> 0]]
    /\ UNCHANGED <<batch, call>>

\* Nobody sends anything to this transaction any more.
Orphan(s) == session[s].phase = "open" /\ (Current(s[1]) # s \/ call[s[1]].phase # "open")

\* The server rolls the session back: it notices that the client is gone, is
\* restarted, or refuses to commit.
SessionEnds(s) ==
    /\ session[s].phase \in {"open", "committing"}
    /\ ConnectionLost \in Faults
    /\ session' = [session EXCEPT ![s] = [phase |-> "aborted", done |-> 0]]
    /\ UNCHANGED <<storeVars, call>>

-----------------------------------------------------------------------------
Fails(r) == \E passing, rolledBack \in BOOLEAN : AttemptFails(r, passing, rolledBack)

CallStep(r) ==
    \/ Call(r)
    \/ Begin(r) \/ ExecContext(r) \/ Commit(r) \/ Succeeds(r)
    \/ PauseOver(r) \/ PauseCancelled(r)

Next ==
    \/ \E r \in Requests : CallStep(r) \/ Fails(r)
    \/ \E s \in Sessions : CommitLands(s) \/ SessionEnds(s)

\* A call goes on as long as it can; the server carries out what it was asked
\* to and notices when a client is gone.  Nothing is assumed about failures.
Fairness ==
    /\ \A r \in Requests : WF_vars(CallStep(r) \/ (session[Current(r)].phase = "aborted" /\ Fails(r)))
    /\ \A s \in Sessions :
          /\ WF_vars(CommitLands(s))
          /\ WF_vars(Orphan(s) /\ SessionEnds(s))

Spec == Init /\ [][Next]_vars

FairSpec == Spec /\ Fairness

-----------------------------------------------------------------------------
(* Properties. *)

\* The values and deltas that clients send.
Amounts ==
    {m.amount : m \in UNION {ToSet(w[r]) : w \in Workloads, r \in Requests}} \ {Missing}

TypeOK ==
    /\ batch \in Workloads
    /\ \A k \in DOMAIN rows :
          /\ k[1] \in {"counter", "gauge"}
          /\ rows[k] \in IF k[1] = "counter" THEN Int ELSE Amounts
    /\ applied \in [Requests -> 0..MaxRetries + 1]
    /\ \A r \in Requests :
          /\ call[r].phase \in {"new", "starting", "open", "committing", "pausing",
                               "ok", "failed", "refused"}
          /\ call[r].attempt \in 0..MaxRetries
    /\ \A s \in Sessions :
          /\ session[s].phase \in {"none", "open", "committing", "committed", "aborted"}
          /\ session[s].done \in 0..Len(Rows(s))

\* Whatever fails, and however late the server carries out a commit: batches
\* are applied in full, once at most, as if their metrics had been stored one by
\* one; a malformed batch changes nothing.
StoreImplemented == Store!Spec

\* The fixed order of the rows keeps sessions from waiting for each other in a
\* circle, those left over from earlier attempts included: in every set of
\* sessions one waits for none of the others.
NoLockCycle ==
    LET Waiting == {s \in Sessions : \E t \in Sessions : Waits(s, t)}
    IN  \A S \in (SUBSET Waiting) \ {{}} : \E s \in S : \A t \in S : ~Waits(s, t)

\* A transaction is repeated only when no earlier attempt can still take effect
\* (UpdateBatch: one that failed before the commit left nothing behind).
ReplayFindsNothing ==
    \A r \in Requests \ Singles : call[r].phase \in {"starting", "open", "pausing"} =>
        /\ applied[r] = 0
        /\ \A s \in Sessions : s[1] = r => session[s].phase \notin {"committing", "committed"}

\* The caller is told the truth: what was answered with success is in the
\* database, and what was refused is not.
AnswersAreTrue ==
    \A r \in Requests :
        /\ call[r].phase = "ok" /\ batch[r] # <<>> => applied[r] >= 1
        /\ call[r].phase = "refused" => applied[r] = 0

\* Every call returns, although transactions wait for each other's rows and a
\* transaction nobody waits for may hold some: the server need not break up
\* any deadlock.
EveryCallReturns ==
    \A r \in Requests : <>[](call[r].phase \in {"ok", "failed", "refused"})

\* No metric is applied twice (PgStorage: "repeating one cannot apply a metric
\* twice").
AppliedOnce == \A r \in Requests : applied[r] <= 1
=============================================================================
