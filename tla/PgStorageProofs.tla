-------------------------- MODULE PgStorageProofs --------------------------
(***************************************************************************)
(* Theorems about PgStorage, for any workload, any schedule of repetitions *)
(* and any failure: a batch is repeated only when nothing of it is left,   *)
(* it is applied once at most, the answers are true, no sessions wait for  *)
(* each other in a circle, and the table changes as MetricStore says.      *)
(***************************************************************************)
EXTENDS PgStorage, BatchProofs, TLAPS

-----------------------------------------------------------------------------
(* Typing, as far as the control needs it. *)

RowLists == {<<>>} \cup {AggregateBatch(w[r]) : w \in Workloads, r \in Requests}

CallPhases == {"new", "starting", "open", "committing", "pausing", "ok", "failed", "refused"}
CallState == [phase : CallPhases, attempt : 0..MaxRetries, rows : RowLists]

SessionPhases == {"none", "open", "committing", "committed", "aborted"}
SessionState == [phase : SessionPhases, done : Nat]

Typed ==
    /\ batch \in Workloads
    /\ applied \in [Requests -> Nat]
    /\ call \in [Requests -> CallState]
    /\ session \in [Sessions -> SessionState]
    /\ \A r \in Requests : call[r].phase = "pausing" => call[r].attempt < MaxRetries

LEMMA CurrentSession ==
    ASSUME Typed, NEW r \in Requests
    PROVE  /\ Current(r) = <<r, call[r].attempt>> /\ Current(r) \in Sessions
           /\ call[r].attempt \in 0..MaxRetries
           /\ call[r] \in CallState /\ session[Current(r)] \in SessionState
<1>1. call[r] \in CallState
  BY DEF Typed
<1>2. call[r].attempt \in 0..MaxRetries
  BY <1>1 DEF CallState
<1>3. Current(r) \in Sessions
  BY <1>2 DEF Current, Sessions
<1> QED
  BY <1>1, <1>2, <1>3 DEF Typed, Current

-----------------------------------------------------------------------------
(* How a call stands: what its sessions may still do, and what they did. *)

Committing(r) == \E n \in 0..MaxRetries : session[<<r, n>>].phase \in {"committing", "committed"}

OnceFor(r) ==
    /\ call[r].phase \in {"new", "refused"} =>
          applied[r] = 0 /\ \A n \in 0..MaxRetries : session[<<r, n>>].phase = "none"
    /\ r \notin Singles =>
          /\ call[r].phase \in {"starting", "open", "pausing"} => ~Committing(r)
          /\ applied[r] = IF session[Current(r)].phase = "committed" THEN 1 ELSE 0
          /\ \A n \in 0..MaxRetries : n # call[r].attempt =>
                session[<<r, n>>].phase \notin {"committing", "committed"}
    /\ \A n \in 0..MaxRetries : session[<<r, n>>].phase = "committed" => applied[r] >= 1
    /\ call[r].phase = "ok" /\ batch[r] # <<>> => applied[r] >= 1

IInv == Typed /\ \A r \in Requests : OnceFor(r)

LEMMA OnceKept ==
    ASSUME NEW r \in Requests, OnceFor(r), UNCHANGED batch,
           call'[r] = call[r], applied'[r] = applied[r],
           \A n \in 0..MaxRetries : session'[<<r, n>>].phase = session[<<r, n>>].phase,
           call[r].attempt \in 0..MaxRetries
    PROVE  OnceFor(r)'
BY DEF OnceFor, Committing, Current

-----------------------------------------------------------------------------
(* The steps of a call. *)

Moved(r, c, s) ==
    /\ call' = [call EXCEPT ![r] = c]
    /\ session' = [session EXCEPT ![Current(r)] = s]
    /\ UNCHANGED storeVars

\* What a call never does: commit, come back to a commit, or succeed without one.
Careful(r, c, s) ==
    /\ c \in CallState /\ s \in SessionState
    /\ c.phase = "pausing" => c.attempt < MaxRetries
    /\ c.phase # "new"
    /\ c.phase = "refused" => call[r].phase = "new" /\ s = session[Current(r)]
    /\ s.phase = "committed" => session[Current(r)].phase = "committed"
    /\ r \notin Singles /\ session[Current(r)].phase = "committed" => s.phase = "committed"
    /\ r \notin Singles /\ c.phase \in {"starting", "open", "pausing"} =>
          /\ call[r].phase \in {"new", "starting", "open", "pausing"}
          /\ s.phase # "committing"
    /\ c.phase = "ok" /\ batch[r] # <<>> => session[Current(r)].phase = "committed"
    /\ c.attempt # call[r].attempt =>
          /\ call[r].phase \in {"new", "pausing"} /\ s = session[Current(r)]
          /\ c.phase \notin {"committing", "failed"}

LEMMA MovedKeeps ==
    ASSUME IInv, NEW r \in Requests, NEW c, NEW s, Moved(r, c, s), Careful(r, c, s)
    PROVE  IInv'
<1>0. /\ Typed /\ OnceFor(r) /\ Current(r) = <<r, call[r].attempt>> /\ Current(r) \in Sessions
      /\ call[r].attempt \in 0..MaxRetries
      /\ c \in CallState /\ s \in SessionState /\ UNCHANGED <<batch, applied>>
  BY CurrentSession DEF IInv, Careful, Moved, storeVars
<1>1. /\ call' \in [Requests -> CallState] /\ call'[r] = c
      /\ \A q \in Requests : q # r => call'[q] = call[q]
  BY <1>0 DEF Typed, Moved
<1>2. /\ session' \in [Sessions -> SessionState] /\ session'[Current(r)] = s
      /\ \A t \in Sessions : t # Current(r) => session'[t] = session[t]
  BY <1>0 DEF Typed, Moved
<1>3. Typed'
  <2>1. \A q \in Requests : call'[q].phase = "pausing" => call'[q].attempt < MaxRetries
    BY <1>0, <1>1 DEF Typed, Careful
  <2> QED
    BY <1>0, <1>1, <1>2, <2>1 DEF Typed
<1>4. ASSUME NEW q \in Requests, q # r
      PROVE  OnceFor(q)'
  <2>1. \A n \in 0..MaxRetries : <<q, n>> \in Sessions /\ <<q, n>> # Current(r)
    BY <1>0, <1>4 DEF Sessions
  <2>2. \A n \in 0..MaxRetries : session'[<<q, n>>] = session[<<q, n>>]
    BY <1>2, <2>1
  <2>3. call[q].attempt \in 0..MaxRetries /\ OnceFor(q)
    BY CurrentSession DEF IInv
  <2> QED
    BY <1>0, <1>1, <1>4, <2>2, <2>3, OnceKept
<1>5. /\ session'[<<r, call[r].attempt>>] = s
      /\ \A n \in 0..MaxRetries : n # call[r].attempt => session'[<<r, n>>] = session[<<r, n>>]
  BY <1>0, <1>2 DEF Sessions
<1>6. OnceFor(r)'
  <2>1. c.phase \in {"new", "refused"} =>
           applied[r] = 0 /\ \A n \in 0..MaxRetries : session'[<<r, n>>].phase = "none"
    BY <1>0, <1>5 DEF OnceFor, Careful
  <2>2. ASSUME r \notin Singles, c.phase \in {"starting", "open", "pausing"}
        PROVE  \A n \in 0..MaxRetries : session'[<<r, n>>].phase \notin {"committing", "committed"}
    <3>1. \A n \in 0..MaxRetries : session[<<r, n>>].phase \notin {"committing", "committed"}
      BY <1>0, <2>2 DEF OnceFor, Careful, Committing
    <3> QED
      BY <1>0, <1>5, <2>2, <3>1 DEF Careful
  <2>3. ASSUME r \notin Singles
        PROVE  /\ applied[r] = IF session'[<<r, c.attempt>>].phase = "committed" THEN 1 ELSE 0
               /\ \A n \in 0..MaxRetries : n # c.attempt =>
                     session'[<<r, n>>].phase \notin {"committing", "committed"}
    <3>1. CASE c.attempt = call[r].attempt
      BY <1>0, <1>5, <2>3, <3>1 DEF OnceFor, Careful
    <3>2. CASE c.attempt # call[r].attempt
      <4>1. /\ call[r].phase \in {"new", "pausing"} /\ s = session[Current(r)]
            /\ c.attempt \in 0..MaxRetries
        BY <1>0, <3>2 DEF Careful, CallState
      <4>2. \A n \in 0..MaxRetries : session[<<r, n>>].phase \notin {"committing", "committed"}
        BY <1>0, <2>3, <4>1 DEF OnceFor, Committing
      <4>3. \A n \in 0..MaxRetries : session'[<<r, n>>] = session[<<r, n>>]
        BY <1>0, <1>5, <4>1
      <4>4. applied[r] = 0
        BY <1>0, <2>3, <4>2 DEF OnceFor
      <4> QED
        BY <4>1, <4>2, <4>3, <4>4
    <3> QED
      BY <3>1, <3>2
  <2>4. \A n \in 0..MaxRetries : session'[<<r, n>>].phase = "committed" => applied[r] >= 1
    BY <1>0, <1>5 DEF OnceFor, Careful
  <2>5. c.phase = "ok" /\ batch[r] # <<>> => applied[r] >= 1
    BY <1>0 DEF OnceFor, Careful
  <2> QED
    BY <1>0, <1>1, <2>1, <2>2, <2>3, <2>4, <2>5 DEF OnceFor, Committing, Current
<1> QED
  BY <1>3, <1>4, <1>6 DEF IInv

LEMMA CallKeeps ==
    ASSUME IInv, NEW r \in Requests, Call(r)
    PROVE  IInv'
<1> DEFINE c == call'[r]
           s == session[Current(r)]
<1>0. /\ Typed /\ OnceFor(r) /\ Current(r) = <<r, call[r].attempt>> /\ Current(r) \in Sessions
      /\ call[r].attempt \in 0..MaxRetries
      /\ call[r] \in CallState /\ s \in SessionState /\ call[r].phase = "new"
  BY CurrentSession DEF IInv, Call
<1>1. batch \in Workloads /\ AggregateBatch(batch[r]) \in RowLists
  BY <1>0 DEF Typed, RowLists
<1>2. /\ c \in CallState /\ c.phase \in {"ok", "refused", "starting"}
      /\ c.phase = "ok" => batch[r] = <<>>
      /\ c.phase # "starting" => c.attempt = call[r].attempt
      /\ call' = [call EXCEPT ![r] = c]
  <2>1. CASE batch[r] = <<>>
    BY <1>0, <2>1 DEF Call, Typed, CallState, CallPhases
  <2>2. CASE batch[r] # <<>> /\ ~AllValid(batch[r])
    BY <1>0, <2>2 DEF Call, Typed, CallState, CallPhases
  <2>3. CASE batch[r] # <<>> /\ AllValid(batch[r])
    <3>1. MaxRetries \in Nat
      BY StorageAssumption
    <3> DEFINE new == [phase |-> "starting", attempt |-> 0, rows |-> AggregateBatch(batch[r])]
    <3>2. new \in CallState /\ new.phase = "starting"
      BY <1>1, <3>1 DEF CallState, CallPhases
    <3>3. call' = [call EXCEPT ![r] = new]
      BY <2>3 DEF Call
    <3>4. c = new
      BY <1>0, <3>3 DEF Typed
    <3> QED
      BY <3>2, <3>3, <3>4
  <2> QED
    BY <2>1, <2>2, <2>3
<1>3. session' = [session EXCEPT ![Current(r)] = s] /\ UNCHANGED storeVars
  BY <1>0 DEF Call, Typed
<1>4. Moved(r, c, s)
  BY <1>2, <1>3 DEF Moved
<1>5. Careful(r, c, s)
  <2>1. session[Current(r)].phase = "none"
    BY <1>0 DEF OnceFor
  <2> QED
    BY <1>0, <1>2, <2>1 DEF Careful
<1> QED
  BY <1>4, <1>5, MovedKeeps

LEMMA BeginKeeps ==
    ASSUME IInv, NEW r \in Requests, Begin(r)
    PROVE  IInv'
<1> DEFINE p == IF r \in Singles THEN "committing" ELSE "open"
           c == [call[r] EXCEPT !.phase = p]
           s == [session[Current(r)] EXCEPT !.phase = p]
<1>0. /\ Typed /\ OnceFor(r) /\ Current(r) \in Sessions
      /\ call[r] \in CallState /\ session[Current(r)] \in SessionState
      /\ call[r].phase = "starting"
  BY CurrentSession DEF IInv, Begin
<1>1. /\ c \in CallState /\ c.phase = p /\ c.attempt = call[r].attempt
      /\ s \in SessionState /\ s.phase = p
  BY <1>0 DEF CallState, CallPhases, SessionState, SessionPhases
<1>2. Moved(r, c, s)
  BY <1>0 DEF Begin, Moved, Typed
<1>3. r \notin Singles => session[Current(r)].phase \notin {"committing", "committed"}
  BY <1>0, CurrentSession DEF OnceFor, Committing
<1>4. Careful(r, c, s)
  BY <1>0, <1>1, <1>3 DEF Careful
<1> QED
  BY <1>2, <1>4, MovedKeeps

LEMMA ExecContextKeeps ==
    ASSUME IInv, NEW r \in Requests, ExecContext(r)
    PROVE  IInv'
<1> DEFINE s == [session[Current(r)] EXCEPT !.done = @ + 1]
<1>0. /\ Typed /\ OnceFor(r) /\ Current(r) \in Sessions
      /\ call[r] \in CallState /\ session[Current(r)] \in SessionState
      /\ call[r].phase = "open" /\ session[Current(r)].phase = "open"
  BY CurrentSession DEF IInv, ExecContext
<1>1. s \in SessionState /\ s.phase = "open"
  BY <1>0 DEF SessionState
<1>2. Moved(r, call[r], s)
  BY <1>0 DEF ExecContext, Moved, Typed
<1>3. Careful(r, call[r], s)
  BY <1>0, <1>1 DEF Careful
<1> QED
  BY <1>2, <1>3, MovedKeeps

LEMMA CommitKeeps ==
    ASSUME IInv, NEW r \in Requests, Commit(r)
    PROVE  IInv'
<1> DEFINE c == [call[r] EXCEPT !.phase = "committing"]
           s == [session[Current(r)] EXCEPT !.phase = "committing"]
<1>0. /\ Typed /\ OnceFor(r) /\ Current(r) \in Sessions
      /\ call[r] \in CallState /\ session[Current(r)] \in SessionState
      /\ call[r].phase = "open" /\ session[Current(r)].phase = "open"
  BY CurrentSession DEF IInv, Commit
<1>1. /\ c \in CallState /\ c.phase = "committing" /\ c.attempt = call[r].attempt
      /\ s \in SessionState /\ s.phase = "committing"
  BY <1>0 DEF CallState, CallPhases, SessionState, SessionPhases
<1>2. Moved(r, c, s)
  BY <1>0 DEF Commit, Moved, Typed
<1>3. Careful(r, c, s)
  BY <1>0, <1>1 DEF Careful
<1> QED
  BY <1>2, <1>3, MovedKeeps

LEMMA SucceedsKeeps ==
    ASSUME IInv, NEW r \in Requests, Succeeds(r)
    PROVE  IInv'
<1> DEFINE c == [call[r] EXCEPT !.phase = "ok"]
           s == session[Current(r)]
<1>0. /\ Typed /\ Current(r) \in Sessions
      /\ call[r] \in CallState /\ s \in SessionState
      /\ call[r].phase = "committing" /\ s.phase = "committed"
  BY CurrentSession DEF IInv, Succeeds
<1>1. c \in CallState /\ c.phase = "ok" /\ c.attempt = call[r].attempt
  BY <1>0 DEF CallState, CallPhases
<1>2. Moved(r, c, s)
  BY <1>0 DEF Succeeds, Moved, Typed
<1>3. Careful(r, c, s)
  BY <1>0, <1>1 DEF Careful
<1> QED
  BY <1>2, <1>3, MovedKeeps

LEMMA AttemptFailsKeeps ==
    ASSUME IInv, NEW r \in Requests, Fails(r)
    PROVE  IInv'
<1>0. PICK passing, rolledBack \in BOOLEAN : AttemptFails(r, passing, rolledBack)
  BY DEF Fails
<1> DEFINE retried == passing /\ IsRetriable(r)
           c == [call[r] EXCEPT !.phase = IF retried THEN "pausing" ELSE "failed"]
           s == IF rolledBack /\ session[Current(r)].phase = "open"
                  THEN [phase |-> "aborted", done |-> 0] ELSE session[Current(r)]
<1>1. /\ Typed /\ OnceFor(r) /\ Current(r) \in Sessions /\ call[r].attempt \in 0..MaxRetries
      /\ call[r] \in CallState /\ session[Current(r)] \in SessionState
      /\ call[r].phase \in {"starting", "open", "committing"}
  BY <1>0, CurrentSession DEF IInv, AttemptFails
<1>2. c \in CallState /\ c.attempt = call[r].attempt
      /\ c.phase = IF retried THEN "pausing" ELSE "failed"
  BY <1>1 DEF CallState, CallPhases
<1>3. s \in SessionState
  BY <1>1 DEF SessionState, SessionPhases
<1>4. call' = [call EXCEPT ![r] = c]
  BY <1>0, <1>1 DEF AttemptFails, Typed
<1>5. session' = [session EXCEPT ![Current(r)] = s]
  BY <1>0, <1>1 DEF AttemptFails, Typed
<1>6. Moved(r, c, s)
  BY <1>0, <1>4, <1>5 DEF AttemptFails, Moved
<1>7. Careful(r, c, s)
  <2>1. retried => /\ call[r].attempt < MaxRetries
                   /\ r \notin Singles => call[r].phase # "committing"
    BY DEF IsRetriable
  <2>2. r \notin Singles /\ retried => session[Current(r)].phase # "committing"
    BY <1>1, <2>1, CurrentSession DEF OnceFor, Committing
  <2> QED
    BY <1>1, <1>2, <1>3, <2>1, <2>2 DEF Careful
<1> QED
  BY <1>6, <1>7, MovedKeeps

LEMMA PauseOverKeeps ==
    ASSUME IInv, NEW r \in Requests, PauseOver(r)
    PROVE  IInv'
<1> DEFINE c == [phase |-> "starting", attempt |-> call[r].attempt + 1, rows |-> call[r].rows]
           s == session[Current(r)]
<1>0. /\ Typed /\ OnceFor(r) /\ Current(r) \in Sessions /\ call[r].attempt \in 0..MaxRetries
      /\ call[r] \in CallState /\ s \in SessionState
      /\ call[r].phase = "pausing" /\ call[r].attempt < MaxRetries
  BY CurrentSession DEF IInv, PauseOver, Typed
<1>1. c \in CallState /\ c.phase = "starting"
  <2>1. MaxRetries \in Nat
    BY StorageAssumption
  <2> QED
    BY <1>0, <2>1 DEF CallState, CallPhases
<1>2. Moved(r, c, s)
  BY <1>0 DEF PauseOver, Moved, Typed, CallState
<1>3. r \notin Singles => s.phase # "committing"
  BY <1>0, CurrentSession DEF OnceFor, Committing
<1>4. Careful(r, c, s)
  BY <1>0, <1>1, <1>3 DEF Careful
<1> QED
  BY <1>2, <1>4, MovedKeeps

LEMMA PauseCancelledKeeps ==
    ASSUME IInv, NEW r \in Requests, PauseCancelled(r)
    PROVE  IInv'
<1> DEFINE c == [call[r] EXCEPT !.phase = "failed"]
           s == session[Current(r)]
<1>0. /\ Typed /\ Current(r) \in Sessions
      /\ call[r] \in CallState /\ s \in SessionState /\ call[r].phase = "pausing"
  BY CurrentSession DEF IInv, PauseCancelled
<1>1. c \in CallState /\ c.phase = "failed" /\ c.attempt = call[r].attempt
  BY <1>0 DEF CallState, CallPhases
<1>2. Moved(r, c, s)
  BY <1>0 DEF PauseCancelled, Moved, Typed
<1>3. Careful(r, c, s)
  BY <1>0, <1>1 DEF Careful
<1> QED
  BY <1>2, <1>3, MovedKeeps

-----------------------------------------------------------------------------
(* The steps of the server. *)

Ended(r, n, phase) ==
    session' = [session EXCEPT ![<<r, n>>] = [phase |-> phase, done |-> 0]] /\ UNCHANGED <<batch, call>>

LEMMA EndedSession ==
    ASSUME Typed, NEW r \in Requests, NEW n \in 0..MaxRetries, NEW phase \in SessionPhases,
           Ended(r, n, phase)
    PROVE  /\ session' \in [Sessions -> SessionState] /\ session'[<<r, n>>].phase = phase
           /\ \A q \in Requests, m \in 0..MaxRetries :
                 q # r \/ m # n => session'[<<q, m>>] = session[<<q, m>>]
<1>1. [phase |-> phase, done |-> 0] \in SessionState
  BY DEF SessionState
<1>2. <<r, n>> \in Sessions /\ \A q \in Requests, m \in 0..MaxRetries :
         <<q, m>> \in Sessions /\ (q # r \/ m # n => <<q, m>> # <<r, n>>)
  BY DEF Sessions
<1> QED
  BY <1>1, <1>2 DEF Typed, Ended

LEMMA CommitLandsKeeps ==
    ASSUME IInv, NEW t \in Sessions, CommitLands(t)
    PROVE  IInv'
<1>0. PICK r \in Requests, n \in 0..MaxRetries : t = <<r, n>>
  BY DEF Sessions
<1>1. /\ Typed /\ OnceFor(r) /\ call[r].attempt \in 0..MaxRetries
      /\ Ended(r, n, "committed") /\ session[<<r, n>>].phase = "committing"
      /\ applied' = [applied EXCEPT ![r] = @ + 1]
  BY <1>0, CurrentSession DEF IInv, CommitLands, Ended
<1>2. /\ session' \in [Sessions -> SessionState] /\ session'[<<r, n>>].phase = "committed"
      /\ \A q \in Requests, m \in 0..MaxRetries :
            q # r \/ m # n => session'[<<q, m>>] = session[<<q, m>>]
  BY <1>1, EndedSession DEF SessionPhases
<1>3. /\ applied' \in [Requests -> Nat] /\ applied'[r] = applied[r] + 1
      /\ \A q \in Requests : q # r => applied'[q] = applied[q]
  BY <1>1 DEF Typed
<1>4. Typed'
  BY <1>1, <1>2, <1>3 DEF Typed, Ended
<1>5. ASSUME NEW q \in Requests, q # r
      PROVE  OnceFor(q)'
  BY <1>1, <1>2, <1>3, <1>5, OnceKept, CurrentSession DEF IInv, Ended
<1>6. OnceFor(r)'
  <2>0. UNCHANGED <<batch, call>> /\ applied[r] \in Nat /\ applied'[r] >= 1
    BY <1>1, <1>3 DEF Ended, Typed
  <2>1. call[r].phase \notin {"new", "refused"}
    BY <1>1 DEF OnceFor
  <2>2. ASSUME r \notin Singles
        PROVE  /\ call[r].phase \notin {"starting", "open", "pausing"}
               /\ n = call[r].attempt /\ applied[r] = 0
    BY <1>1, <2>2, CurrentSession DEF OnceFor, Committing
  <2>3. ASSUME r \notin Singles
        PROVE  /\ applied'[r] = IF session'[<<r, call[r].attempt>>].phase = "committed" THEN 1 ELSE 0
               /\ \A m \in 0..MaxRetries : m # call[r].attempt =>
                     session'[<<r, m>>].phase \notin {"committing", "committed"}
    BY <1>1, <1>2, <1>3, <2>2, <2>3 DEF OnceFor
  <2> QED
    BY <2>0, <2>1, <2>2, <2>3 DEF OnceFor, Current
<1> QED
  BY <1>4, <1>5, <1>6 DEF IInv

LEMMA SessionEndsKeeps ==
    ASSUME IInv, NEW t \in Sessions, SessionEnds(t)
    PROVE  IInv'
<1>0. PICK r \in Requests, n \in 0..MaxRetries : t = <<r, n>>
  BY DEF Sessions
<1>1. /\ Typed /\ OnceFor(r) /\ call[r].attempt \in 0..MaxRetries
      /\ Ended(r, n, "aborted") /\ session[<<r, n>>].phase \in {"open", "committing"}
      /\ applied' = applied
  BY <1>0, CurrentSession DEF IInv, SessionEnds, Ended, storeVars
<1>2. /\ session' \in [Sessions -> SessionState] /\ session'[<<r, n>>].phase = "aborted"
      /\ \A q \in Requests, m \in 0..MaxRetries :
            q # r \/ m # n => session'[<<q, m>>] = session[<<q, m>>]
  BY <1>1, EndedSession DEF SessionPhases
<1>4. Typed'
  BY <1>1, <1>2 DEF Typed, Ended
<1>5. ASSUME NEW q \in Requests, q # r
      PROVE  OnceFor(q)'
  BY <1>1, <1>2, <1>5, OnceKept, CurrentSession DEF IInv, Ended
<1>6. OnceFor(r)'
  <2>1. UNCHANGED <<batch, call>> /\ call[r].phase \notin {"new", "refused"}
    BY <1>1 DEF OnceFor, Ended
  <2>2. \A m \in 0..MaxRetries :
           /\ session'[<<r, m>>].phase \in {"committing", "committed"} =>
                 session'[<<r, m>>].phase = session[<<r, m>>].phase
           /\ session[<<r, m>>].phase = "committed" => session'[<<r, m>>].phase = "committed"
    BY <1>1, <1>2
  <2>3. ASSUME r \notin Singles
        PROVE  /\ call[r].phase \in {"starting", "open", "pausing"} =>
                     \A m \in 0..MaxRetries : session'[<<r, m>>].phase \notin {"committing", "committed"}
               /\ applied[r] = IF session'[<<r, call[r].attempt>>].phase = "committed" THEN 1 ELSE 0
               /\ \A m \in 0..MaxRetries : m # call[r].attempt =>
                     session'[<<r, m>>].phase \notin {"committing", "committed"}
    BY <1>1, <2>2, <2>3 DEF OnceFor, Committing, Current
  <2> QED
    BY <1>1, <2>1, <2>2, <2>3 DEF OnceFor, Committing, Current
<1> QED
  BY <1>4, <1>5, <1>6 DEF IInv

-----------------------------------------------------------------------------
(* The invariant. *)

LEMMA InitIInv == Init => IInv
<1> SUFFICES ASSUME Init
             PROVE  IInv
  OBVIOUS
<1>0. MaxRetries \in Nat
  BY StorageAssumption
<1>1. /\ batch \in Workloads /\ applied = [r \in Requests |-> 0]
      /\ call = [r \in Requests |-> [phase |-> "new", attempt |-> 0, rows |-> <<>>]]
      /\ session = [s \in Sessions |-> [phase |-> "none", done |-> 0]]
  BY DEF Init, Store!Init
<1>2. Typed
  BY <1>0, <1>1 DEF Typed, CallState, CallPhases, RowLists, SessionState, SessionPhases
<1>3. ASSUME NEW r \in Requests
      PROVE  OnceFor(r)
  <2>1. /\ call[r].phase = "new" /\ call[r].attempt = 0 /\ applied[r] = 0
        /\ Current(r) \in Sessions
        /\ \A n \in 0..MaxRetries : <<r, n>> \in Sessions
    BY <1>0, <1>1 DEF Current, Sessions
  <2>2. \A t \in Sessions : session[t].phase = "none"
    BY <1>1
  <2> QED
    BY <2>1, <2>2 DEF OnceFor, Committing
<1> QED
  BY <1>2, <1>3 DEF IInv

LEMMA NextIInv == IInv /\ [Next]_vars => IInv'
<1> SUFFICES ASSUME IInv, [Next]_vars
             PROVE  IInv'
  OBVIOUS
<1>1. CASE \E r \in Requests : CallStep(r)
  BY <1>1, CallKeeps, BeginKeeps, ExecContextKeeps, CommitKeeps, SucceedsKeeps, PauseOverKeeps,
     PauseCancelledKeeps DEF CallStep
<1>2. CASE \E r \in Requests : Fails(r)
  BY <1>2, AttemptFailsKeeps
<1>3. CASE \E t \in Sessions : CommitLands(t) \/ SessionEnds(t)
  BY <1>3, CommitLandsKeeps, SessionEndsKeeps
<1>4. CASE UNCHANGED vars
  <2>1. UNCHANGED <<batch, applied, call, session>>
    BY <1>4 DEF vars, storeVars
  <2> QED
    BY <2>1 DEF IInv, Typed, OnceFor, Committing, Current
<1> QED
  BY <1>1, <1>2, <1>3, <1>4 DEF Next

LEMMA Invariance == Spec => []IInv
  BY InitIInv, NextIInv, PTL DEF Spec

-----------------------------------------------------------------------------
\* Whatever fails and however late a commit is carried out, a transaction is
\* repeated only when none of its earlier attempts took or can take effect.
THEOREM PgReplaySafe == Spec => []ReplayFindsNothing
<1>1. IInv => ReplayFindsNothing
  <2> SUFFICES ASSUME IInv, NEW r \in Requests \ Singles,
                      call[r].phase \in {"starting", "open", "pausing"}
               PROVE  /\ applied[r] = 0
                      /\ \A s \in Sessions :
                            s[1] = r => session[s].phase \notin {"committing", "committed"}
    BY DEF ReplayFindsNothing
  <2>1. /\ OnceFor(r) /\ Current(r) = <<r, call[r].attempt>> /\ call[r].attempt \in 0..MaxRetries
    BY CurrentSession DEF IInv
  <2>2. \A n \in 0..MaxRetries : session[<<r, n>>].phase \notin {"committing", "committed"}
    BY <2>1 DEF OnceFor, Committing
  <2>3. \A s \in Sessions : s[1] = r => \E n \in 0..MaxRetries : s = <<r, n>>
    BY DEF Sessions
  <2> QED
    BY <2>1, <2>2, <2>3 DEF OnceFor
<1> QED
  BY <1>1, Invariance, PTL

\* A call that answered with success is in the database, and one that was
\* refused as malformed is not.
THEOREM PgAnswersTrue == Spec => []AnswersAreTrue
<1>1. IInv => AnswersAreTrue
  BY DEF IInv, OnceFor, AnswersAreTrue
<1> QED
  BY <1>1, Invariance, PTL

\* UpdateBatch is applied once at most, however often it was attempted.
THEOREM PgBatchesOnce == Spec => [](\A r \in Requests \ Singles : applied[r] <= 1)
<1>1. IInv => \A r \in Requests \ Singles : applied[r] <= 1
  BY DEF IInv, OnceFor
<1> QED
  BY <1>1, Invariance, PTL
-----------------------------------------------------------------------------
(* What a call writes, while anything of it is under way: the rows of its     *)
(* batch, in their order.                                                     *)

Active(r) ==
    \/ call[r].phase \in {"starting", "open", "committing", "pausing"}
    \/ \E n \in 0..MaxRetries : session[<<r, n>>].phase # "none"

Ready(r) == AllValid(batch[r]) /\ call[r].rows = AggregateBatch(batch[r])

Steady(r) ==
    /\ Active(r) => Ready(r)
    /\ InOrder(call[r].rows)
    /\ \A n \in 0..MaxRetries :
          /\ session[<<r, n>>].done \in 0..Len(call[r].rows)
          /\ session[<<r, n>>].phase = "none" => session[<<r, n>>].done = 0

\* What every step but Call leaves alone.
Quiet(r) ==
    /\ batch' = batch /\ call'[r].rows = call[r].rows
    /\ Active(r)' => Active(r)
    /\ \A n \in 0..MaxRetries :
          \/ session'[<<r, n>>] = session[<<r, n>>]
          \/ /\ session'[<<r, n>>].phase # "none"
             /\ session'[<<r, n>>].done \in 0..Len(call[r].rows)

\* The batch of a call is what a client can send.
LEMMA BatchSent ==
    ASSUME Typed, NEW r \in Requests
    PROVE  IsBatch(batch[r])
BY StorageAssumption DEF Typed

LEMMA QuietKeeps ==
    ASSUME NEW r \in Requests, Steady(r), Quiet(r)
    PROVE  Steady(r)'
BY DEF Steady, Quiet, Ready

\* A call nothing was done to is no more under way than it was.
LEMMA AsActive ==
    ASSUME NEW r \in Requests, call'[r].phase = call[r].phase,
           \A n \in 0..MaxRetries : session'[<<r, n>>].phase = session[<<r, n>>].phase
    PROVE  Active(r)' => Active(r)
BY DEF Active

LEMMA MovedIsQuiet ==
    ASSUME IInv, NEW r \in Requests, NEW c, NEW s, Moved(r, c, s),
           Active(r), c.rows = call[r].rows,
           s.phase # "none", s.done \in 0..Len(call[r].rows),
           NEW q \in Requests
    PROVE  Quiet(q)
<1>1. /\ call \in [Requests -> CallState] /\ session \in [Sessions -> SessionState]
      /\ Current(r) \in Sessions /\ \A n \in 0..MaxRetries : <<q, n>> \in Sessions
  BY CurrentSession DEF IInv, Typed, Sessions
<1>2. batch' = batch /\ call'[q].rows = call[q].rows
  BY <1>1 DEF Moved, storeVars
<1>4. Active(q)' => Active(q)
  <2>1. CASE q # r
    <3>1. call'[q] = call[q] /\ \A n \in 0..MaxRetries : <<q, n>> # Current(r)
      BY <1>1, <2>1 DEF Moved, Current
    <3>2. \A n \in 0..MaxRetries : session'[<<q, n>>] = session[<<q, n>>]
      BY <1>1, <3>1 DEF Moved
    <3> QED
      BY <3>1, <3>2, AsActive
  <2>2. CASE q = r
    BY <2>2
  <2> QED
    BY <2>1, <2>2
<1>3. ASSUME NEW n \in 0..MaxRetries
      PROVE  \/ session'[<<q, n>>] = session[<<q, n>>]
             \/ /\ session'[<<q, n>>].phase # "none"
                /\ session'[<<q, n>>].done \in 0..Len(call[q].rows)
  <2>1. CASE <<q, n>> = Current(r)
    <3>1. q = r
      BY <2>1 DEF Current
    <3> QED
      BY <1>1, <2>1, <3>1 DEF Moved
  <2>2. CASE <<q, n>> # Current(r)
    BY <1>1, <2>2 DEF Moved
  <2> QED
    BY <2>1, <2>2
<1> QED
  BY <1>2, <1>3, <1>4 DEF Quiet

\* The steps of a call that leave its sessions alone.
LEMMA CallAloneIsQuiet ==
    ASSUME IInv, NEW r \in Requests, Succeeds(r) \/ PauseOver(r) \/ PauseCancelled(r),
           NEW q \in Requests
    PROVE  Quiet(q)
<1>1. /\ call \in [Requests -> CallState] /\ UNCHANGED <<batch, session>>
      /\ call[r].phase \in {"committing", "pausing"}
      /\ \A p \in Requests : p # r => call'[p] = call[p]
  BY DEF IInv, Typed, Succeeds, PauseOver, PauseCancelled, storeVars
<1>0. Active(q)' => Active(q)
  BY <1>1, AsActive DEF Active
<1>2. call'[q].rows = call[q].rows
  <2>1. CASE Succeeds(r)
    BY <1>1, <2>1 DEF Succeeds, CallState
  <2>2. CASE PauseOver(r)
    BY <1>1, <2>2 DEF PauseOver, CallState
  <2>3. CASE PauseCancelled(r)
    BY <1>1, <2>3 DEF PauseCancelled, CallState
  <2> QED
    BY <2>1, <2>2, <2>3
<1> QED
  BY <1>0, <1>1, <1>2 DEF Quiet

LEMMA BeginIsQuiet ==
    ASSUME IInv, NEW r \in Requests, Steady(r), Begin(r), NEW q \in Requests
    PROVE  Quiet(q)
<1> DEFINE p == IF r \in Singles THEN "committing" ELSE "open"
           c == [call[r] EXCEPT !.phase = p]
           s == [session[Current(r)] EXCEPT !.phase = p]
<1>1. /\ Typed /\ Current(r) = <<r, call[r].attempt>> /\ Current(r) \in Sessions
      /\ call[r].attempt \in 0..MaxRetries
      /\ call[r] \in CallState /\ session[Current(r)] \in SessionState
  BY CurrentSession DEF IInv
<1>2. c.rows = call[r].rows /\ s.phase = p /\ s.done = session[Current(r)].done
  BY <1>1 DEF CallState, SessionState
<1>3. Moved(r, c, s)
  BY <1>1 DEF Begin, Moved, Typed
<1>4. s.phase # "none" /\ s.done \in 0..Len(call[r].rows)
  BY <1>1, <1>2 DEF Steady
<1>5. Active(r)
  BY DEF Begin, Active
<1> QED
  BY <1>2, <1>3, <1>4, <1>5, MovedIsQuiet

LEMMA ExecContextIsQuiet ==
    ASSUME IInv, NEW r \in Requests, Steady(r), ExecContext(r), NEW q \in Requests
    PROVE  Quiet(q)
<1> DEFINE s == [session[Current(r)] EXCEPT !.done = @ + 1]
<1>1. /\ Typed /\ Current(r) = <<r, call[r].attempt>> /\ Current(r) \in Sessions
      /\ call[r].attempt \in 0..MaxRetries
      /\ call[r] \in CallState /\ session[Current(r)] \in SessionState
      /\ session[Current(r)].phase = "open"
  BY CurrentSession DEF IInv, ExecContext
<1>2. s.phase = "open" /\ s.done = session[Current(r)].done + 1
  BY <1>1 DEF SessionState
<1>3. Moved(r, call[r], s)
  BY <1>1 DEF ExecContext, Moved, Typed
<1>4. /\ session[Current(r)].done \in 0..Len(call[r].rows) /\ Len(call[r].rows) \in Nat
      /\ session[Current(r)].done # Len(call[r].rows)
  BY <1>1 DEF Steady, InOrder, ExecContext, Free, AllDone, Rows
<1>5. s.done \in 0..Len(call[r].rows)
  BY <1>2, <1>4
<1>6. Active(r)
  BY DEF ExecContext, Active
<1> QED
  BY <1>2, <1>3, <1>5, <1>6, MovedIsQuiet

LEMMA CommitIsQuiet ==
    ASSUME IInv, NEW r \in Requests, Steady(r), Commit(r), NEW q \in Requests
    PROVE  Quiet(q)
<1> DEFINE c == [call[r] EXCEPT !.phase = "committing"]
           s == [session[Current(r)] EXCEPT !.phase = "committing"]
<1>1. /\ Typed /\ Current(r) = <<r, call[r].attempt>> /\ Current(r) \in Sessions
      /\ call[r].attempt \in 0..MaxRetries
      /\ call[r] \in CallState /\ session[Current(r)] \in SessionState
  BY CurrentSession DEF IInv
<1>2. /\ c.rows = call[r].rows
      /\ s.phase = "committing" /\ s.done = session[Current(r)].done
  BY <1>1 DEF CallState, SessionState
<1>3. Moved(r, c, s)
  BY <1>1 DEF Commit, Moved, Typed
<1>4. s.done \in 0..Len(call[r].rows)
  BY <1>1, <1>2 DEF Steady
<1>5. Active(r)
  BY DEF Commit, Active
<1> QED
  BY <1>2, <1>3, <1>4, <1>5, MovedIsQuiet

LEMMA AttemptFailsIsQuiet ==
    ASSUME IInv, NEW r \in Requests, Steady(r), Fails(r), NEW q \in Requests
    PROVE  Quiet(q)
<1>0. PICK passing, rolledBack \in BOOLEAN : AttemptFails(r, passing, rolledBack)
  BY DEF Fails
<1> DEFINE c == [call[r] EXCEPT !.phase = IF passing /\ IsRetriable(r) THEN "pausing" ELSE "failed"]
           s == [phase |-> "aborted", done |-> 0]
<1>1. /\ Typed /\ Current(r) \in Sessions /\ call[r] \in CallState
      /\ Len(call[r].rows) \in Nat
  BY CurrentSession DEF IInv, Steady, InOrder
<1>2. /\ c.rows = call[r].rows /\ call' = [call EXCEPT ![r] = c]
      /\ UNCHANGED storeVars
  BY <1>0, <1>1 DEF AttemptFails, Typed, CallState
<1>5. Active(r)
  BY <1>0 DEF AttemptFails, Active
<1>3. CASE rolledBack /\ session[Current(r)].phase = "open"
  <2>1. Moved(r, c, s)
    BY <1>0, <1>2, <1>3 DEF AttemptFails, Moved
  <2>2. c.rows = call[r].rows /\ s.phase # "none" /\ s.done \in 0..Len(call[r].rows)
    BY <1>1, <1>2
  <2> HIDE DEF c, s
  <2> QED
    BY <1>5, <2>1, <2>2, MovedIsQuiet
<1>4. CASE ~(rolledBack /\ session[Current(r)].phase = "open")
  <2>1. UNCHANGED session
    BY <1>0, <1>4 DEF AttemptFails
  <2>2. call'[q].rows = call[q].rows /\ (q # r => call'[q] = call[q])
    BY <1>1, <1>2 DEF Typed
  <2>3. Active(q)' => Active(q)
    BY <1>5, <2>1, <2>2, AsActive
  <2> QED
    BY <1>2, <2>1, <2>2, <2>3 DEF Quiet, storeVars
<1> QED
  BY <1>3, <1>4

LEMMA ServerIsQuiet ==
    ASSUME IInv, NEW t \in Sessions, CommitLands(t) \/ SessionEnds(t),
           NEW q \in Requests, Steady(q)
    PROVE  Quiet(q)
<1>0. PICK r \in Requests, n \in 0..MaxRetries : t = <<r, n>>
  BY DEF Sessions
<1>1. PICK phase \in {"committed", "aborted"} : Ended(r, n, phase)
  BY <1>0 DEF CommitLands, SessionEnds, Ended, storeVars
<1>2. /\ \A p \in Requests, m \in 0..MaxRetries :
            p # r \/ m # n => session'[<<p, m>>] = session[<<p, m>>]
      /\ session'[<<r, n>>] = [phase |-> phase, done |-> 0]
  BY <1>0, <1>1, EndedSession DEF IInv, Typed, SessionPhases, Ended
<1>3. /\ batch' = batch /\ call' = call /\ Len(call[q].rows) \in Nat
  BY <1>1 DEF Ended, Steady, InOrder
<1>4. Active(q)' => Active(q)
  <2>1. session[<<r, n>>].phase # "none"
    BY <1>0 DEF CommitLands, SessionEnds
  <2>2. Active(r)
    BY <2>1 DEF Active
  <2> QED
    BY <1>2, <1>3, <2>2, AsActive
<1> QED
  BY <1>2, <1>3, <1>4 DEF Quiet

\* Nobody has a session before the rows are known.
LEMMA CallIsSteady ==
    ASSUME IInv, NEW r \in Requests, Call(r), NEW q \in Requests, Steady(q)
    PROVE  Steady(q)'
<1>1. /\ Typed /\ call[r].phase = "new" /\ UNCHANGED <<batch, session>>
      /\ call \in [Requests -> CallState]
  BY DEF IInv, Typed, Call, storeVars
<1>2. CASE q # r
  <2>1. call'[q] = call[q]
    BY <1>1, <1>2 DEF Call
  <2> QED
    BY <1>1, <2>1, AsActive, QuietKeeps DEF Quiet
<1>3. CASE q = r
  <2>1. \A n \in 0..MaxRetries : session[<<r, n>>].phase = "none" /\ session[<<r, n>>].done = 0
    BY <1>1, <1>3 DEF IInv, OnceFor, Steady
  <2>2. CASE batch[r] = <<>> \/ ~AllValid(batch[r])
    <3>1. call'[r].rows = call[r].rows /\ call'[r].phase \in {"ok", "refused"}
      BY <1>1, <2>2 DEF Call, CallState
    <3>2. ~Active(r)'
      BY <1>1, <2>1, <3>1 DEF Active
    <3> QED
      BY <1>1, <1>3, <3>1, <3>2 DEF Steady
  <2>3. CASE batch[r] # <<>> /\ AllValid(batch[r])
    <3>1. call'[r].rows = AggregateBatch(batch[r])
      BY <1>1, <2>3 DEF Call
    <3>2. InOrder(call'[r].rows)
      BY <1>1, <2>3, <3>1, BatchSent, AggregatedInOrder
    <3>3. \A n \in 0..MaxRetries :
             session'[<<r, n>>].done \in 0..Len(call'[r].rows) /\ session'[<<r, n>>].done = 0
      BY <1>1, <2>1, <3>2 DEF InOrder
    <3> QED
      BY <1>1, <1>3, <2>3, <3>1, <3>2, <3>3 DEF Steady, Ready
  <2> QED
    BY <2>2, <2>3
<1> QED
  BY <1>2, <1>3

LEMMA AllSteady == Spec => [](IInv /\ \A q \in Requests : Steady(q))
<1> DEFINE Inv == IInv /\ \A q \in Requests : Steady(q)
<1>1. Init => Inv
  <2> SUFFICES ASSUME Init, NEW q \in Requests
               PROVE  Steady(q)
    BY InitIInv
  <2>1. MaxRetries \in Nat
    BY StorageAssumption
  <2>2. call[q].rows = <<>>
    BY DEF Init
  <2>3. Len(call[q].rows) = 0 /\ InOrder(call[q].rows)
    BY <2>2 DEF InOrder
  <2>4. \A n \in 0..MaxRetries : session[<<q, n>>].phase = "none" /\ session[<<q, n>>].done = 0
    BY DEF Init, Sessions
  <2>5. call[q].phase = "new"
    BY DEF Init
  <2>6. ~Active(q)
    BY <2>4, <2>5 DEF Active
  <2> QED
    BY <2>1, <2>3, <2>4, <2>6 DEF Steady
<1>2. Inv /\ [Next]_vars => Inv'
  <2> SUFFICES ASSUME Inv, [Next]_vars, NEW q \in Requests
               PROVE  Steady(q)'
    BY NextIInv
  <2>1. CASE \E r \in Requests : Call(r)
    BY <2>1, CallIsSteady
  <2>2. CASE \E r \in Requests : CallStep(r) /\ ~Call(r)
    BY <2>2, QuietKeeps, BeginIsQuiet, ExecContextIsQuiet, CommitIsQuiet, CallAloneIsQuiet
       DEF CallStep
  <2>3. CASE \E r \in Requests : Fails(r)
    BY <2>3, QuietKeeps, AttemptFailsIsQuiet
  <2>4. CASE \E t \in Sessions : CommitLands(t) \/ SessionEnds(t)
    BY <2>4, QuietKeeps, ServerIsQuiet
  <2>5. CASE UNCHANGED vars
    BY <2>5, QuietKeeps, AsActive DEF vars, storeVars, Quiet
  <2> QED
    BY <2>1, <2>2, <2>3, <2>4, <2>5 DEF Next
<1> QED
  BY <1>1, <1>2, PTL DEF Spec

-----------------------------------------------------------------------------
(* Who waits for whom. *)

Waiting == {s \in Sessions : \E t \in Sessions : Waits(s, t)}
NextRow(s) == Rows(s)[session[s].done + 1]

LEMMA SteadySession ==
    ASSUME \A q \in Requests : Steady(q), NEW t \in Sessions
    PROVE  /\ InOrder(Rows(t)) /\ session[t].done \in 0..Len(Rows(t)) /\ Len(Rows(t)) \in Nat
<1>1. PICK r \in Requests, n \in 0..MaxRetries : t = <<r, n>>
  BY DEF Sessions
<1> QED
  BY <1>1 DEF Steady, Rows, InOrder

\* Who waits for a row has come to it before whoever holds it waits for another:
\* the row a waiting session holds is before the one it waits for.
LEMMA WaitsUpwards ==
    ASSUME \A q \in Requests : Steady(q), NEW s \in Waiting, NEW t \in Waiting, Waits(s, t)
    PROVE  Before(NextRow(s), NextRow(t))
<1>1. /\ s \in Sessions /\ t \in Sessions /\ ~AllDone(s) /\ ~AllDone(t)
      /\ NextKey(s) \in Locked(t)
  BY DEF Waiting, Waits
<1>2. PICK i \in 1..session[t].done : NextKey(s) = Key(Rows(t)[i])
  BY <1>1 DEF Locked
<1>3. /\ InOrder(Rows(t)) /\ session[t].done \in 0..Len(Rows(t)) /\ Len(Rows(t)) \in Nat
  BY <1>1, SteadySession
<1>4. /\ session[t].done + 1 \in 1..Len(Rows(t)) /\ i \in 1..Len(Rows(t))
      /\ i < session[t].done + 1
  BY <1>1, <1>3 DEF AllDone
<1>5. Before(Rows(t)[i], NextRow(t))
  BY <1>3, <1>4 DEF InOrder, NextRow
<1>6. Rows(t)[i].mtype = NextRow(s).mtype /\ Rows(t)[i].id = NextRow(s).id
  BY <1>2 DEF NextKey, Key, NextRow
<1> QED
  BY <1>5, <1>6 DEF Before

LEMMA WaitingRow ==
    ASSUME \A q \in Requests : Steady(q), NEW s \in Waiting
    PROVE  NextRow(s).mtype \in {"counter", "gauge"} /\ NextRow(s).id \in Nat
<1>1. s \in Sessions /\ ~AllDone(s)
  BY DEF Waiting, Waits
<1>2. /\ InOrder(Rows(s)) /\ session[s].done \in 0..Len(Rows(s)) /\ Len(Rows(s)) \in Nat
  BY <1>1, SteadySession
<1>3. session[s].done + 1 \in 1..Len(Rows(s))
  BY <1>1, <1>2 DEF AllDone
<1> QED
  BY <1>2, <1>3 DEF InOrder, NextRow

\* In a finite set of waiting sessions one waits for none of the others: the one
\* with the fewest rows after the row it waits for.
LEMMA SomebodyWaitsForNone ==
    ASSUME \A q \in Requests : Steady(q), NEW S \in SUBSET Waiting, S # {}, IsFiniteSet(S)
    PROVE  \E s \in S : \A t \in S : ~Waits(s, t)
<1> DEFINE Above(s) == {t \in S : Before(NextRow(s), NextRow(t))}
           N == {Cardinality(Above(s)) : s \in S}
<1>1. \A s \in S : IsFiniteSet(Above(s)) /\ Cardinality(Above(s)) \in Nat
  <2> SUFFICES ASSUME NEW s \in S
               PROVE  IsFiniteSet(Above(s)) /\ Cardinality(Above(s)) \in Nat
    OBVIOUS
  <2>1. Above(s) \in SUBSET S
    OBVIOUS
  <2> HIDE DEF Above
  <2> QED
    BY <2>1, FS_Subset, FS_CardinalityType
<1>2. N \in SUBSET Nat /\ N # {}
  BY <1>1
<1>3. PICK x \in N : \A y \in N : ~(y < x)
  <2> HIDE DEF N
  <2> QED
    BY <1>2, LeastNatural
<1>4. PICK s \in S : x = Cardinality(Above(s))
  BY <1>3
<1>5. ASSUME NEW t \in S, Waits(s, t)
      PROVE  FALSE
  <2>1. Before(NextRow(s), NextRow(t))
    BY <1>5, WaitsUpwards
  <2>2. t \in Above(s)
    BY <2>1
  <2>3. t \notin Above(t)
    <3>1. ~Before(NextRow(t), NextRow(t))
      BY WaitingRow DEF Before
    <3> QED
      BY <3>1
  <2>4. Above(t) \in SUBSET Above(s)
    <3> SUFFICES ASSUME NEW u \in S, Before(NextRow(t), NextRow(u))
                 PROVE  Before(NextRow(s), NextRow(u))
      OBVIOUS
    <3>1. /\ NextRow(s).id \in Nat /\ NextRow(t).id \in Nat /\ NextRow(u).id \in Nat
      BY WaitingRow
    <3> QED
      BY <2>1, <3>1 DEF Before
  <2>5. /\ IsFiniteSet(Above(s)) /\ Cardinality(Above(s)) \in Nat
        /\ Cardinality(Above(t)) \in Nat
    BY <1>1
  <2>6. Cardinality(Above(t)) <= Cardinality(Above(s)) /\ Cardinality(Above(s)) # Cardinality(Above(t))
    <3> HIDE DEF Above
    <3> QED
      BY <2>2, <2>3, <2>4, <2>5, FS_Subset
  <2>7. Cardinality(Above(t)) \in N
    OBVIOUS
  <2> HIDE DEF Above, N
  <2> QED
    BY <1>3, <1>4, <2>5, <2>6, <2>7
<1> QED
  BY <1>5

\* Since aggregateBatch puts the rows of every batch in one order, no sessions
\* wait for each other in a circle, those left over from earlier attempts included.
THEOREM PgNoLockCycle == Spec => []NoLockCycle
<1>1. (\A q \in Requests : Steady(q)) => NoLockCycle
  <2> SUFFICES ASSUME \A q \in Requests : Steady(q), NEW S \in (SUBSET Waiting) \ {{}}
               PROVE  \E s \in S : \A t \in S : ~Waits(s, t)
    BY DEF NoLockCycle, Waiting
  <2>1. IsFiniteSet(Requests) /\ MaxRetries \in Nat
    BY StorageAssumption
  <2>2. IsFiniteSet(0..MaxRetries)
    BY <2>1, FS_Interval
  <2>3. IsFiniteSet(Sessions)
    BY <2>1, <2>2, FS_Product DEF Sessions
  <2>4. IsFiniteSet(S)
    <3>1. S \in SUBSET Sessions
      BY DEF Waiting
    <3> QED
      BY <2>3, <3>1, FS_Subset
  <2> QED
    BY <2>4, SomebodyWaitsForNone
<1>2. Spec => [](IInv /\ \A q \in Requests : Steady(q))
  BY AllSteady
<1> QED
  BY <1>1, <1>2, PTL

-----------------------------------------------------------------------------
(* What the commits make of the rows.                                         *)

Standing == IInv /\ (\A q \in Requests : Steady(q)) /\ Rowed(rows, Amounts)

LEMMA BatchMetrics ==
    ASSUME Typed, NEW r \in Requests, AllValid(batch[r])
    PROVE  batch[r] \in Seq(Metrics(Amounts))
<1>1. IsBatch(batch[r])
  BY BatchSent
<1>2. Values(batch[r]) \ {Missing} \subseteq Amounts
  BY DEF Values, Amounts, Typed
<1> QED
  BY <1>1, <1>2, ValidBatch

\* The abstract storage folds as PgStorage does.
LEMMA SameFold ==
    ASSUME NEW base, NEW seq
    PROVE  Store!FoldLeft(Store!Upsert, base, seq) = FoldLeft(Upsert, base, seq)
BY DEF Store!FoldLeft, Store!MapThenFoldSet, Store!Upsert, Store!Key, Store!Max,
       FoldLeft, MapThenFoldSet, Upsert, Key, Max

\* A commit that is carried out is one update of the abstract storage.
LEMMA CommitApplies ==
    ASSUME Standing, NEW t \in Sessions, CommitLands(t)
    PROVE  Store!Next /\ Rowed(rows, Amounts)'
<1>0. PICK r \in Requests, n \in 0..MaxRetries : t = <<r, n>>
  BY DEF Sessions
<1>1. /\ Typed /\ OnceFor(r) /\ Steady(r) /\ call[r].attempt \in 0..MaxRetries
      /\ session[<<r, n>>].phase = "committing"
      /\ rows' = FoldLeft(Upsert, rows, call[r].rows)
      /\ applied' = [applied EXCEPT ![r] = @ + 1] /\ UNCHANGED batch
  BY <1>0, CurrentSession DEF Standing, IInv, CommitLands, Rows
<1>2. AllValid(batch[r]) /\ call[r].rows = AggregateBatch(batch[r])
  BY <1>1 DEF Steady, Active, Ready
<1>3. batch[r] \in Seq(Metrics(Amounts))
  BY <1>1, <1>2, BatchMetrics
<1>4. Counting(rows) /\ rows = [k \in DOMAIN rows |-> rows[k]]
  BY DEF Standing, Rowed, Counting
<1>5. /\ call[r].rows \in Seq(Metrics(Amounts))
      /\ FoldLeft(Upsert, rows, call[r].rows) = FoldLeft(Upsert, rows, batch[r])
  BY <1>2, <1>3, <1>4, Aggregated
<1>6. r \notin Singles => applied[r] = 0
  BY <1>1, CurrentSession DEF OnceFor
<1>7. Store!Apply(r)
  <2>1. Store!AllValid(batch[r])
    BY <1>2 DEF Store!AllValid, Store!Valid, Store!NoName, AllValid, Valid, NoName
  <2>2. rows' = Store!FoldLeft(Store!Upsert, rows, batch[r])
    BY <1>1, <1>5, SameFold
  <2> QED
    BY <1>1, <1>6, <2>1, <2>2 DEF Store!Apply
<1>8. Rowed(rows', Amounts)
  <2> DEFINE S == Metrics(Amounts)
  <2>1. FoldLeft(Upsert, rows, call[r].rows) = Folded("upsert", rows, call[r].rows)
    <3>1. call[r].rows \in Seq(S)
      BY <1>5
    <3> HIDE DEF S
    <3> QED
      BY <3>1, FoldLeftUpsert
  <2> QED
    BY <1>1, <1>5, <2>1, FoldedRowed DEF Standing
<1>9. Rowed(rows, Amounts)'
  BY <1>8 DEF Amounts, Rowed
<1> QED
  BY <1>7, <1>9 DEF Store!Next

\* Every other step leaves the abstract storage alone.
LEMMA StoreUntouched ==
    ASSUME [Next]_vars, ~\E t \in Sessions : CommitLands(t)
    PROVE  UNCHANGED storeVars
<1>1. CASE \E r \in Requests : CallStep(r)
  BY <1>1 DEF CallStep, Call, Begin, ExecContext, Commit, Succeeds, PauseOver, PauseCancelled
<1>2. CASE \E r \in Requests : Fails(r)
  BY <1>2 DEF Fails, AttemptFails
<1>3. CASE \E t \in Sessions : SessionEnds(t)
  BY <1>3 DEF SessionEnds
<1>4. CASE UNCHANGED vars
  BY <1>4 DEF vars
<1> QED
  BY <1>1, <1>2, <1>3, <1>4 DEF Next

LEMMA AllStanding == Spec => []Standing
<1>1. Init => Rowed(rows, Amounts)
  BY DEF Init, Store!Init, Rowed
<1>2. Standing /\ [Next]_vars => Rowed(rows, Amounts)'
  <2> SUFFICES ASSUME Standing, [Next]_vars
               PROVE  Rowed(rows, Amounts)'
    OBVIOUS
  <2>1. CASE \E t \in Sessions : CommitLands(t)
    BY <2>1, CommitApplies
  <2>2. CASE ~\E t \in Sessions : CommitLands(t)
    <3>1. rows' = rows
      BY <2>2, StoreUntouched DEF storeVars
    <3> QED
      BY <3>1 DEF Standing, Rowed, Amounts
  <2> QED
    BY <2>1, <2>2
<1>3. Spec => [](IInv /\ \A q \in Requests : Steady(q))
  BY AllSteady
<1>4. (IInv /\ \A q \in Requests : Steady(q)) /\ Rowed(rows, Amounts) <=> Standing
  BY DEF Standing
<1> QED
  BY <1>1, <1>2, <1>3, <1>4, PTL DEF Spec

\* Whatever fails, and however late the server carries out a commit: the rows
\* change by whole batches only, each with the effect its metrics have one after
\* another as the client sent them, and once at most (UpdateBatch, UpdateGauge,
\* UpdateCounter of PgStorage).
THEOREM PgImplementsStore == Spec => StoreImplemented
<1>1. Init => Store!Init
  BY DEF Init
<1>2. Standing /\ [Next]_vars => [Store!Next]_<<batch, rows, applied>>
  BY CommitApplies, StoreUntouched DEF storeVars
<1>3. Spec => []Standing
  BY AllStanding
<1> QED
  BY <1>1, <1>2, <1>3, PTL DEF Spec, StoreImplemented, Store!Spec

-----------------------------------------------------------------------------
(* How often a call can be applied: once for each attempt.                    *)

Committed(r) == {n \in 0..MaxRetries : session[<<r, n>>].phase = "committed"}

\* No session is there before its attempt begins.
Fresh(r) ==
    /\ \A n \in 0..MaxRetries : n > call[r].attempt => session[<<r, n>>].phase = "none"
    /\ call[r].phase = "starting" => session[<<r, call[r].attempt>>].phase = "none"

Counted(r) == Fresh(r) /\ applied[r] = Cardinality(Committed(r))

LEMMA CommittedOnceEach ==
    ASSUME NEW r \in Requests
    PROVE  IsFiniteSet(Committed(r)) /\ Cardinality(Committed(r)) \in 0..MaxRetries + 1
<1>1. /\ IsFiniteSet(0..MaxRetries) /\ Cardinality(0..MaxRetries) = MaxRetries + 1
      /\ MaxRetries \in Nat
  BY FS_Interval, StorageAssumption
<1>2. Committed(r) \subseteq 0..MaxRetries
  BY DEF Committed
<1>3. /\ IsFiniteSet(Committed(r)) /\ Cardinality(Committed(r)) \in Nat
      /\ Cardinality(Committed(r)) <= Cardinality(0..MaxRetries)
  BY <1>1, <1>2, FS_Subset, FS_CardinalityType
<1> QED
  BY <1>1, <1>3

\* What the steps of a call have in common: they concern one session, and do not
\* carry out a commit.
Attempted(r) ==
    /\ applied' = applied
    /\ \A p \in Requests : p # r => call'[p] = call[p]
    /\ \A t \in Sessions : t # Current(r) => session'[t].phase = session[t].phase
    /\ session'[Current(r)].phase = "committed" <=> session[Current(r)].phase = "committed"
    /\ call'[r].attempt \in 0..MaxRetries
    /\ call'[r].attempt >= call[r].attempt \/ call[r].phase = "new"
    /\ call[r].phase = "new" => UNCHANGED session
    /\ call'[r].phase = "starting" =>
          /\ UNCHANGED session
          /\ call[r].phase = "new" \/ call'[r].attempt = call[r].attempt + 1

LEMMA StepAttempted ==
    ASSUME Typed, NEW r \in Requests, Fresh(r), CallStep(r) \/ Fails(r)
    PROVE  Attempted(r)
<1>0. /\ call \in [Requests -> CallState] /\ session \in [Sessions -> SessionState]
      /\ applied \in [Requests -> Nat]
      /\ Current(r) = <<r, call[r].attempt>> /\ Current(r) \in Sessions
      /\ call[r].attempt \in 0..MaxRetries /\ MaxRetries \in Nat
      /\ call[r] \in CallState /\ session[Current(r)] \in SessionState
  BY CurrentSession, StorageAssumption DEF Typed
<1>1. CASE Call(r)
  <2>1. /\ UNCHANGED <<applied, session>> /\ call[r].phase = "new"
        /\ \A p \in Requests : p # r => call'[p] = call[p]
    BY <1>0, <1>1 DEF Call, storeVars
  <2>2. call'[r].attempt \in {call[r].attempt, 0}
    BY <1>0, <1>1 DEF Call, CallState
  <2> QED
    BY <1>0, <2>1, <2>2 DEF Attempted
<1>2. CASE Begin(r)
  <2>1. session[Current(r)].phase = "none" /\ call[r].phase = "starting"
    BY <1>0, <1>2 DEF Begin, Fresh
  <2>2. /\ applied' = applied /\ call'[r].attempt = call[r].attempt
        /\ call'[r].phase \in {"committing", "open"}
        /\ \A p \in Requests : p # r => call'[p] = call[p]
    BY <1>0, <1>2 DEF Begin, storeVars, CallState
  <2>3. /\ session'[Current(r)].phase \in {"committing", "open"}
        /\ \A t \in Sessions : t # Current(r) => session'[t] = session[t]
    BY <1>0, <1>2 DEF Begin, SessionState
  <2> QED
    BY <1>0, <2>1, <2>2, <2>3 DEF Attempted
<1>3. CASE ExecContext(r)
  <2>1. UNCHANGED <<applied, call>> /\ call[r].phase = "open"
    BY <1>3 DEF ExecContext, storeVars
  <2>2. /\ session'[Current(r)].phase = session[Current(r)].phase
        /\ \A t \in Sessions : t # Current(r) => session'[t] = session[t]
    BY <1>0, <1>3 DEF ExecContext, SessionState
  <2> QED
    BY <1>0, <2>1, <2>2 DEF Attempted
<1>4. CASE Commit(r)
  <2>1. /\ applied' = applied /\ call'[r].attempt = call[r].attempt
        /\ call'[r].phase = "committing"
        /\ \A p \in Requests : p # r => call'[p] = call[p]
    BY <1>0, <1>4 DEF Commit, storeVars, CallState
  <2>2. /\ call[r].phase = "open"
        /\ session[Current(r)].phase = "open" /\ session'[Current(r)].phase = "committing"
        /\ \A t \in Sessions : t # Current(r) => session'[t] = session[t]
    BY <1>0, <1>4 DEF Commit, SessionState
  <2> QED
    BY <1>0, <2>1, <2>2 DEF Attempted
<1>5. CASE Succeeds(r) \/ PauseCancelled(r)
  <2>1. /\ UNCHANGED <<applied, session>> /\ call'[r].attempt = call[r].attempt
        /\ call'[r].phase \in {"ok", "failed"}
        /\ \A p \in Requests : p # r => call'[p] = call[p]
    BY <1>0, <1>5 DEF Succeeds, PauseCancelled, storeVars, CallState
  <2> QED
    BY <1>0, <2>1 DEF Attempted
<1>6. CASE PauseOver(r)
  <2>1. /\ UNCHANGED <<applied, session>> /\ call'[r].attempt = call[r].attempt + 1
        /\ call[r].attempt < MaxRetries
        /\ \A p \in Requests : p # r => call'[p] = call[p]
    BY <1>0, <1>6 DEF PauseOver, storeVars, CallState, Typed
  <2> QED
    BY <1>0, <2>1 DEF Attempted
<1>7. CASE Fails(r)
  <2>0. PICK passing, rolledBack \in BOOLEAN : AttemptFails(r, passing, rolledBack)
    BY <1>7 DEF Fails
  <2>1. /\ applied' = applied /\ call'[r].attempt = call[r].attempt
        /\ call'[r].phase \in {"pausing", "failed"} /\ call[r].phase # "new"
        /\ \A p \in Requests : p # r => call'[p] = call[p]
    BY <1>0, <2>0 DEF AttemptFails, storeVars, CallState
  <2>2. /\ \/ session'[Current(r)] = session[Current(r)]
           \/ session[Current(r)].phase = "open" /\ session'[Current(r)].phase = "aborted"
        /\ \A t \in Sessions : t # Current(r) => session'[t] = session[t]
    BY <1>0, <2>0 DEF AttemptFails
  <2> QED
    BY <1>0, <2>1, <2>2 DEF Attempted
<1> QED
  BY <1>1, <1>2, <1>3, <1>4, <1>5, <1>6, <1>7 DEF CallStep

LEMMA AttemptedCounts ==
    ASSUME IInv, NEW r \in Requests, Attempted(r), NEW q \in Requests, Counted(q)
    PROVE  Counted(q)'
<1>0. /\ Current(r) = <<r, call[r].attempt>> /\ Current(r) \in Sessions
      /\ call[r].attempt \in 0..MaxRetries /\ MaxRetries \in Nat
  BY CurrentSession, StorageAssumption DEF IInv
<1>1. \A n \in 0..MaxRetries : <<q, n>> \in Sessions
  BY DEF Sessions
<1>2. \A n \in 0..MaxRetries :
         (session'[<<q, n>>].phase = "committed") <=> (session[<<q, n>>].phase = "committed")
  BY <1>1 DEF Attempted
<1>3. Committed(q)' = Committed(q)
  BY <1>2 DEF Committed
<1>4. Fresh(q)'
  <2>1. CASE q # r
    <3>1. call'[q] = call[q] /\ \A n \in 0..MaxRetries : <<q, n>> # Current(r)
      BY <1>0, <2>1 DEF Attempted
    <3>2. \A n \in 0..MaxRetries : session'[<<q, n>>].phase = session[<<q, n>>].phase
      BY <1>1, <3>1 DEF Attempted
    <3>3. call[q].attempt \in 0..MaxRetries
      BY CurrentSession DEF IInv
    <3> QED
      BY <3>1, <3>2, <3>3 DEF Counted, Fresh
  <2>2. CASE q = r /\ call[r].phase = "new"
    <3>1. \A n \in 0..MaxRetries : session'[<<r, n>>].phase = "none"
      BY <2>2 DEF IInv, OnceFor, Attempted
    <3>2. call'[r].attempt \in 0..MaxRetries
      BY DEF Attempted
    <3> QED
      BY <2>2, <3>1, <3>2 DEF Fresh
  <2>3. CASE q = r /\ call[r].phase # "new"
    <3>1. /\ call'[r].attempt \in 0..MaxRetries /\ call'[r].attempt >= call[r].attempt
          /\ call'[r].phase = "starting" =>
                UNCHANGED session /\ call'[r].attempt = call[r].attempt + 1
      BY <2>3 DEF Attempted
    <3>2. \A n \in 0..MaxRetries :
             n > call[r].attempt => session'[<<r, n>>].phase = session[<<r, n>>].phase
      BY <1>0, <1>1, <2>3 DEF Attempted
    <3> QED
      BY <1>0, <2>3, <3>1, <3>2 DEF Counted, Fresh
  <2> QED
    BY <2>1, <2>2, <2>3
<1> QED
  BY <1>3, <1>4 DEF Counted, Attempted

LEMMA CommitCounts ==
    ASSUME IInv, NEW t \in Sessions, CommitLands(t), NEW q \in Requests, Counted(q)
    PROVE  Counted(q)'
<1>0. PICK r \in Requests, n \in 0..MaxRetries : t = <<r, n>>
  BY DEF Sessions
<1>1. /\ Typed /\ call[r].attempt \in 0..MaxRetries
      /\ Ended(r, n, "committed") /\ session[<<r, n>>].phase = "committing"
      /\ applied' = [applied EXCEPT ![r] = @ + 1] /\ call' = call
  BY <1>0, CurrentSession DEF IInv, CommitLands, Ended
<1>2. /\ session'[<<r, n>>].phase = "committed"
      /\ \A p \in Requests, m \in 0..MaxRetries :
            p # r \/ m # n => session'[<<p, m>>] = session[<<p, m>>]
  BY <1>1, EndedSession DEF SessionPhases
<1>3. /\ applied'[r] = applied[r] + 1 /\ applied[r] \in Nat
      /\ \A p \in Requests : p # r => applied'[p] = applied[p]
  BY <1>1 DEF Typed
<1>4. Fresh(q)'
  <2>1. \A m \in 0..MaxRetries : session[<<q, m>>].phase = "none" => session'[<<q, m>>].phase = "none"
    BY <1>1, <1>2
  <2>2. call[q].attempt \in 0..MaxRetries
    BY CurrentSession DEF IInv
  <2> QED
    BY <1>1, <2>1, <2>2 DEF Counted, Fresh
<1>5. CASE q # r
  <2>1. Committed(q)' = Committed(q)
    BY <1>2, <1>5 DEF Committed
  <2> QED
    BY <1>3, <1>4, <1>5, <2>1 DEF Counted
<1>6. CASE q = r
  <2>1. n \notin Committed(r) /\ Committed(r)' = Committed(r) \cup {n}
    BY <1>1, <1>2 DEF Committed
  <2>2. IsFiniteSet(Committed(r))
    BY CommittedOnceEach
  <2>3. Cardinality(Committed(r)') = Cardinality(Committed(r)) + 1
    BY <2>1, <2>2, FS_AddElement
  <2> QED
    BY <1>3, <1>4, <1>6, <2>3 DEF Counted
<1> QED
  BY <1>5, <1>6

LEMMA AbortCounts ==
    ASSUME IInv, NEW t \in Sessions, SessionEnds(t), NEW q \in Requests, Counted(q)
    PROVE  Counted(q)'
<1>0. PICK r \in Requests, n \in 0..MaxRetries : t = <<r, n>>
  BY DEF Sessions
<1>1. /\ Typed /\ call[r].attempt \in 0..MaxRetries
      /\ Ended(r, n, "aborted") /\ session[<<r, n>>].phase \in {"open", "committing"}
      /\ applied' = applied /\ call' = call
  BY <1>0, CurrentSession DEF IInv, SessionEnds, storeVars, Ended
<1>2. /\ session'[<<r, n>>].phase = "aborted"
      /\ \A p \in Requests, m \in 0..MaxRetries :
            p # r \/ m # n => session'[<<p, m>>] = session[<<p, m>>]
  BY <1>1, EndedSession DEF SessionPhases
<1>3. Fresh(q)'
  <2>1. \A m \in 0..MaxRetries : session[<<q, m>>].phase = "none" => session'[<<q, m>>].phase = "none"
    BY <1>1, <1>2
  <2>2. call[q].attempt \in 0..MaxRetries
    BY CurrentSession DEF IInv
  <2> QED
    BY <1>1, <2>1, <2>2 DEF Counted, Fresh
<1>4. Committed(q)' = Committed(q)
  BY <1>1, <1>2 DEF Committed
<1> QED
  BY <1>1, <1>3, <1>4 DEF Counted

LEMMA InitCounted == Init => \A q \in Requests : Counted(q)
<1> SUFFICES ASSUME Init, NEW q \in Requests
             PROVE  Counted(q)
  OBVIOUS
<1>1. \A n \in 0..MaxRetries : <<q, n>> \in Sessions
  BY DEF Sessions
<1>2. \A n \in 0..MaxRetries : session[<<q, n>>].phase = "none"
  BY <1>1 DEF Init
<1>3. call[q].attempt = 0 /\ applied[q] = 0
  BY DEF Init, Store!Init
<1>4. Committed(q) = {}
  BY <1>2 DEF Committed
<1> QED
  BY <1>2, <1>3, <1>4, FS_EmptySet, StorageAssumption DEF Counted, Fresh

LEMMA NextCounted ==
    IInv /\ (\A q \in Requests : Counted(q)) /\ [Next]_vars => (\A q \in Requests : Counted(q))'
<1> SUFFICES ASSUME IInv, \A q \in Requests : Counted(q), [Next]_vars, NEW q \in Requests
             PROVE  Counted(q)'
  OBVIOUS
<1>1. ASSUME NEW r \in Requests, CallStep(r) \/ Fails(r)
      PROVE  Counted(q)'
  <2>1. Attempted(r)
    BY <1>1, StepAttempted DEF IInv, Counted
  <2> QED
    BY <2>1, AttemptedCounts
<1>2. ASSUME NEW t \in Sessions, CommitLands(t) \/ SessionEnds(t)
      PROVE  Counted(q)'
  BY <1>2, CommitCounts, AbortCounts
<1>3. CASE UNCHANGED vars
  BY <1>3 DEF vars, storeVars, Counted, Fresh, Committed
<1> QED
  BY <1>1, <1>2, <1>3 DEF Next

LEMMA AllCounted == Spec => []\A q \in Requests : Counted(q)
BY InitCounted, NextCounted, Invariance, PTL DEF Spec

\* A call, a single upsert too, is applied once at most for each attempt it has
\* begun, however late its commits land (retry.Do repeats an attempt only when
\* the one before has failed).
THEOREM PgOncePerAttempt == Spec => [](\A r \in Requests : applied[r] <= call[r].attempt + 1)
<1>1. IInv /\ (\A q \in Requests : Counted(q)) =>
          \A r \in Requests : applied[r] <= call[r].attempt + 1
  <2> SUFFICES ASSUME IInv, NEW r \in Requests, Counted(r)
               PROVE  applied[r] <= call[r].attempt + 1
    OBVIOUS
  <2>1. call[r].attempt \in 0..MaxRetries /\ MaxRetries \in Nat
    BY CurrentSession, StorageAssumption DEF IInv
  <2>2. Committed(r) \subseteq 0..call[r].attempt
    <3>1. \A n \in 0..MaxRetries : n > call[r].attempt => session[<<r, n>>].phase # "committed"
      BY DEF Counted, Fresh
    <3> QED
      BY <2>1, <3>1 DEF Committed
  <2>3. IsFiniteSet(0..call[r].attempt) /\ Cardinality(0..call[r].attempt) = call[r].attempt + 1
    <3> DEFINE k == call[r].attempt
    <3>1. 0 \in Int /\ k \in Int /\ ~(0 > k)
      BY <2>1
    <3> HIDE DEF k
    <3>2. IsFiniteSet(0..k) /\ Cardinality(0..k) = k - 0 + 1
      BY <3>1, FS_Interval
    <3> QED
      BY <3>1, <3>2 DEF k
  <2>4. Cardinality(Committed(r)) <= Cardinality(0..call[r].attempt)
    BY <2>2, <2>3, FS_Subset
  <2> QED
    BY <2>3, <2>4 DEF Counted
<1> QED
  BY <1>1, Invariance, AllCounted, PTL

\* The variables hold what they are meant to: the table has counters and gauges
\* only, the gauges with values that clients sent; a call is applied once at most
\* for each attempt, and no session has done more rows than it has.
THEOREM PgTypeOK == Spec => []TypeOK
<1>1. Standing /\ (\A q \in Requests : Counted(q)) => TypeOK
  <2> SUFFICES ASSUME Standing, \A q \in Requests : Counted(q)
               PROVE  TypeOK
    OBVIOUS
  <2>1. Typed /\ \A q \in Requests : Steady(q)
    BY DEF Standing, IInv
  <2>2. \A k \in DOMAIN rows :
           /\ k[1] \in {"counter", "gauge"}
           /\ rows[k] \in IF k[1] = "counter" THEN Int ELSE Amounts
    BY DEF Standing, Rowed
  <2>3. applied \in [Requests -> 0..MaxRetries + 1]
    BY <2>1, CommittedOnceEach DEF Typed, Counted
  <2>4. \A r \in Requests : call[r].phase \in CallPhases /\ call[r].attempt \in 0..MaxRetries
    BY <2>1 DEF Typed, CallState
  <2>5. ASSUME NEW t \in Sessions
        PROVE  session[t].phase \in SessionPhases /\ session[t].done \in 0..Len(Rows(t))
    BY <2>1, SteadySession DEF Typed, SessionState
  <2> QED
    BY <2>1, <2>2, <2>3, <2>4, <2>5 DEF TypeOK, Typed, CallPhases, SessionPhases
<1> QED
  BY <1>1, AllStanding, AllCounted, PTL
=============================================================================
