---------------------------- MODULE ReportLedger ----------------------------
(***************************************************************************)
(* What the agent promises about its poll counter, whatever the workers,   *)
(* the retries and the network do.  PollCount is incremented once per      *)
(* poll of the runtime; this module follows every single increment (a      *)
(* poll, numbered from one) instead of their sum.  A poll is waiting in    *)
(* the accumulator, carried by a batch, or confirmed by a 2xx answer, and  *)
(* it is confirmed only if the server has added it to its total.           *)
(***************************************************************************)
EXTENDS Integers

CONSTANT MaxPolls        \* bound: how many polls are made

VARIABLES accumulated,   \* polls waiting for the next report
          carried,       \* polls in a batch some goroutine is holding
          confirmed,     \* polls whose batch was answered with a 2xx
          counted        \* polls the server has added to its total at least once

ledgerVars == <<accumulated, carried, confirmed, counted>>

Known == accumulated \cup carried \cup confirmed

LedgerInit ==
    /\ accumulated = {}
    /\ carried = {}
    /\ confirmed = {}
    /\ counted = {}

\* A poll is made.
Record ==
    /\ \E p \in 1..MaxPolls :
         /\ p \notin Known
         /\ accumulated' = accumulated \cup {p}
    /\ UNCHANGED <<carried, confirmed, counted>>

\* A report takes everything that is waiting.
TakeAll ==
    /\ carried' = carried \cup accumulated
    /\ accumulated' = {}
    /\ UNCHANGED <<confirmed, counted>>

\* A batch that was given up on goes back as a whole.
HandBack ==
    /\ \E S \in SUBSET carried :
         /\ carried' = carried \ S
         /\ accumulated' = accumulated \cup S
    /\ UNCHANGED <<confirmed, counted>>

\* The server stores a batch, perhaps not for the first time, perhaps long
\* after the agent gave up on it.
Count ==
    /\ \E S \in SUBSET Known : counted' = counted \cup S
    /\ UNCHANGED <<accumulated, carried, confirmed>>

\* A 2xx answer: only for a batch that was stored.
Confirm ==
    /\ \E S \in SUBSET (carried \cap counted) :
         /\ carried' = carried \ S
         /\ confirmed' = confirmed \cup S
    /\ UNCHANGED <<accumulated, counted>>

LedgerNext == Record \/ TakeAll \/ HandBack \/ Count \/ Confirm

LedgerSpec == LedgerInit /\ [][LedgerNext]_ledgerVars
=============================================================================
