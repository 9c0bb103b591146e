---------------------------- MODULE SolanaPayments ----------------------------
(***************************************************************************)
(* The Solana client for Venice top-ups (solana-x402-service/src): pay and *)
(* reconcile of payments.mjs over the SQLite journal of store.mjs.  Each   *)
(* command is a process of its own; processes of one wallet share the      *)
(* journal and interleave wherever one awaits Venice or the RPC node, and  *)
(* any of them may be killed.  A quote is paid by one signed transaction   *)
(* at most, named here by the quote; Other is any transaction but these.   *)
(***************************************************************************)
EXTENDS Integers

CONSTANTS
  Quotes,      \* quotes of the wallet, each shown and approved by hash
  Processes,
  Other,       \* somebody else's transaction
  Nothing      \* SQL NULL

ASSUME SolanaAssumption == Other \notin Quotes /\ Nothing \notin Quotes \cup {Other}

VARIABLES
  state,        \* attempts.state, "none" without a row
  transaction,  \* attempts.transaction_id
  expired,      \* quotes past their five minutes
  pc, job,      \* each process: where it is, its quote
  signature,    \* the signature it verifies
  proof,        \* what the node answered
  submissions,  \* how often the payment of a quote was sent to Venice
  chain         \* what became of it on chain

rowVars == <<state, transaction>>
procVars == <<pc, job, signature, proof>>
clientVars == <<rowVars, expired, procVars, submissions, chain>>

States == {"none", "sending", "uncertain", "confirmed", "failed"}
Signatures == Quotes \cup {Other}

ClientInit ==
  /\ state = [q \in Quotes |-> "none"]
  /\ transaction = [q \in Quotes |-> Nothing]
  /\ expired = {}
  /\ pc = [p \in Processes |-> "idle"]
  /\ job = [p \in Processes |-> Nothing]
  /\ signature = [p \in Processes |-> Nothing]
  /\ proof = [p \in Processes |-> "none"]
  /\ submissions = [q \in Quotes |-> 0]
  /\ chain = [q \in Quotes |-> "pending"]

Proceed(p, s) == pc' = [pc EXCEPT ![p] = s] /\ UNCHANGED <<job, signature, proof>>
Leave(p) ==
  /\ pc' = [pc EXCEPT ![p] = "idle"]
  /\ job' = [job EXCEPT ![p] = Nothing]
  /\ signature' = [signature EXCEPT ![p] = Nothing]
  /\ proof' = [proof EXCEPT ![p] = "none"]

\* unresolved, and the condition of the index one_unresolved_per_payer
Unresolved_NotSending(q) == state[q] = "uncertain"   \* a mutant
Unresolved(q) == state[q] \in {"sending", "uncertain"}
OtherUnresolved(q) == \E r \in Quotes \ {q} : Unresolved(r)

\* pay, up to its first await
PayBegin(p, q) ==
  /\ pc[p] = "idle"
  /\ q \notin expired
  /\ state[q] = "none" /\ ~OtherUnresolved(q)
  /\ pc' = [pc EXCEPT ![p] = "building"]
  /\ job' = [job EXCEPT ![p] = q]
  /\ UNCHANGED <<rowVars, expired, signature, proof, submissions, chain>>

\* The terms changed, the funds do not suffice, the build fails, the quote
\* expired on the way.
PayRefused(p) ==
  /\ pc[p] = "building"
  /\ Leave(p)
  /\ UNCHANGED <<rowVars, expired, submissions, chain>>

\* validateQuote and claim: a row, if there is none and no other unresolved one
ClaimRow_NotCommitted(p) ==   \* a mutant: the row is not on file
  /\ pc[p] = "building" /\ job[p] \notin expired
  /\ state[job[p]] = "none" /\ ~OtherUnresolved(job[p])
  /\ Proceed(p, "submitting")
  /\ UNCHANGED <<rowVars, expired, submissions, chain>>
ClaimRow(p) ==
  /\ pc[p] = "building" /\ job[p] \notin expired
  /\ state[job[p]] = "none" /\ ~OtherUnresolved(job[p])
  /\ state' = [state EXCEPT ![job[p]] = "sending"]
  /\ Proceed(p, "submitting")
  /\ UNCHANGED <<transaction, expired, submissions, chain>>

\* venice.submit: the request goes out
Submit(p) ==
  /\ pc[p] = "submitting"
  /\ submissions' = [submissions EXCEPT ![job[p]] = @ + 1]
  /\ Proceed(p, "awaiting")
  /\ UNCHANGED <<rowVars, expired, chain>>

\* Venice broadcasts the transaction, or not (external)
LandPayment(q) ==
  /\ submissions[q] > 0 /\ chain[q] = "pending"
  /\ \E outcome \in {"ok", "err"} : chain' = [chain EXCEPT ![q] = outcome]
  /\ UNCHANGED <<rowVars, expired, procVars, submissions>>

\* update: whatever the row says; the index refuses a second unresolved row,
\* which the command reports as an unexpected error
Update(q, s, t) ==
  IF s = "uncertain" /\ OtherUnresolved(q)
  THEN UNCHANGED rowVars
  ELSE /\ state' = [state EXCEPT ![q] = s]
       /\ transaction' = IF t = Nothing THEN transaction ELSE [transaction EXCEPT ![q] = t]

\* pay, after the submission: no response, or none with a receipt
ResponseLost_Retries(p) ==   \* a mutant: sent again
  /\ pc[p] = "awaiting"
  /\ Update(job[p], "uncertain", Nothing)
  /\ Proceed(p, "submitting")
  /\ UNCHANGED <<expired, submissions, chain>>
ResponseLost(p) ==
  /\ pc[p] = "awaiting"
  /\ Update(job[p], "uncertain", Nothing)
  /\ Leave(p)
  /\ UNCHANGED <<expired, submissions, chain>>

\* ... or a receipt naming a transaction, which is reconciled at once, unless
\* the update was refused or the row is not open any more
Receipt(p) ==
  /\ pc[p] = "awaiting"
  /\ \E t \in {job[p], Other} :
       /\ Update(job[p], "uncertain", t)
       /\ \/ /\ ~OtherUnresolved(job[p])
             /\ pc' = [pc EXCEPT ![p] = "verifying"]
             /\ signature' = [signature EXCEPT ![p] = t]
             /\ UNCHANGED <<job, proof>>
          \/ OtherUnresolved(job[p]) /\ Leave(p)
  /\ UNCHANGED <<expired, submissions, chain>>

\* reconcile, with a signature from the history or the recorded one, up to the
\* question to the node; a resolved row is only shown and a missing one refused
ReconcileBegin(p, q, t) ==
  /\ pc[p] = "idle"
  /\ Unresolved(q)
  /\ pc' = [pc EXCEPT ![p] = "verifying"]
  /\ job' = [job EXCEPT ![p] = q]
  /\ signature' = [signature EXCEPT ![p] = t]
  /\ UNCHANGED <<rowVars, expired, proof, submissions, chain>>

\* chain.verify: not found, or found and the same message, else an error
Found_AnyMessage(p) == chain[job[p]] # "pending" \/ signature[p] = Other   \* a mutant
Found(p) == signature[p] = job[p] /\ chain[job[p]] # "pending"
Verify(p) ==
  /\ pc[p] = "verifying"
  /\ \E r \in {"uncertain", "confirmed", "failed"} :
       /\ r # "uncertain" => Found(p)
       /\ r = "confirmed" => chain[job[p]] # "err"
       /\ r = "failed" => chain[job[p]] # "ok"
       /\ proof' = [proof EXCEPT ![p] = r]
  /\ pc' = [pc EXCEPT ![p] = "writing"]
  /\ UNCHANGED <<rowVars, expired, job, signature, submissions, chain>>
VerifyRaises(p) ==
  /\ pc[p] = "verifying"
  /\ Leave(p)
  /\ UNCHANGED <<rowVars, expired, submissions, chain>>

\* update with the proof, over whatever the row has become since
WriteProof_NewState(p) ==   \* a mutant: a state the table does not allow
  /\ pc[p] = "writing"
  /\ state' = [state EXCEPT ![job[p]] = "expired"]
  /\ Leave(p)
  /\ UNCHANGED <<transaction, expired, submissions, chain>>
WriteProof(p) ==
  /\ pc[p] = "writing"
  /\ Update(job[p], proof[p], signature[p])
  /\ Leave(p)
  /\ UNCHANGED <<expired, submissions, chain>>

Expire(q) ==
  /\ q \notin expired
  /\ expired' = expired \cup {q}
  /\ UNCHANGED <<rowVars, procVars, submissions, chain>>

\* A process is killed.
Kill(p) ==
  /\ pc[p] # "idle"
  /\ Leave(p)
  /\ UNCHANGED <<rowVars, expired, submissions, chain>>

Process(p) ==
  \/ PayRefused(p) \/ ClaimRow(p) \/ Submit(p) \/ ResponseLost(p) \/ Receipt(p)
  \/ Verify(p) \/ VerifyRaises(p) \/ WriteProof(p) \/ Kill(p)

ClientNext ==
  \/ \E p \in Processes :
       \/ Process(p)
       \/ \E q \in Quotes : PayBegin(p, q) \/ \E t \in Signatures : ReconcileBegin(p, q, t)
  \/ \E q \in Quotes : LandPayment(q) \/ Expire(q)

ClientSpec == ClientInit /\ [][ClientNext]_clientVars
-----------------------------------------------------------------------------
ClientTypeOK ==
  /\ state \in [Quotes -> States]
  /\ transaction \in [Quotes -> Signatures \cup {Nothing}]
  /\ expired \subseteq Quotes
  /\ pc \in [Processes -> {"idle", "building", "submitting", "awaiting", "verifying", "writing"}]
  /\ job \in [Processes -> Quotes \cup {Nothing}]
  /\ signature \in [Processes -> Signatures \cup {Nothing}]
  /\ proof \in [Processes -> {"none", "uncertain", "confirmed", "failed"}]
  /\ submissions \in [Quotes -> Nat]
  /\ chain \in [Quotes -> {"pending", "ok", "err"}]

\* "A second pay for the same order is prohibited": the payment of a quote is
\* submitted once, over all processes, kills and restarts.
SubmittedOnce == \A q \in Quotes : submissions[q] <= 1

\* "The client records the attempt before submission": whatever was sent is in
\* the journal, wherever the process was killed.
SubmittedIsOnFile == \A q \in Quotes : submissions[q] > 0 => state[q] # "none"

\* A resolved row tells what happened on chain: no other transaction and no
\* late answer can resolve it wrongly.
ResolvedIsTrue ==
  \A q \in Quotes :
    /\ state[q] = "confirmed" => chain[q] = "ok"
    /\ state[q] = "failed" => chain[q] = "err"

\* "An uncertain payment blocks further top-ups": when a payment is sent, what
\* became of every earlier one is settled on chain.
SentAfterProof ==
  [][\A q, r \in Quotes :
        submissions'[q] > submissions[q] /\ q # r /\ submissions[r] > 0 => chain[r] # "pending"]_clientVars

\* "A previously confirmed receipt is not downgraded" (payments.test.mjs).
ConfirmedIsFinal ==
  [][\A q \in Quotes : state[q] = "confirmed" => state'[q] = "confirmed"]_clientVars
=============================================================================
