----------------------------- MODULE VeniceProofs -----------------------------
(***************************************************************************)
(* What is paid to Venice: the client that sends the payment               *)
(* (SolanaPayments, for any number of quotes and processes), then the chat *)
(* that decides to send it (ChatCredit, for any number of messages and any *)
(* clock).                                                                 *)
(*                                                                         *)
(* The client's invariant ties each process to the journal and the chain:  *)
(* one row is unresolved at a time, the process about to submit holds it   *)
(* and has not submitted, and a proof about to be written is what the      *)
(* chain says.                                                             *)
(*                                                                         *)
(* The chat prefunds once at a time, to an approved address, booked within *)
(* the cap.  The claim carries the money argument.  A message that read    *)
(* the row under its claim knows the room that is left, and nothing is     *)
(* booked until it books: the others hold no claim, midnight only makes    *)
(* room and a new policy only raises the largest cap.                      *)
(***************************************************************************)
EXTENDS ChatCredit, SolanaPayments, FiniteSetTheorems, TLAPS

(***************************************************************************)
(* The client                                                              *)
(***************************************************************************)

OneUnresolved == \A q, r \in Quotes : Unresolved(q) /\ Unresolved(r) => q = r

\* Nothing is on chain that was not submitted.
ChainFromSubmission == \A q \in Quotes : submissions[q] = 0 => chain[q] = "pending"

\* What a process at each step may rely on.
Working ==
  \A p \in Processes :
    /\ pc[p] # "idle" => job[p] \in Quotes
    /\ pc[p] = "submitting" => submissions[job[p]] = 0 /\ Unresolved(job[p])
    /\ pc[p] \in {"awaiting", "verifying", "writing"} => state[job[p]] # "none"
    /\ pc[p] \in {"verifying", "writing"} => signature[p] \in Signatures
    /\ pc[p] = "writing" =>
         /\ proof[p] # "none"
         /\ proof[p] = "confirmed" => chain[job[p]] = "ok"
         /\ proof[p] = "failed" => chain[job[p]] = "err"

OneSender ==
  \A p, o \in Processes :
    pc[p] = "submitting" /\ pc[o] = "submitting" /\ job[p] = job[o] => p = o

ClientInv ==
  /\ ClientTypeOK
  /\ OneUnresolved /\ ChainFromSubmission /\ Working /\ OneSender
  /\ SubmittedOnce /\ SubmittedIsOnFile /\ ResolvedIsTrue

\* An update keeps the journal true as long as what it writes is.
LEMMA UpdateLemma ==
  ASSUME ClientInv, NEW q \in Quotes, NEW s \in {"uncertain", "confirmed", "failed"},
         NEW t \in Signatures \cup {Nothing},
         Update(q, s, t), UNCHANGED chain,
         state[q] # "none",
         s = "confirmed" => chain[q] = "ok",
         s = "failed" => chain[q] = "err"
  PROVE  /\ state' \in [Quotes -> States]
         /\ transaction' \in [Quotes -> Signatures \cup {Nothing}]
         /\ OneUnresolved' /\ ResolvedIsTrue'
         /\ \A r \in Quotes : state[r] # "none" => state'[r] # "none"
         /\ \A r \in Quotes : Unresolved(r) /\ chain[r] = "pending" => Unresolved(r)'
<1> USE DEF ClientInv
<1>1. CASE s = "uncertain" /\ OtherUnresolved(q)
  <2>1. UNCHANGED rowVars
    BY <1>1 DEF Update
  <2> QED
    BY <2>1 DEF rowVars, ClientTypeOK, OneUnresolved, Unresolved, ResolvedIsTrue
<1>2. CASE ~(s = "uncertain" /\ OtherUnresolved(q))
  <2>1. /\ state' = [state EXCEPT ![q] = s]
        /\ transaction' = IF t = Nothing THEN transaction ELSE [transaction EXCEPT ![q] = t]
    BY <1>2 DEF Update
  <2>2. state' \in [Quotes -> States] /\ transaction' \in [Quotes -> Signatures \cup {Nothing}]
    BY <2>1 DEF ClientTypeOK, States
  <2>3. \A r \in Quotes : state'[r] = IF r = q THEN s ELSE state[r]
    BY <2>1 DEF ClientTypeOK
  <2>4. OneUnresolved'
    BY <1>2, <2>3 DEF OneUnresolved, Unresolved, OtherUnresolved
  <2>5. ResolvedIsTrue'
    BY <2>3 DEF ResolvedIsTrue
  <2>6. \A r \in Quotes : Unresolved(r) /\ chain[r] = "pending" => Unresolved(r)'
    BY <2>3 DEF Unresolved
  <2> QED
    BY <2>2, <2>3, <2>4, <2>5, <2>6
<1> QED
  BY <1>1, <1>2

\* What a process may rely on survives an update by another.
LEMMA OthersKeepWorking ==
  ASSUME ClientInv, NEW p \in Processes,
         pc' \in [Processes -> {"idle", "building", "submitting", "awaiting", "verifying", "writing"}],
         job' \in [Processes -> Quotes \cup {Nothing}],
         \A o \in Processes \ {p} :
           /\ pc'[o] = pc[o] /\ job'[o] = job[o]
           /\ signature'[o] = signature[o] /\ proof'[o] = proof[o],
         UNCHANGED <<submissions, chain>>,
         \A r \in Quotes : state[r] # "none" => state'[r] # "none",
         \A r \in Quotes : Unresolved(r) /\ chain[r] = "pending" => Unresolved(r)',
         NEW o \in Processes \ {p}
  PROVE  /\ pc'[o] # "idle" => job'[o] \in Quotes
         /\ pc'[o] = "submitting" => submissions'[job'[o]] = 0 /\ Unresolved(job[o])'
         /\ pc'[o] \in {"awaiting", "verifying", "writing"} => state'[job'[o]] # "none"
         /\ pc'[o] \in {"verifying", "writing"} => signature'[o] \in Signatures
         /\ pc'[o] = "writing" =>
              /\ proof'[o] # "none"
              /\ proof'[o] = "confirmed" => chain'[job'[o]] = "ok"
              /\ proof'[o] = "failed" => chain'[job'[o]] = "err"
<1>1. /\ pc[o] # "idle" => job[o] \in Quotes
      /\ pc[o] = "submitting" => submissions[job[o]] = 0 /\ Unresolved(job[o])
      /\ pc[o] \in {"awaiting", "verifying", "writing"} => state[job[o]] # "none"
      /\ pc[o] \in {"verifying", "writing"} => signature[o] \in Signatures
      /\ pc[o] = "writing" =>
           /\ proof[o] # "none"
           /\ proof[o] = "confirmed" => chain[job[o]] = "ok"
           /\ proof[o] = "failed" => chain[job[o]] = "err"
  BY DEF ClientInv, Working
<1>2. pc[o] = "submitting" => chain[job[o]] = "pending"
  BY <1>1 DEF ClientInv, ChainFromSubmission
<1>3. pc[o] = "submitting" => Unresolved(job[o])'
  BY <1>1, <1>2 DEF Unresolved
<1> QED
  BY <1>1, <1>3

LEMMA ClientInitially == ClientInit => ClientInv
BY SolanaAssumption
   DEF ClientInit, ClientInv, ClientTypeOK, States, Signatures, OneUnresolved, Unresolved, ChainFromSubmission,
       Working, OneSender, SubmittedOnce, SubmittedIsOnFile, ResolvedIsTrue

\* Steps that move one process and leave the journal, the submissions and the
\* chain alone; it ends idle or building.
LEMMA ProcessMoves ==
  ASSUME ClientInv, NEW p \in Processes,
         UNCHANGED <<rowVars, submissions, chain>>,
         expired' \subseteq Quotes,
         \/ Leave(p)
         \/ /\ pc' = [pc EXCEPT ![p] = "building"]
            /\ \E q \in Quotes : job' = [job EXCEPT ![p] = q]
            /\ UNCHANGED <<signature, proof>>
  PROVE  ClientInv'
<1> USE DEF ClientInv, rowVars
<1>1. ClientTypeOK'
  BY SMTT(30) DEF Leave, ClientTypeOK
<1>2. pc'[p] \in {"idle", "building"} /\ (pc'[p] # "idle" => job'[p] \in Quotes)
  BY DEF Leave, ClientTypeOK
<1>3. \A o \in Processes \ {p} :
        /\ pc'[o] = pc[o] /\ job'[o] = job[o]
        /\ signature'[o] = signature[o] /\ proof'[o] = proof[o]
  BY DEF Leave, ClientTypeOK
<1>4. Working'
  BY <1>2, <1>3 DEF Working, Unresolved
<1>5. OneSender'
  BY <1>2, <1>3 DEF OneSender
<1> QED
  BY <1>1, <1>4, <1>5
     DEF OneUnresolved, Unresolved, ChainFromSubmission, SubmittedOnce, SubmittedIsOnFile,
         ResolvedIsTrue

\* Steps that update the row of the process's own quote and end idle or verifying.
LEMMA Updates ==
  ASSUME ClientInv, NEW p \in Processes, pc[p] \in {"awaiting", "writing"},
         NEW s \in {"uncertain", "confirmed", "failed"},
         NEW t \in Signatures \cup {Nothing},
         s = "confirmed" => chain[job[p]] = "ok",
         s = "failed" => chain[job[p]] = "err",
         Update(job[p], s, t),
         UNCHANGED <<expired, submissions, chain>>,
         \/ Leave(p)
         \/ /\ pc' = [pc EXCEPT ![p] = "verifying"]
            /\ t # Nothing /\ signature' = [signature EXCEPT ![p] = t]
            /\ UNCHANGED <<job, proof>>
  PROVE  ClientInv'
<1>1. job[p] \in Quotes /\ state[job[p]] # "none"
  BY DEF ClientInv, Working
<1>2. /\ state' \in [Quotes -> States]
      /\ transaction' \in [Quotes -> Signatures \cup {Nothing}]
      /\ OneUnresolved' /\ ResolvedIsTrue'
      /\ \A r \in Quotes : state[r] # "none" => state'[r] # "none"
      /\ \A r \in Quotes : Unresolved(r) /\ chain[r] = "pending" => Unresolved(r)'
  BY <1>1, UpdateLemma
<1>3. ClientTypeOK'
  BY <1>2, SMTT(30) DEF ClientInv, ClientTypeOK, Leave
<1>4. /\ pc'[p] \in {"idle", "verifying"}
      /\ pc'[p] = "verifying" => job'[p] = job[p] /\ signature'[p] \in Signatures
  BY DEF Leave, ClientInv, ClientTypeOK
<1>5. \A o \in Processes \ {p} :
        /\ pc'[o] = pc[o] /\ job'[o] = job[o]
        /\ signature'[o] = signature[o] /\ proof'[o] = proof[o]
  BY DEF Leave, ClientInv, ClientTypeOK
<1>6. Working'
  <2>1. SUFFICES ASSUME NEW o \in Processes
                 PROVE  /\ pc'[o] # "idle" => job'[o] \in Quotes
                        /\ pc'[o] = "submitting" => submissions'[job'[o]] = 0 /\ Unresolved(job[o])'
                        /\ pc'[o] \in {"awaiting", "verifying", "writing"} => state'[job'[o]] # "none"
                        /\ pc'[o] \in {"verifying", "writing"} => signature'[o] \in Signatures
                        /\ pc'[o] = "writing" =>
                             /\ proof'[o] # "none"
                             /\ proof'[o] = "confirmed" => chain'[job'[o]] = "ok"
                             /\ proof'[o] = "failed" => chain'[job'[o]] = "err"
    BY DEF Working
  <2>2. CASE o = p
    BY <2>2, <1>1, <1>2, <1>4
  <2>3. CASE o # p
    BY <2>3, <1>2, <1>3, <1>5, OthersKeepWorking DEF ClientTypeOK
  <2> QED
    BY <2>2, <2>3
<1>7. OneSender'
  BY <1>4, <1>5 DEF ClientInv, OneSender
<1> QED
  BY <1>2, <1>3, <1>6, <1>7
     DEF ClientInv, ChainFromSubmission, SubmittedOnce, SubmittedIsOnFile

LEMMA ClaimKeepsInv == ASSUME ClientInv, NEW p \in Processes, ClaimRow(p) PROVE ClientInv'
<1> DEFINE q == job[p]
<1> USE DEF ClientInv
<1>1. q \in Quotes /\ state[q] = "none" /\ ~OtherUnresolved(q) /\ submissions[q] = 0
  BY DEF ClaimRow, Working, SubmittedIsOnFile, ClientTypeOK
<1>2. /\ pc' = [pc EXCEPT ![p] = "submitting"]
      /\ state' = [state EXCEPT ![q] = "sending"]
      /\ UNCHANGED <<transaction, expired, job, signature, proof, submissions, chain>>
  BY DEF ClaimRow, Proceed
<1>3. \A r \in Quotes : state'[r] = IF r = q THEN "sending" ELSE state[r]
  BY <1>1, <1>2 DEF ClientTypeOK
<1>4. \A o \in Processes : pc'[o] = IF o = p THEN "submitting" ELSE pc[o]
  BY <1>2 DEF ClientTypeOK
<1>5. ClientTypeOK'
  BY <1>1, <1>2 DEF ClientTypeOK, States
<1>6. OneUnresolved'
  BY <1>1, <1>3 DEF OneUnresolved, Unresolved, OtherUnresolved
<1>7. Working'
  BY <1>1, <1>2, <1>3, <1>4 DEF Working, Unresolved
<1>8. OneSender'
  BY <1>1, <1>2, <1>4 DEF OneSender, Working, Unresolved
<1> QED
  BY <1>1, <1>2, <1>3, <1>5, <1>6, <1>7, <1>8
     DEF ChainFromSubmission, SubmittedOnce, SubmittedIsOnFile, ResolvedIsTrue

LEMMA SubmitKeepsInv == ASSUME ClientInv, NEW p \in Processes, Submit(p) PROVE ClientInv'
<1> DEFINE q == job[p]
<1> USE DEF ClientInv
<1>1. q \in Quotes /\ submissions[q] = 0 /\ Unresolved(q)
  BY DEF Submit, Working
<1>2. /\ pc' = [pc EXCEPT ![p] = "awaiting"]
      /\ submissions' = [submissions EXCEPT ![q] = submissions[q] + 1]
      /\ UNCHANGED <<rowVars, expired, job, signature, proof, chain>>
  BY DEF Submit, Proceed
<1>3. \A r \in Quotes : submissions'[r] = IF r = q THEN 1 ELSE submissions[r]
  BY <1>1, <1>2 DEF ClientTypeOK
<1>4. \A o \in Processes : pc'[o] = IF o = p THEN "awaiting" ELSE pc[o]
  BY <1>2 DEF ClientTypeOK
<1>5. ClientTypeOK'
  BY <1>1, <1>2 DEF ClientTypeOK, rowVars
<1>6. \A o \in Processes \ {p} : pc[o] = "submitting" => job[o] # q
  BY DEF OneSender, Submit
<1>7. Working'
  BY <1>1, <1>2, <1>3, <1>4, <1>6 DEF Working, Unresolved, rowVars
<1>8. OneSender'
  BY <1>2, <1>4 DEF OneSender
<1> QED
  BY <1>1, <1>2, <1>3, <1>5, <1>7, <1>8
     DEF OneUnresolved, Unresolved, ChainFromSubmission, SubmittedOnce, SubmittedIsOnFile,
         ResolvedIsTrue, rowVars

LEMMA VerifyKeepsInv == ASSUME ClientInv, NEW p \in Processes, Verify(p) PROVE ClientInv'
<1> USE DEF ClientInv
<1>1. job[p] \in Quotes /\ state[job[p]] # "none" /\ signature[p] \in Signatures
  BY DEF Verify, Working
<1>2. PICK r \in {"uncertain", "confirmed", "failed"} :
        /\ r # "uncertain" => Found(p)
        /\ r = "confirmed" => chain[job[p]] # "err"
        /\ r = "failed" => chain[job[p]] # "ok"
        /\ proof' = [proof EXCEPT ![p] = r]
  BY DEF Verify
<1>3. /\ r = "confirmed" => chain[job[p]] = "ok"
      /\ r = "failed" => chain[job[p]] = "err"
  BY <1>1, <1>2 DEF Found, ClientTypeOK
<1>4. /\ pc' = [pc EXCEPT ![p] = "writing"]
      /\ UNCHANGED <<rowVars, expired, job, signature, submissions, chain>>
  BY DEF Verify
<1>5. \A o \in Processes :
        /\ pc'[o] = IF o = p THEN "writing" ELSE pc[o]
        /\ proof'[o] = IF o = p THEN r ELSE proof[o]
  BY <1>2, <1>4 DEF ClientTypeOK
<1>6. ClientTypeOK'
  BY <1>2, <1>4 DEF ClientTypeOK, rowVars
<1>7. Working'
  BY <1>1, <1>3, <1>4, <1>5 DEF Working, Unresolved, rowVars
<1>8. OneSender'
  BY <1>4, <1>5 DEF OneSender
<1> QED
  BY <1>4, <1>6, <1>7, <1>8
     DEF OneUnresolved, Unresolved, ChainFromSubmission, SubmittedOnce, SubmittedIsOnFile,
         ResolvedIsTrue, rowVars

LEMMA ReconcileKeepsInv ==
  ASSUME ClientInv, NEW p \in Processes, NEW q \in Quotes, NEW t \in Signatures,
         ReconcileBegin(p, q, t)
  PROVE  ClientInv'
<1> USE DEF ClientInv
<1>1. /\ Unresolved(q)
      /\ pc' = [pc EXCEPT ![p] = "verifying"]
      /\ job' = [job EXCEPT ![p] = q]
      /\ signature' = [signature EXCEPT ![p] = t]
      /\ UNCHANGED <<rowVars, expired, proof, submissions, chain>>
  BY DEF ReconcileBegin
<1>2. \A o \in Processes :
        /\ pc'[o] = IF o = p THEN "verifying" ELSE pc[o]
        /\ job'[o] = IF o = p THEN q ELSE job[o]
        /\ signature'[o] = IF o = p THEN t ELSE signature[o]
  BY <1>1 DEF ClientTypeOK
<1>3. ClientTypeOK'
  BY <1>1 DEF ClientTypeOK, rowVars
<1>4. Working'
  BY <1>1, <1>2 DEF Working, Unresolved, rowVars
<1>5. OneSender'
  BY <1>2 DEF OneSender
<1> QED
  BY <1>1, <1>3, <1>4, <1>5
     DEF OneUnresolved, Unresolved, ChainFromSubmission, SubmittedOnce, SubmittedIsOnFile,
         ResolvedIsTrue, rowVars

LEMMA LandKeepsInv == ASSUME ClientInv, NEW q \in Quotes, LandPayment(q) PROVE ClientInv'
<1> USE DEF ClientInv
<1>1. PICK outcome \in {"ok", "err"} : chain' = [chain EXCEPT ![q] = outcome]
  BY DEF LandPayment
<1>2. /\ submissions[q] > 0 /\ chain[q] = "pending"
      /\ UNCHANGED <<rowVars, expired, procVars, submissions>>
  BY DEF LandPayment
<1>3. \A r \in Quotes : chain'[r] = IF r = q THEN outcome ELSE chain[r]
  BY <1>1 DEF ClientTypeOK
<1>4. ClientTypeOK'
  BY <1>1, <1>2 DEF ClientTypeOK, rowVars, procVars
<1>5. Working'
  BY <1>2, <1>3 DEF Working, Unresolved, rowVars, procVars
<1>6. submissions[q] # 0
  BY <1>2 DEF ClientTypeOK
<1> QED
  BY <1>2, <1>3, <1>4, <1>5, <1>6
     DEF OneUnresolved, Unresolved, ChainFromSubmission, OneSender, SubmittedOnce,
         SubmittedIsOnFile, ResolvedIsTrue, rowVars, procVars

\* Every step of a process keeps the invariant.
LEMMA ProcessKeepsInv == ASSUME ClientInv, NEW p \in Processes, Process(p) PROVE ClientInv'
<1>1. CASE PayRefused(p) \/ VerifyRaises(p) \/ Kill(p)
  BY <1>1, ProcessMoves DEF PayRefused, VerifyRaises, Kill, ClientInv, ClientTypeOK
<1>2. CASE ClaimRow(p)
  BY <1>2, ClaimKeepsInv
<1>3. CASE Submit(p)
  BY <1>3, SubmitKeepsInv
<1>4. CASE ResponseLost(p)
  BY <1>4, Updates DEF ResponseLost
<1>5. CASE Receipt(p)
  <2>1. PICK t \in {job[p], Other} :
          /\ Update(job[p], "uncertain", t)
          /\ \/ /\ ~OtherUnresolved(job[p])
                /\ pc' = [pc EXCEPT ![p] = "verifying"]
                /\ signature' = [signature EXCEPT ![p] = t]
                /\ UNCHANGED <<job, proof>>
             \/ OtherUnresolved(job[p]) /\ Leave(p)
    BY <1>5 DEF Receipt
  <2>2. t \in Signatures /\ t # Nothing
    BY <1>5, SolanaAssumption DEF Receipt, ClientInv, Working, Signatures
  <2>3. pc[p] = "awaiting" /\ UNCHANGED <<expired, submissions, chain>>
    BY <1>5 DEF Receipt
  <2> QED
    BY <2>1, <2>2, <2>3, Updates
<1>6. CASE Verify(p)
  BY <1>6, VerifyKeepsInv
<1>7. CASE WriteProof(p)
  <2>1. /\ pc[p] = "writing" /\ Update(job[p], proof[p], signature[p]) /\ Leave(p)
        /\ UNCHANGED <<expired, submissions, chain>>
    BY <1>7 DEF WriteProof
  <2>2. /\ proof[p] \in {"uncertain", "confirmed", "failed"} /\ signature[p] \in Signatures
        /\ proof[p] = "confirmed" => chain[job[p]] = "ok"
        /\ proof[p] = "failed" => chain[job[p]] = "err"
    BY <2>1 DEF ClientInv, Working, ClientTypeOK
  <2> QED
    BY <2>1, <2>2, Updates
<1> QED
  BY <1>1, <1>2, <1>3, <1>4, <1>5, <1>6, <1>7 DEF Process

LEMMA StepKeepsInv == ClientInv /\ [ClientNext]_clientVars => ClientInv'
<1> SUFFICES ASSUME ClientInv, [ClientNext]_clientVars PROVE ClientInv'
  OBVIOUS
<1>1. ASSUME NEW p \in Processes, Process(p) PROVE ClientInv'
  BY <1>1, ProcessKeepsInv
<1>2. ASSUME NEW p \in Processes, NEW q \in Quotes, PayBegin(p, q) PROVE ClientInv'
  BY <1>2, ProcessMoves DEF PayBegin, ClientInv, ClientTypeOK
<1>3. ASSUME NEW p \in Processes, NEW q \in Quotes, NEW t \in Signatures,
             ReconcileBegin(p, q, t)
      PROVE  ClientInv'
  BY <1>3, ReconcileKeepsInv
<1>4. ASSUME NEW q \in Quotes, LandPayment(q) PROVE ClientInv'
  BY <1>4, LandKeepsInv
<1>5. ASSUME NEW q \in Quotes, Expire(q) PROVE ClientInv'
  BY <1>5
     DEF Expire, ClientInv, ClientTypeOK, OneUnresolved, Unresolved, ChainFromSubmission, Working, OneSender,
         SubmittedOnce, SubmittedIsOnFile, ResolvedIsTrue, rowVars, procVars
<1>6. CASE UNCHANGED clientVars
  BY <1>6
     DEF clientVars, ClientInv, ClientTypeOK, OneUnresolved, Unresolved, ChainFromSubmission, Working, OneSender,
         SubmittedOnce, SubmittedIsOnFile, ResolvedIsTrue, rowVars, procVars
<1> QED
  BY <1>1, <1>2, <1>3, <1>4, <1>5, <1>6 DEF ClientNext

THEOREM ClientInvariance == ClientSpec => []ClientInv
BY ClientInitially, StepKeepsInv, PTL DEF ClientSpec

\* The journal and the processes always have the shape the code gives them.
THEOREM ClientTypeCorrect == ClientSpec => []ClientTypeOK
<1>1. ClientInv => ClientTypeOK
  BY DEF ClientInv
<1> QED
  BY <1>1, ClientInvariance, PTL

\* The payment of a quote goes to Venice once, however many pay commands run.
THEOREM PaidAtMostOnce == ClientSpec => []SubmittedOnce
<1>1. ClientInv => SubmittedOnce
  BY DEF ClientInv
<1> QED
  BY <1>1, ClientInvariance, PTL

\* What was sent is in the journal, wherever a process was killed.
THEOREM EvidenceFirst == ClientSpec => []SubmittedIsOnFile
<1>1. ClientInv => SubmittedIsOnFile
  BY DEF ClientInv
<1> QED
  BY <1>1, ClientInvariance, PTL

\* A confirmed or failed row says what happened on chain.
THEOREM JournalTellsTheTruth == ClientSpec => []ResolvedIsTrue
<1>1. ClientInv => ResolvedIsTrue
  BY DEF ClientInv
<1> QED
  BY <1>1, ClientInvariance, PTL

\* Only Submit sends, and the one unresolved row is then its own: whatever
\* else was sent is resolved, hence on chain.
LEMMA SendingStep ==
  ASSUME ClientInv, NEW p \in Processes, Submit(p)
  PROVE  \A q, r \in Quotes :
           submissions'[q] > submissions[q] /\ q # r /\ submissions[r] > 0 => chain[r] # "pending"
<1> SUFFICES ASSUME NEW q \in Quotes, NEW r \in Quotes,
                    submissions'[q] > submissions[q], q # r, submissions[r] > 0
             PROVE  chain[r] # "pending"
  OBVIOUS
<1>1. q = job[p] /\ Unresolved(q)
  BY DEF Submit, ClientInv, Working, ClientTypeOK
<1>2. state[r] \in {"confirmed", "failed"}
  BY <1>1 DEF ClientInv, ClientTypeOK, States, OneUnresolved, Unresolved, SubmittedIsOnFile
<1> QED
  BY <1>2 DEF ClientInv, ResolvedIsTrue

\* No payment is sent while what became of an earlier one is open.
THEOREM SettledBeforeNext == ClientSpec => SentAfterProof
<1> DEFINE A == \A q, r \in Quotes :
      submissions'[q] > submissions[q] /\ q # r /\ submissions[r] > 0 => chain[r] # "pending"
<1>1. ClientInv /\ [ClientNext]_clientVars => A
  <2> SUFFICES ASSUME ClientInv, [ClientNext]_clientVars PROVE A
    OBVIOUS
  <2>1. CASE \E p \in Processes : Submit(p)
    BY <2>1, SendingStep
  <2>2. CASE ~\E p \in Processes : Submit(p)
    <3>1. UNCHANGED submissions
      BY <2>2
         DEF ClientNext, Process, PayRefused, ClaimRow, ResponseLost, Receipt, Verify, VerifyRaises,
             WriteProof, Kill, PayBegin, ReconcileBegin, LandPayment, Expire, clientVars
    <3> QED
      BY <3>1 DEF ClientInv, ClientTypeOK
  <2> QED
    BY <2>1, <2>2
<1> QED
  BY <1>1, ClientInvariance, PTL DEF ClientSpec, SentAfterProof

(***************************************************************************)
(* The chat                                                                *)
(***************************************************************************)

\* The steps before a message asks for its top-up, and after its claim read the row.
Unpaid == {"new", "consume", "claim", "read", "recheck", "challenge", "bind", "settle"}
Holding == {"recheck", "challenge", "bind", "settle", "settling", "record"}
BookedIn(d) == {m \in Messages : booked[m] = d}

\* Nothing is booked ahead of the row's window, and that not ahead of the clock.
Clocks ==
  /\ row.window <= Window(now)
  /\ \A m \in Messages : booked[m] # Never => booked[m] <= row.window
\* A bound policy was approved, and a message under way saw one.
PolicyApproved ==
  /\ row.bound # NoOne => row.bound \in approvedTo
  /\ row.cap <= topCap
  /\ \A m \in Messages : msg[m].pc \notin {"new", "done"} => row.bound # NoOne
\* The address of a payment was checked before it was sent.
PaidApproved ==
  \A m \in Messages :
    /\ msg[m].pc \in Unpaid => pay[m] = "none"
    /\ msg[m].pc = "settle" \/ pay[m] # "none" => payTo[m] \in approvedTo
\* One claim, and a live one.
OneClaim ==
  /\ \A m, n \in Messages : msg[m].pc \in Claimed /\ msg[n].pc \in Claimed => m = n
  /\ \A m \in Messages : msg[m].pc \in Claimed =>
       row.claimedAt # Never /\ now < row.claimedAt + ClaimTTL
\* The room a message read is still there when it books.
RoomLeft ==
  \A m \in Messages :
    /\ msg[m].pc \in Unpaid \cup {"settling", "record"} => booked[m] = Never
    /\ msg[m].pc \in Holding => row.spent + msg[m].remaining <= topCap
    /\ msg[m].pc \in {"settle", "settling", "record"} => Chunk <= msg[m].remaining
    /\ msg[m].pc = "reconcile" => msg[m].reported \in Nat
\* A day's bookings, and those of the row's window.
Booked ==
  /\ row.spent = Chunk * Cardinality(BookedIn(row.window))
  /\ \A d \in Nat : Chunk * Cardinality(BookedIn(d)) <= topCap

Inv == TypeOK /\ Clocks /\ PolicyApproved /\ PaidApproved /\ OneClaim /\ RoomLeft /\ Booked

USE DEF payVars, worldVars, policyVars, NoPay, Rest, Fine, Fails, At, OFF

LEMMA LargerType ==
  ASSUME NEW b \in Int
  PROVE  Larger(0, b) \in Nat
BY DEF Larger

LEMMA WindowMonotone ==
  ASSUME NEW a \in Nat, NEW b \in Nat, a <= b
  PROVE  Window(a) \in Nat /\ Window(b) \in Nat /\ Window(a) <= Window(b)
BY ChatAssumption DEF Window

LEMMA WindowNow ==
  ASSUME TypeOK
  PROVE  Window(now) \in Nat
<1>1. now \in Nat
  BY DEF TypeOK
<1> QED
  BY <1>1, WindowMonotone, now <= now

LEMMA OneMore ==
  ASSUME NEW a \in Nat, NEW n \in Nat
  PROVE  a * 0 = 0 /\ a * (n + 1) = a * n + a
OBVIOUS

LEMMA Rolled ==
  ASSUME TypeOK, Clocks
  PROVE  /\ RolledOver \in RowType /\ RolledOver.window \in Nat /\ RolledOver.spent \in Nat
         /\ row.window \in Nat /\ row.spent \in Nat /\ Window(now) \in Nat
         /\ row.window <= RolledOver.window /\ RolledOver.window <= Window(now)
         /\ RolledOver.outstanding = row.outstanding /\ RolledOver.paused = row.paused
         /\ RolledOver.bound = row.bound /\ RolledOver.cap = row.cap
         /\ RolledOver.expires = row.expires /\ RolledOver.claimedAt = row.claimedAt
         /\ RolledOver.window = row.window => RolledOver.spent = row.spent
         /\ RolledOver.window # row.window => RolledOver.spent = 0
         /\ RolledOver.spent <= row.spent
<1>1. Window(now) \in Nat
  BY WindowNow
<1>2. row.window \in Nat /\ row.spent \in Nat /\ row.window <= Window(now)
  BY DEF TypeOK, RowType, Clocks
<1>3. row \in RowType
  BY DEF TypeOK
<1>4. CASE row.window >= Window(now)
  <2>1. RolledOver = row
    BY <1>4 DEF RolledOver
  <2>2. RolledOver \in RowType
    BY <1>3, <2>1
  <2> QED
    BY <1>1, <1>2, <1>4, <2>1, <2>2
<1>5. CASE ~(row.window >= Window(now))
  <2> DEFINE rolled == [row EXCEPT !.window = Window(now), !.spent = 0, !.searches = 0]
  <2>1. RolledOver = rolled
    BY <1>5 DEF RolledOver
  <2>2. /\ rolled.window = Window(now) /\ rolled.spent = 0 /\ rolled.outstanding = row.outstanding
        /\ rolled.paused = row.paused /\ rolled.bound = row.bound /\ rolled.cap = row.cap
        /\ rolled.expires = row.expires /\ rolled.claimedAt = row.claimedAt
    BY <1>3 DEF RowType
  <2>3. rolled \in RowType
    BY <1>1, <1>3 DEF RowType
  <2> HIDE DEF rolled
  <2> QED
    BY <1>1, <1>2, <1>5, <2>1, <2>2, <2>3
<1> QED
  BY <1>4, <1>5

\* The bookings of a window that has not begun: none.
LEMMA NoneAhead ==
  ASSUME TypeOK, Clocks, NEW d \in Nat, row.window < d
  PROVE  BookedIn(d) = {}
<1> SUFFICES ASSUME NEW m \in Messages, booked[m] = d PROVE FALSE
  BY DEF BookedIn
<1>1. booked[m] <= row.window
  BY ChatAssumption DEF Clocks
<1>2. row.window \in Nat
  BY DEF TypeOK, RowType
<1> QED
  BY <1>1, <1>2

LEMMA CountType ==
  ASSUME NEW d
  PROVE  IsFiniteSet(BookedIn(d)) /\ Cardinality(BookedIn(d)) \in Nat
<1>1. IsFiniteSet(BookedIn(d))
  BY ChatAssumption, FS_Subset DEF BookedIn
<1> QED
  BY <1>1, FS_CardinalityType

LEMMA BookedKept ==
  ASSUME TypeOK, Clocks, Booked, UNCHANGED booked, topCap <= topCap', topCap' \in Nat,
         \/ row'.window = row.window /\ row'.spent = row.spent
         \/ row'.window = RolledOver.window /\ row'.spent = RolledOver.spent
  PROVE  Booked'
<1> DEFINE count(d) == Cardinality(BookedIn(d))
<1>1. \A d \in Nat : count(d) \in Nat
  BY CountType
<1>2. ASSUME NEW d \in Nat PROVE Chunk * count(d) \in Nat /\ Chunk * count(d) <= topCap'
  <2>1. Chunk * count(d) \in Nat
    BY <1>1, ChatAssumption
  <2>2. Chunk * count(d) <= topCap
    BY DEF Booked
  <2> QED
    BY <2>1, <2>2 DEF TypeOK
<1>3. row'.window \in Nat /\ row.window \in Nat /\ row.window <= row'.window
  BY Rolled
<1>4. row'.spent = Chunk * count(row'.window)
  <2>1. CASE row'.window = row.window
    <3>1. row'.spent = row.spent
      BY <2>1, Rolled
    <3> QED
      BY <2>1, <3>1 DEF Booked
  <2>2. CASE row'.window # row.window
    <3>1. row'.spent = 0 /\ row.window < row'.window
      BY <1>3, <2>2, Rolled
    <3>2. count(row'.window) = 0
      BY <1>3, <3>1, NoneAhead, FS_EmptySet
    <3> QED
      BY <3>1, <3>2, OneMore, ChatAssumption
  <2> QED
    BY <2>1, <2>2
<1>5. \A d : {m \in Messages : booked'[m] = d} = BookedIn(d)
  BY DEF BookedIn
<1> QED
  BY <1>2, <1>4, <1>5 DEF Booked, BookedIn


\* A step of a message that books nothing, pays nothing and claims nothing.
Quiet(m) ==
  /\ msg' \in [Messages -> MsgType] /\ \A n \in Messages \ {m} : msg'[n] = msg[n]
  /\ row' \in RowType /\ row'.bound = row.bound /\ row'.cap = row.cap
  /\ \/ row'.window = row.window /\ row'.spent = row.spent
     \/ row'.window = RolledOver.window /\ row'.spent = RolledOver.spent
  /\ \/ row'.claimedAt = row.claimedAt
     \/ msg[m].pc \in Claimed /\ msg'[m].pc \notin Claimed
  /\ faults' \in Nat /\ balance' \in Nat /\ Rest /\ NoPay
\* Its step never goes back, and takes on only what was checked.
Moves(m) ==
  LET from == msg[m].pc
      to == msg'[m].pc
  IN  /\ to \in Claimed => from \in Claimed
      /\ to \in Unpaid => from \in Unpaid
      /\ to \in {"settling", "record"} => from \in {"settling", "record"}
      /\ from \in {"new", "done"} => to \in {"new", "done"} \/ row.bound # NoOne
      /\ to \in Holding =>
           \/ from \in Holding /\ msg'[m].remaining = msg[m].remaining
           \/ row'.spent + msg'[m].remaining <= topCap
      /\ to = "settle" => Chunk <= msg'[m].remaining /\ payTo[m] \in approvedTo
      /\ to \in {"settling", "record"} => msg'[m].remaining = msg[m].remaining
      /\ to = "reconcile" => msg'[m].reported \in Nat

LEMMA QuietStep ==
  ASSUME Inv, NEW m \in Messages, Quiet(m), Moves(m)
  PROVE  Inv'
<1> USE DEF Inv, Quiet
<1>1. row.window <= row'.window /\ row'.window <= Window(now) /\ row'.spent <= row.spent
      /\ row'.spent \in Nat /\ row.spent \in Nat /\ row'.window \in Nat /\ row.window \in Nat
  BY Rolled
<1>2. TypeOK'
  BY DEF TypeOK
<1>3. Clocks'
  BY <1>1, ChatAssumption DEF Clocks, TypeOK
<1>4. PolicyApproved' /\ PaidApproved'
  BY DEF PolicyApproved, PaidApproved, Moves
<1>5. OneClaim'
  BY DEF OneClaim, Moves, TypeOK
<1>6. RoomLeft'
  <2> SUFFICES ASSUME NEW n \in Messages
               PROVE  /\ msg'[n].pc \in Unpaid \cup {"settling", "record"} => booked[n] = Never
                      /\ msg'[n].pc \in Holding => row'.spent + msg'[n].remaining <= topCap
                      /\ msg'[n].pc \in {"settle", "settling", "record"} => Chunk <= msg'[n].remaining
                      /\ msg'[n].pc = "reconcile" => msg'[n].reported \in Nat
    BY DEF RoomLeft
  <2>1. msg[n].remaining \in Nat /\ msg'[n].remaining \in Nat /\ topCap \in Nat
    BY DEF TypeOK, MsgType, Goto
  <2>2. CASE n # m
    BY <1>1, <2>1, <2>2 DEF RoomLeft
  <2>3. CASE n = m
    BY <1>1, <2>1, <2>3 DEF RoomLeft, Moves
  <2> QED
    BY <2>2, <2>3
<1>7. Booked'
  BY <1>2, BookedKept DEF TypeOK
<1> QED
  BY <1>2, <1>3, <1>4, <1>5, <1>6, <1>7

\* What the moves of a message do to it.
LEMMA GotoMsg ==
  ASSUME TypeOK, NEW m \in Messages, NEW s \in Steps, Goto(m, s)
  PROVE  /\ msg' \in [Messages -> MsgType] /\ msg'[m].pc = s
         /\ \A n \in Messages \ {m} : msg'[n] = msg[n]
         /\ msg'[m].remaining = msg[m].remaining /\ msg'[m].reported = msg[m].reported
BY DEF TypeOK, MsgType, Goto

LEMMA EndMsg ==
  ASSUME TypeOK, NEW m \in Messages, End(m)
  PROVE  /\ msg' \in [Messages -> MsgType] /\ msg'[m].pc = "done"
         /\ \A n \in Messages \ {m} : msg'[n] = msg[n]
BY DEF TypeOK, MsgType, Steps, End, Over, Fresh

LEMMA AnsweredMsg ==
  ASSUME TypeOK, NEW m \in Messages, Answered(m)
  PROVE  /\ msg' \in [Messages -> MsgType] /\ msg'[m].pc = "answered"
         /\ \A n \in Messages \ {m} : msg'[n] = msg[n]
<1>1. msg[m] \in MsgType
  BY DEF TypeOK
<1>2. msg'[m] \in MsgType /\ msg'[m].pc = "answered"
  BY <1>1 DEF TypeOK, MsgType, Steps, Claimed, Answered
<1>3. \A n \in Messages \ {m} : msg'[n] = msg[n]
  BY DEF TypeOK, Answered
<1>4. DOMAIN msg' = Messages /\ msg' = [n \in Messages |-> msg'[n]]
  BY DEF TypeOK, Answered
<1> QED
  BY <1>2, <1>3, <1>4 DEF TypeOK

LEMMA ReportedMsg ==
  ASSUME TypeOK, NEW m \in Messages, NEW b \in Nat, Report(m, b)
  PROVE  /\ msg' \in [Messages -> MsgType] /\ msg'[m].pc = "reconcile" /\ msg'[m].reported = b
         /\ \A n \in Messages \ {m} : msg'[n] = msg[n]
<1>1. msg[m] \in MsgType
  BY DEF TypeOK
<1>2. msg'[m] \in MsgType /\ msg'[m].pc = "reconcile" /\ msg'[m].reported = b
  BY <1>1 DEF TypeOK, MsgType, Steps, Report
<1>3. \A n \in Messages \ {m} : msg'[n] = msg[n]
  BY DEF TypeOK, Report
<1>4. DOMAIN msg' = Messages /\ msg' = [n \in Messages |-> msg'[n]]
  BY DEF TypeOK, Report
<1> QED
  BY <1>2, <1>3, <1>4 DEF TypeOK

LEMMA SearchMsg ==
  ASSUME TypeOK, NEW m \in Messages, NEW s \in Steps,
         msg' = [msg EXCEPT ![m].searched = TRUE, ![m].pc = s]
  PROVE  /\ msg' \in [Messages -> MsgType] /\ msg'[m].pc = s
         /\ \A n \in Messages \ {m} : msg'[n] = msg[n]
<1>1. msg[m] \in MsgType
  BY DEF TypeOK
<1>2. msg'[m] \in MsgType /\ msg'[m].pc = s
  BY <1>1 DEF TypeOK, MsgType
<1>3. \A n \in Messages \ {m} : msg'[n] = msg[n]
  BY DEF TypeOK
<1>4. DOMAIN msg' = Messages /\ msg' = [n \in Messages |-> msg'[n]]
  BY DEF TypeOK
<1> QED
  BY <1>2, <1>3, <1>4 DEF TypeOK

LEMMA ReadMsg ==
  ASSUME Inv, NEW m \in Messages, NEW s \in Steps, Read(m, s)
  PROVE  /\ msg' \in [Messages -> MsgType] /\ msg'[m].pc = s
         /\ \A n \in Messages \ {m} : msg'[n] = msg[n]
         /\ row' = RolledOver /\ row'.spent + msg'[m].remaining <= topCap
<1>1. row' = RolledOver /\ row' \in RowType /\ row'.spent <= row.spent /\ row'.cap = row.cap
  BY Rolled DEF Read, Inv
<1>2. /\ row'.outstanding \in Nat /\ row'.cap \in Nat /\ row'.spent \in Nat /\ row.spent \in Nat
      /\ topCap \in Nat
  BY <1>1 DEF RowType, TypeOK, Inv
<1> DEFINE left == Larger(0, row'.cap - row'.spent)
<1>3. left \in Nat /\ (left = 0 \/ row'.spent + left = row'.cap)
  BY <1>2 DEF Larger
<1>4. msg' = [msg EXCEPT ![m].pc = s, ![m].outstanding = row'.outstanding, ![m].remaining = left]
  BY DEF Read
<1> HIDE DEF left
<1>5. msg' \in [Messages -> MsgType]
  <2>1. msg'[m] \in MsgType
    BY <1>2, <1>3, <1>4 DEF TypeOK, MsgType, Inv
  <2>2. \A n \in Messages \ {m} : msg'[n] = msg[n]
    BY <1>4 DEF TypeOK, Inv
  <2>3. DOMAIN msg' = Messages /\ msg' = [n \in Messages |-> msg'[n]]
    BY <1>4 DEF TypeOK, Inv
  <2> QED
    BY <2>1, <2>2, <2>3 DEF TypeOK, Inv
<1>8. \A n \in Messages \ {m} : msg'[n] = msg[n]
  BY <1>4 DEF TypeOK, Inv
<1>6. msg'[m].pc = s /\ msg'[m].remaining = left
  BY <1>4 DEF TypeOK, MsgType, Inv
<1>7. row.spent <= topCap /\ row.cap <= topCap
  BY <1>2 DEF Inv, Booked, PolicyApproved, TypeOK, RowType
<1> QED
  BY <1>1, <1>2, <1>3, <1>5, <1>6, <1>7, <1>8

\* What the other writes to the row do to it.
LEMMA Counters ==
  ASSUME TypeOK
  PROVE  /\ faults \in Nat /\ balance \in Nat /\ faults + 1 \in Nat /\ balance - 1 \in Int
         /\ balance >= 1 => balance - 1 \in Nat
         /\ row \in RowType
BY DEF TypeOK

\* A write to the row that leaves the policy and the bookings alone.
Alike(w, r) ==
  /\ w \in RowType /\ w.bound = r.bound /\ w.cap = r.cap
  /\ w.window = r.window /\ w.spent = r.spent

LEMMA Paused ==
  ASSUME NEW r \in RowType, NEW p \in {"MERCHANT_CHANGED", "RECONCILIATION_REQUIRED"}
  PROVE  LET w == [r EXCEPT !.paused = p] IN Alike(w, r) /\ w.claimedAt = r.claimedAt
BY DEF RowType, Alike

LEMMA SearchPaused ==
  ASSUME NEW r \in RowType
  PROVE  LET w == [r EXCEPT !.searchPaused = TRUE] IN Alike(w, r) /\ w.claimedAt = r.claimedAt
BY DEF RowType, Alike

LEMMA Searched ==
  ASSUME NEW r \in RowType
  PROVE  LET w == [r EXCEPT !.searches = @ + 1] IN Alike(w, r) /\ w.claimedAt = r.claimedAt
<1>1. r.searches \in Nat
  BY DEF RowType
<1> DEFINE k == r.searches + 1
<1>2. k \in Nat
  BY <1>1
<1> HIDE DEF k
<1>3. LET w == [r EXCEPT !.searches = k] IN Alike(w, r) /\ w.claimedAt = r.claimedAt
  BY <1>2 DEF RowType, Alike
<1> QED
  BY <1>3 DEF k

LEMMA Owing ==
  ASSUME NEW r \in RowType, NEW o \in Nat
  PROVE  LET w == [r EXCEPT !.outstanding = o] IN Alike(w, r) /\ w.claimedAt = r.claimedAt
BY DEF RowType, Alike

LEMMA Released ==
  ASSUME NEW r \in RowType
  PROVE  Alike([r EXCEPT !.claimedAt = Never], r)
BY DEF RowType, Alike

LEMMA SendStep ==
  ASSUME Inv, NEW m \in Messages, Send(m)
  PROVE  Inv'
<1> USE DEF Inv, Send
<1>1. Quiet(m)
  BY EndMsg, ReadMsg, Rolled, Counters DEF Quiet, Alike, Steps, Claimed
<1>2. Moves(m)
  BY EndMsg, ReadMsg DEF Moves, Claimed, Unpaid, Holding, Steps
<1> QED
  BY <1>1, <1>2, QuietStep

LEMMA ConsumeStep ==
  ASSUME Inv, NEW m \in Messages, Consume(m)
  PROVE  Inv'
<1> USE DEF Inv, Consume, CanConsume
<1>1. Quiet(m)
  BY EndMsg, GotoMsg, Counters DEF Quiet, Alike, Steps, Claimed
<1>2. Moves(m)
  BY EndMsg, GotoMsg DEF Moves, Claimed, Unpaid, Holding, Steps
<1> QED
  BY <1>1, <1>2, QuietStep

LEMMA ReleaseStep ==
  ASSUME Inv, NEW m \in Messages, Release(m)
  PROVE  Inv'
<1> USE DEF Inv, Release
<1>1. Quiet(m)
  BY EndMsg, GotoMsg, Counters, Released DEF Quiet, Alike, Steps, Claimed
<1>2. Moves(m)
  BY EndMsg, GotoMsg DEF Moves, Claimed, Unpaid, Holding, Steps
<1> QED
  BY <1>1, <1>2, QuietStep

LEMMA RereadStep ==
  ASSUME Inv, NEW m \in Messages, Reread(m)
  PROVE  Inv'
<1> USE DEF Inv, Reread
<1>1. Quiet(m)
  BY ReadMsg, Rolled, Counters DEF Quiet, Alike, Steps, Claimed
<1>2. Moves(m)
  BY ReadMsg DEF Moves, Claimed, Unpaid, Holding, Steps
<1> QED
  BY <1>1, <1>2, QuietStep

LEMMA RecheckStep ==
  ASSUME Inv, NEW m \in Messages, Recheck(m)
  PROVE  Inv'
<1> USE DEF Inv, Recheck, CanConsume
<1>1. Quiet(m)
  BY AnsweredMsg, GotoMsg, Counters DEF Quiet, Alike, Steps, Claimed
<1>2. Moves(m)
  BY AnsweredMsg, GotoMsg DEF Moves, Claimed, Unpaid, Holding, Steps
<1> QED
  BY <1>1, <1>2, QuietStep

LEMMA BindStep ==
  ASSUME Inv, NEW m \in Messages, Bind(m)
  PROVE  Inv'
<1> USE DEF Inv, Bind
<1>a. LET w == PausedFor("MERCHANT_CHANGED") IN Alike(w, row) /\ w.claimedAt = row.claimedAt
  BY Counters, Paused DEF PausedFor
<1>1. Quiet(m)
  BY <1>a, GotoMsg, Counters DEF Quiet, Alike, Steps, Claimed
<1>2. Moves(m)
  BY GotoMsg DEF Moves, Claimed, Unpaid, Holding, Steps, PolicyApproved, Bound, Fits
<1> QED
  BY <1>1, <1>2, QuietStep

LEMMA SettledStep ==
  ASSUME Inv, NEW m \in Messages, Settled(m)
  PROVE  Inv'
<1> USE DEF Inv, Settled
<1>a. LET w == PausedFor("RECONCILIATION_REQUIRED") IN Alike(w, row) /\ w.claimedAt = row.claimedAt
  BY Counters, Paused DEF PausedFor
<1>1. Quiet(m)
  BY <1>a, GotoMsg, Counters DEF Quiet, Alike, Steps, Claimed
<1>2. Moves(m)
  BY GotoMsg DEF Moves, Claimed, Unpaid, Holding, Steps
<1> QED
  BY <1>1, <1>2, QuietStep

LEMMA SearchStep ==
  ASSUME Inv, NEW m \in Messages, Search(m)
  PROVE  Inv'
<1> USE DEF Inv, Search
<1>1. PICK s \in {"search", "ask"} : msg' = [msg EXCEPT ![m].searched = TRUE, ![m].pc = s]
  OBVIOUS
<1>2. msg' \in [Messages -> MsgType] /\ msg'[m].pc = s /\ \A n \in Messages \ {m} : msg'[n] = msg[n]
  BY <1>1, SearchMsg DEF Steps
<1>3. Quiet(m)
  BY <1>2, Counters, Rolled DEF Quiet
<1>4. Moves(m)
  BY <1>2 DEF Moves, Claimed, Unpaid, Holding
<1> QED
  BY <1>3, <1>4, QuietStep

LEMMA SearchPayStep ==
  ASSUME Inv, NEW m \in Messages, SearchPay(m)
  PROVE  Inv'
<1> USE DEF Inv, SearchPay
<1>1. Quiet(m)
  BY GotoMsg, Counters, SearchPaused DEF Quiet, Alike, Steps, Claimed
<1>2. Moves(m)
  BY GotoMsg DEF Moves, Claimed, Unpaid, Holding, Steps
<1> QED
  BY <1>1, <1>2, QuietStep

LEMMA SearchCountStep ==
  ASSUME Inv, NEW m \in Messages, SearchCount(m)
  PROVE  Inv'
<1> USE DEF Inv, SearchCount
<1>1. Quiet(m)
  BY GotoMsg, Counters, Rolled, Searched DEF Quiet, Alike, Steps, Claimed
<1>2. Moves(m)
  BY GotoMsg DEF Moves, Claimed, Unpaid, Holding, Steps
<1> QED
  BY <1>1, <1>2, QuietStep

LEMMA AskStep ==
  ASSUME Inv, NEW m \in Messages, Ask(m)
  PROVE  Inv'
<1> USE DEF Inv
<1>1. /\ Alike(row', row) /\ row'.claimedAt = row.claimedAt
      /\ faults' \in Nat /\ balance' \in Nat
  <2>1. LET w == PausedFor("RECONCILIATION_REQUIRED") IN Alike(w, row) /\ w.claimedAt = row.claimedAt
    BY Counters, Paused DEF PausedFor
  <2>2. Alike(row, row)
    BY Counters DEF Alike
  <2>3. Alike(row', row) /\ row'.claimedAt = row.claimedAt
    BY <2>1, <2>2 DEF Ask
  <2>4. faults' \in Nat
    BY Counters DEF Ask
  <2>5. balance' \in Nat
    <3>1. balance \in Nat
      BY Counters
    <3>2. Larger(0, balance - 1) \in Nat /\ (balance >= 1 => balance - 1 \in Nat)
      BY <3>1, LargerType
    <3>3. \/ balance >= 1 /\ balance' = balance - 1
          \/ balance' = balance
          \/ balance' = Larger(0, balance - 1)
      BY DEF Ask
    <3> QED
      BY <3>1, <3>2, <3>3
  <2> QED
    BY <2>3, <2>4, <2>5 DEF Alike
<1>2. /\ msg[m].pc = "ask" /\ msg'[m].pc \in {"reconcile", "debit", "web", "done"}
      /\ msg' \in [Messages -> MsgType] /\ \A n \in Messages \ {m} : msg'[n] = msg[n]
      /\ msg'[m].pc = "reconcile" => msg'[m].reported \in Nat
  BY <1>1, EndMsg, GotoMsg, ReportedMsg DEF Ask, Steps
<1>3. Quiet(m)
  BY <1>1, <1>2 DEF Quiet, Alike, Ask
<1>4. Moves(m)
  BY <1>2 DEF Moves, Claimed, Unpaid, Holding
<1> QED
  BY <1>3, <1>4, QuietStep

LEMMA DebitStep ==
  ASSUME Inv, NEW m \in Messages, Debit(m)
  PROVE  Inv'
<1> USE DEF Inv, Debit
<1>1. Quiet(m)
  BY EndMsg, ReportedMsg, Counters DEF Quiet, Alike, Steps, Claimed
<1>2. Moves(m)
  BY EndMsg, ReportedMsg, Counters DEF Moves, Claimed, Unpaid, Holding, Steps
<1> QED
  BY <1>1, <1>2, QuietStep

LEMMA ReconcileStep ==
  ASSUME Inv, NEW m \in Messages, Reconcile(m)
  PROVE  Inv'
<1> USE DEF Inv, Reconcile
<1>b. msg[m].reported \in Nat
  BY DEF RoomLeft
<1>a. LET w == [RolledOver EXCEPT !.outstanding = msg[m].reported]
      IN  Alike(w, RolledOver) /\ w.claimedAt = RolledOver.claimedAt
  BY <1>b, Rolled, Owing
<1>1. Quiet(m)
  BY <1>a, EndMsg, Counters, Rolled, Owing DEF Quiet, Alike, Steps, Claimed
<1>2. Moves(m)
  BY EndMsg DEF Moves, Claimed, Unpaid, Holding, Steps, RoomLeft
<1> QED
  BY <1>1, <1>2, QuietStep


\* The claim: taken when no other message holds one.
LEMMA ClaimStep ==
  ASSUME Inv, NEW m \in Messages, Claim(m)
  PROVE  Inv'
<1> USE DEF Inv
<1>1. CASE ~ClaimFree
  <2>1. Quiet(m)
    BY <1>1, EndMsg, Counters DEF Quiet, Claim
  <2>2. Moves(m)
    BY <1>1, EndMsg DEF Moves, Claimed, Unpaid, Holding, Claim
  <2> QED
    BY <2>1, <2>2, QuietStep
<1>2. CASE ClaimFree
  <2>1. row' = [row EXCEPT !.claimedAt = now] /\ Goto(m, "read") /\ UNCHANGED <<faults, balance>>
        /\ Rest /\ NoPay
    BY <1>2 DEF Claim
  <2>2. now \in Nat /\ row \in RowType
    BY DEF TypeOK
  <2>3. Alike(row', row) /\ row'.claimedAt = now
    BY <2>1, <2>2 DEF Alike, RowType
  <2>4. /\ msg' \in [Messages -> MsgType] /\ msg[m].pc = "claim" /\ msg'[m].pc = "read"
        /\ \A n \in Messages \ {m} : msg'[n] = msg[n]
    BY <2>1, GotoMsg DEF Steps, Claimed, Claim
  <2>5. \A n \in Messages : msg[n].pc \notin Claimed
    <3>1. ASSUME row.claimedAt # Never PROVE row.claimedAt \in Nat
      BY <2>2, <3>1 DEF RowType
    <3> QED
      BY <1>2, <2>2, <3>1, ChatAssumption DEF OneClaim, ClaimFree
  <2>6. TypeOK' /\ Clocks'
    BY <2>1, <2>3, <2>4 DEF TypeOK, Clocks, Alike
  <2>7. PolicyApproved' /\ PaidApproved' /\ RoomLeft'
    BY <2>1, <2>3, <2>4 DEF PolicyApproved, PaidApproved, RoomLeft, Alike, Unpaid, Holding
  <2>8. OneClaim'
    BY <2>1, <2>2, <2>3, <2>4, <2>5, ChatAssumption DEF OneClaim, Claimed
  <2>9. Booked'
    BY <2>1, <2>3, BookedKept DEF Alike, TypeOK
  <2> QED
    BY <2>6, <2>7, <2>8, <2>9
<1> QED
  BY <1>1, <1>2

LEMMA ChallengeStep ==
  ASSUME Inv, NEW m \in Messages, Challenge(m)
  PROVE  Inv'
<1> USE DEF Inv
<1>1. /\ msg[m].pc = "challenge" /\ msg'[m].pc \in {"failed", "bind"}
      /\ msg' \in [Messages -> MsgType] /\ msg'[m].remaining = msg[m].remaining
      /\ \A n \in Messages \ {m} : msg'[n] = msg[n]
  BY GotoMsg DEF Steps, Claimed, Challenge
<1>2. /\ UNCHANGED <<balance, row, pay, booked, paidOn>> /\ Rest /\ faults' \in Nat
      /\ payTo' \in [Messages -> Merchants \cup {NoOne}]
      /\ \A n \in Messages \ {m} : payTo'[n] = payTo[n]
  BY DEF Challenge, TypeOK
<1>3. TypeOK' /\ Clocks'
  BY <1>1, <1>2 DEF TypeOK, Clocks
<1>4. PolicyApproved' /\ OneClaim'
  BY <1>1, <1>2 DEF PolicyApproved, OneClaim, Claimed
<1>5. PaidApproved' /\ RoomLeft'
  BY <1>1, <1>2 DEF PaidApproved, RoomLeft, Unpaid, Holding
<1>6. Booked'
  BY <1>2, BookedKept DEF TypeOK
<1> QED
  BY <1>3, <1>4, <1>5, <1>6

LEMMA SettleStep ==
  ASSUME Inv, NEW m \in Messages, Settle(m)
  PROVE  Inv'
<1> USE DEF Inv
<1>1. /\ msg[m].pc = "settle" /\ msg'[m].pc = "settling"
      /\ msg' \in [Messages -> MsgType] /\ msg'[m].remaining = msg[m].remaining
      /\ \A n \in Messages \ {m} : msg'[n] = msg[n]
  BY GotoMsg DEF Steps, Claimed, Settle
<1>2. /\ UNCHANGED <<balance, row, payTo, booked, paidOn, faults>> /\ Rest
      /\ pay' \in [Messages -> {"none", "sent", "landed"}]
      /\ \A n \in Messages \ {m} : pay'[n] = pay[n]
  BY DEF Settle, TypeOK
<1>3. TypeOK' /\ Clocks'
  BY <1>1, <1>2 DEF TypeOK, Clocks
<1>4. PolicyApproved' /\ OneClaim'
  BY <1>1, <1>2 DEF PolicyApproved, OneClaim, Claimed
<1>5. PaidApproved' /\ RoomLeft'
  BY <1>1, <1>2 DEF PaidApproved, RoomLeft, Unpaid, Holding
<1>6. Booked'
  BY <1>2, BookedKept DEF TypeOK
<1> QED
  BY <1>3, <1>4, <1>5, <1>6


\* The booking: of a message that has none, in a window with room for it.
LEMMA RecordStep ==
  ASSUME Inv, NEW m \in Messages, Record(m)
  PROVE  Inv'
<1> USE DEF Inv
<1> DEFINE s == RolledOver.spent + Chunk
           o == RolledOver.outstanding + Chunk
           w == RolledOver.window
<1>1. /\ RolledOver \in RowType /\ w \in Nat /\ RolledOver.spent \in Nat /\ Chunk \in Nat
      /\ row.spent \in Nat /\ RolledOver.spent <= row.spent /\ row.window \in Nat
      /\ row.window <= w /\ w <= Window(now)
      /\ RolledOver.bound = row.bound /\ RolledOver.cap = row.cap
      /\ RolledOver.claimedAt = row.claimedAt
  BY Rolled, ChatAssumption
<1>2. s \in Nat /\ o \in Nat
  <2>1. RolledOver.outstanding \in Nat
    BY <1>1 DEF RowType
  <2> QED
    BY <1>1, <2>1
<1>3. row' = [RolledOver EXCEPT !.spent = s, !.outstanding = o]
  BY DEF Record
<1> HIDE DEF s, o
<1>4. /\ row' \in RowType /\ row'.spent = s /\ row'.window = w
      /\ row'.bound = row.bound /\ row'.cap = row.cap /\ row'.claimedAt = row.claimedAt
  BY <1>1, <1>2, <1>3 DEF RowType
<1>5. /\ msg[m].pc = "record" /\ msg'[m].pc = "answered"
      /\ msg' \in [Messages -> MsgType] /\ \A n \in Messages \ {m} : msg'[n] = msg[n]
  BY AnsweredMsg DEF Record
<1>6. UNCHANGED <<balance, pay, payTo, paidOn, faults>> /\ Rest
  BY DEF Record
<1>7. booked' = [booked EXCEPT ![m] = w] /\ booked[m] = Never
  BY <1>4, <1>5 DEF Record, RoomLeft
<1>8. s <= topCap
  <2>1. row.spent + msg[m].remaining <= topCap /\ Chunk <= msg[m].remaining
    BY <1>5 DEF RoomLeft, Holding
  <2>2. msg[m].remaining \in Nat /\ topCap \in Nat
    BY DEF TypeOK, MsgType
  <2> QED
    BY <1>1, <2>1, <2>2 DEF s
<1>9. TypeOK' /\ Clocks'
  BY <1>1, <1>4, <1>5, <1>6, <1>7, ChatAssumption DEF TypeOK, Clocks
<1>10. PolicyApproved' /\ PaidApproved' /\ OneClaim'
  BY <1>4, <1>5, <1>6 DEF PolicyApproved, PaidApproved, OneClaim, Unpaid, Claimed
\* No other message is past its claim, so none counts on the room this one takes.
<1>11. RoomLeft'
  <2>1. \A n \in Messages : msg'[n].pc \in Claimed => n = m
    BY <1>5 DEF OneClaim, Claimed
  <2> QED
    BY <1>5, <1>7, <2>1 DEF RoomLeft, Unpaid, Holding, Claimed
<1>12. Booked'
  <2>1. \A d \in Nat : BookedIn(d)' = IF d = w THEN BookedIn(d) \cup {m} ELSE BookedIn(d)
    BY <1>1, <1>7, ChatAssumption DEF BookedIn, TypeOK
  <2>2. m \notin BookedIn(w)
    BY <1>1, <1>7, ChatAssumption DEF BookedIn
  <2>3. /\ Cardinality(BookedIn(w)) \in Nat
        /\ Cardinality(BookedIn(w) \cup {m}) = Cardinality(BookedIn(w)) + 1
    BY <2>2, CountType, FS_AddElement
  <2>4. RolledOver.spent = Chunk * Cardinality(BookedIn(w))
    <3>1. CASE w = row.window
      <4>1. RolledOver.spent = row.spent
        BY <3>1, Rolled
      <4> QED
        BY <3>1, <4>1 DEF Booked
    <3>2. CASE w # row.window
      <4>1. RolledOver.spent = 0 /\ row.window < w
        BY <1>1, <3>2, Rolled
      <4>2. Cardinality(BookedIn(w)) = 0
        BY <1>1, <4>1, NoneAhead, FS_EmptySet
      <4> QED
        BY <1>1, <4>1, <4>2, OneMore
    <3> QED
      BY <3>1, <3>2
  <2>5. Chunk * Cardinality(BookedIn(w) \cup {m}) = s
    BY <1>1, <2>3, <2>4, OneMore DEF s
  <2>6. row'.spent = Chunk * Cardinality({n \in Messages : booked'[n] = row'.window})
    BY <1>1, <1>4, <2>1, <2>5 DEF BookedIn
  <2>7. ASSUME NEW d \in Nat PROVE Chunk * Cardinality(BookedIn(d)') <= topCap
    BY <1>8, <2>1, <2>5, <2>7 DEF Booked
  <2> QED
    BY <1>6, <2>6, <2>7 DEF Booked, BookedIn
<1> QED
  BY <1>9, <1>10, <1>11, <1>12

LEMMA LandStep ==
  ASSUME Inv, NEW m \in Messages, Land(m)
  PROVE  Inv'
<1> USE DEF Inv, Land
<1>1. balance' \in Nat
  <2>1. balance \in Nat /\ Chunk \in Nat
    BY ChatAssumption DEF TypeOK
  <2> QED
    BY <2>1
<1>2. Window(now) \in Nat
  BY WindowNow
<1>3. TypeOK' /\ Clocks'
  BY <1>1, <1>2 DEF TypeOK, Clocks
<1>4. PolicyApproved' /\ OneClaim' /\ RoomLeft'
  BY DEF PolicyApproved, OneClaim, RoomLeft
<1>5. PaidApproved'
  BY DEF PaidApproved, TypeOK
<1>6. Booked'
  BY BookedKept DEF TypeOK
<1> QED
  BY <1>3, <1>4, <1>5, <1>6

LEMMA AskPolicyStep ==
  ASSUME Inv, AskPolicy
  PROVE  Inv'
<1> USE DEF Inv, AskPolicy
<1>1. asked' \in [bound : Merchants, cap : Caps, expires : Nat] /\ changes' \in Nat
  <2>1. now \in Nat /\ PolicyLife \in Nat /\ configured \in Merchants /\ changes \in Nat
    BY ChatAssumption DEF TypeOK
  <2>2. now + PolicyLife \in Nat
    BY <2>1
  <2> QED
    BY <2>1, <2>2
<1>2. TypeOK' /\ Clocks'
  BY <1>1 DEF TypeOK, Clocks
<1>3. PolicyApproved' /\ OneClaim' /\ RoomLeft' /\ PaidApproved'
  BY DEF PolicyApproved, OneClaim, RoomLeft, PaidApproved
<1>4. Booked'
  BY BookedKept DEF TypeOK
<1> QED
  BY <1>2, <1>3, <1>4

\* The answer: a yes binds what was asked, and what is bound was approved.
LEMMA AnswerPolicyStep ==
  ASSUME Inv, AnswerPolicy
  PROVE  Inv'
<1> USE DEF Inv
<1>1. CASE UNCHANGED <<row, approvedTo, topCap>>
  <2> USE <1>1 DEF AnswerPolicy
  <2>1. TypeOK' /\ Clocks'
    BY DEF TypeOK, Clocks
  <2>2. PolicyApproved' /\ OneClaim' /\ RoomLeft' /\ PaidApproved'
    BY DEF PolicyApproved, OneClaim, RoomLeft, PaidApproved
  <2>3. Booked'
    BY BookedKept DEF TypeOK
  <2> QED
    BY <2>1, <2>2, <2>3
<1>2. CASE /\ row' = [row EXCEPT !.bound = asked.bound, !.cap = asked.cap,
                                !.expires = asked.expires, !.paused = OFF]
           /\ approvedTo' = approvedTo \cup {asked.bound} /\ topCap' = Larger(topCap, asked.cap)
  <2>1. asked.bound \in Merchants /\ asked.cap \in Nat /\ asked.expires \in Nat
    BY ChatAssumption DEF TypeOK, AnswerPolicy
  <2>2. row \in RowType /\ topCap \in Nat /\ row.cap \in Nat
    BY DEF TypeOK, RowType
  <2>3. /\ row' \in RowType /\ row'.bound = asked.bound /\ row'.cap = asked.cap
        /\ row'.window = row.window /\ row'.spent = row.spent /\ row'.claimedAt = row.claimedAt
    BY <1>2, <2>1, <2>2 DEF RowType
  <2>4. topCap' \in Nat /\ topCap <= topCap' /\ asked.cap <= topCap'
    BY <1>2, <2>1, <2>2 DEF Larger
  <2>5. /\ UNCHANGED <<now, faults, changes, balance, msg, payVars, worldVars>> /\ asked' = Never
        /\ approvedTo' = approvedTo \cup {asked.bound}
    BY <1>2 DEF AnswerPolicy
  <2>6. TypeOK' /\ Clocks'
    BY <2>1, <2>3, <2>4, <2>5 DEF TypeOK, Clocks
  <2>7. PolicyApproved' /\ OneClaim' /\ PaidApproved'
    BY <2>1, <2>3, <2>4, <2>5, ChatAssumption DEF PolicyApproved, OneClaim, PaidApproved
  <2>8. RoomLeft'
    <3>1. \A n \in Messages : msg[n].remaining \in Nat /\ row.spent \in Nat
      BY DEF TypeOK, MsgType, RowType
    <3> QED
      BY <2>2, <2>3, <2>4, <2>5, <3>1 DEF RoomLeft
  <2>9. Booked'
    BY <2>3, <2>4, <2>5, BookedKept
  <2> QED
    BY <2>6, <2>7, <2>8, <2>9
<1> QED
  BY <1>1, <1>2 DEF AnswerPolicy

\* The watcher, the merchant and the feed: the row is paused at most.
LEMMA WorldStep ==
  ASSUME Inv, Poll \/ PollMark \/ MerchantMoves \/ FeedShows
  PROVE  Inv'
<1> USE DEF Inv
<1>1. /\ UNCHANGED <<now, faults, balance, msg, payVars, policyVars>> /\ changes' \in Nat
      /\ configured' = configured /\ offered' \in Merchants /\ watcher' \in {"idle", "mark"}
      /\ feed' \in Nat /\ seen' \in Nat
  BY DEF Poll, PollMark, MerchantMoves, FeedShows, TypeOK
<1>2. Alike(row', row) /\ row'.claimedAt = row.claimedAt
  <2>1. LET w == PausedFor("MERCHANT_CHANGED") IN Alike(w, row) /\ w.claimedAt = row.claimedAt
    BY Counters, Paused DEF PausedFor
  <2>2. Alike(row, row)
    BY Counters DEF Alike
  <2> QED
    BY <2>1, <2>2 DEF Poll, PollMark, MerchantMoves, FeedShows
<1>3. TypeOK' /\ Clocks'
  BY <1>1, <1>2 DEF TypeOK, Clocks, Alike
<1>4. PolicyApproved' /\ OneClaim' /\ RoomLeft' /\ PaidApproved'
  BY <1>1, <1>2 DEF PolicyApproved, OneClaim, RoomLeft, PaidApproved, Alike
<1>5. Booked'
  BY <1>1, <1>2, BookedKept DEF Alike, TypeOK
<1> QED
  BY <1>3, <1>4, <1>5

LEMMA CrashStep ==
  ASSUME Inv, Crash
  PROVE  Inv'
<1> USE DEF Inv
<1>1. \A n \in Messages : msg'[n] \in MsgType /\ msg'[n].pc \in {"new", "done"}
                         /\ (msg'[n].pc = "new" => msg[n].pc = "new")
  BY DEF Crash, Over, Fresh, MsgType, Steps
<1>2. msg' \in [Messages -> MsgType]
  <2>1. msg' = [n \in Messages |-> msg'[n]]
    BY DEF Crash
  <2> QED
    BY <1>1, <2>1
<1>3. /\ UNCHANGED <<now, changes, row, balance, payVars, configured, offered, feed, seen,
                    approvedTo, topCap>>
      /\ asked' = Never /\ watcher' = "idle" /\ faults' \in Nat
  BY DEF Crash, TypeOK
<1>4. TypeOK' /\ Clocks'
  BY <1>2, <1>3 DEF TypeOK, Clocks
<1>5. PolicyApproved' /\ OneClaim' /\ RoomLeft' /\ PaidApproved'
  BY <1>1, <1>3 DEF PolicyApproved, OneClaim, RoomLeft, PaidApproved, Claimed, Unpaid, Holding
<1>6. Booked'
  BY <1>3, BookedKept DEF TypeOK
<1> QED
  BY <1>4, <1>5, <1>6

LEMMA TickStep ==
  ASSUME Inv, Tick
  PROVE  Inv'
<1> USE DEF Inv, Tick
<1>1. now \in Nat /\ now' \in Nat /\ now <= now'
  BY DEF TypeOK
<1>2. Window(now)' \in Nat /\ Window(now) <= Window(now)' /\ Window(now) \in Nat
  <2>1. Window(now') \in Nat /\ Window(now) <= Window(now') /\ Window(now) \in Nat
    BY <1>1, WindowMonotone
  <2> QED
    BY <2>1 DEF Window
<1>3. TypeOK' /\ Clocks'
  <2>1. row.window \in Nat
    BY Rolled
  <2> QED
    BY <1>1, <1>2, <2>1 DEF TypeOK, Clocks
<1>4. PolicyApproved' /\ OneClaim' /\ RoomLeft' /\ PaidApproved'
  BY DEF PolicyApproved, OneClaim, RoomLeft, PaidApproved, Claimed
<1>5. Booked'
  BY BookedKept DEF TypeOK
<1> QED
  BY <1>3, <1>4, <1>5

-----------------------------------------------------------------------------

LEMMA FirstRow ==
  /\ EmptyRow \in RowType /\ EmptyRow.window = 0 /\ EmptyRow.spent = 0 /\ EmptyRow.cap = 0
  /\ EmptyRow.bound = NoOne
  /\ \A c \in Caps :
       LET r == ApprovedRow(c)
       IN  r \in RowType /\ r.window = 0 /\ r.spent = 0 /\ r.cap = c /\ r.bound = Configured
<1>1. /\ EmptyRow \in RowType /\ EmptyRow.window = 0 /\ EmptyRow.spent = 0 /\ EmptyRow.cap = 0
      /\ EmptyRow.bound = NoOne
  BY DEF EmptyRow, RowType
<1>2. PolicyLife \in Nat /\ Caps \subseteq Nat /\ Configured \in Merchants
  BY ChatAssumption
<1> QED
  BY <1>1, <1>2 DEF RowType, ApprovedRow

LEMMA Initially == Init => Inv
<1> SUFFICES ASSUME Init PROVE Inv
  OBVIOUS
<1>1. /\ row \in RowType /\ row.window = 0 /\ row.spent = 0
      /\ topCap \in Nat /\ row.cap = topCap /\ approvedTo \subseteq Merchants
      /\ row.bound # NoOne => row.bound \in approvedTo
  <2>1. CASE row = EmptyRow /\ approvedTo = {} /\ topCap = 0
    BY <2>1, FirstRow
  <2>2. ASSUME NEW c \in Caps, approvedTo = {Configured}, topCap = c,
               row = ApprovedRow(c)
        PROVE  /\ row \in RowType /\ row.window = 0 /\ row.spent = 0
               /\ topCap \in Nat /\ row.cap = topCap /\ approvedTo \subseteq Merchants
               /\ row.bound # NoOne => row.bound \in approvedTo
    BY <2>2, FirstRow, ChatAssumption
  <2> QED
    BY <2>1, <2>2 DEF Init
<1>2. /\ now = 0 /\ faults = 0 /\ balance = 0 /\ changes = 0 /\ feed = 0 /\ seen = 0
      /\ watcher = "idle" /\ configured \in Merchants /\ offered \in Merchants /\ asked = Never
  BY DEF Init
<1>3. /\ msg = [m \in Messages |-> Fresh] /\ pay = [m \in Messages |-> "none"]
      /\ payTo = [m \in Messages |-> NoOne]
      /\ booked = [m \in Messages |-> Never] /\ paidOn = [m \in Messages |-> Never]
  BY DEF Init
<1>4. Fresh \in MsgType /\ Fresh.pc = "new"
  BY DEF Fresh, MsgType, Steps
<1>5. TypeOK
  BY <1>1, <1>2, <1>3, <1>4 DEF TypeOK
<1>6. Window(now) \in Nat
  BY <1>5, WindowNow
<1>7. Clocks /\ PaidApproved /\ OneClaim
  BY <1>1, <1>3, <1>4, <1>6 DEF Clocks, PaidApproved, OneClaim, Claimed
<1>a. \A m \in Messages : msg[m].pc = "new" /\ booked[m] = Never
  BY <1>3, <1>4
<1>8. PolicyApproved /\ RoomLeft
  BY <1>1, <1>a DEF PolicyApproved, RoomLeft, Unpaid, Holding
<1>9. \A d \in Nat : BookedIn(d) = {}
  BY <1>3, ChatAssumption DEF BookedIn
<1>10. Chunk * Cardinality({}) = 0
  BY FS_EmptySet, OneMore, ChatAssumption
<1>11. Booked
  BY <1>1, <1>9, <1>10 DEF Booked
<1> QED
  BY <1>5, <1>7, <1>8, <1>11 DEF Inv

LEMMA Stuttering == Inv /\ UNCHANGED vars => Inv'
BY DEF Inv, vars, TypeOK, Clocks, PolicyApproved, PaidApproved, OneClaim, RoomLeft, Booked, BookedIn

LEMMA Inductive == Inv /\ [Next]_vars => Inv'
<1> SUFFICES ASSUME Inv, [Next]_vars PROVE Inv'
  OBVIOUS
<1>1. CASE \E m \in Messages : Send(m) \/ Step(m) \/ Land(m)
  BY <1>1, SendStep, ConsumeStep, ClaimStep, ReleaseStep, RereadStep, RecheckStep, ChallengeStep,
     BindStep, SettleStep, SettledStep, RecordStep, SearchStep, SearchPayStep, SearchCountStep,
     AskStep, DebitStep, ReconcileStep, LandStep DEF Step
<1>2. CASE AskPolicy \/ AnswerPolicy \/ Poll \/ PollMark \/ MerchantMoves \/ FeedShows \/ Crash \/ Tick
  BY <1>2, AskPolicyStep, AnswerPolicyStep, WorldStep, CrashStep, TickStep
<1>3. CASE UNCHANGED vars
  BY <1>3, Stuttering
<1> QED
  BY <1>1, <1>2, <1>3 DEF Next

LEMMA Invariance == Spec => []Inv
BY Initially, Inductive, PTL DEF Spec

\* The row, the messages and the payments have their types: what was spent, the
\* credit and a message's room are never negative (chat_store.py, venice_chat.py).
THEOREM TypeCorrect == Spec => []TypeOK
<1>1. Inv => TypeOK
  BY DEF Inv
<1> QED
  BY <1>1, Invariance, PTL

\* No two messages are between claim_prefund and its release, whatever overlaps,
\* crashes and whenever an old claim is taken over.
THEOREM OnePrefund == Spec => []OnePrefundAtATime
<1>1. Inv => OnePrefundAtATime
  <2> SUFFICES ASSUME Inv PROVE OnePrefundAtATime
    OBVIOUS
  <2> DEFINE S == {m \in Messages : msg[m].pc \in Claimed}
  <2>1. IsFiniteSet(S)
    BY ChatAssumption, FS_Subset
  <2>2. CASE S = {}
    BY <2>2, FS_EmptySet DEF OnePrefundAtATime
  <2>3. CASE S # {}
    <3>1. PICK m \in S : TRUE
      BY <2>3
    <3>2. S = {m}
      BY <3>1 DEF Inv, OneClaim
    <3>3. Cardinality(S) = 1
      BY <3>2, FS_Singleton
    <3> QED
      BY <3>3 DEF OnePrefundAtATime
  <2> QED
    BY <2>2, <2>3
<1> QED
  BY <1>1, Invariance, PTL

\* What the window says was spent is what was recorded in it, and no day's
\* record exceeds the largest cap the user approved (record_prefund).
THEOREM BookedWithinCap == Spec => []SpentIsBooked
<1>1. Inv => SpentIsBooked
  <2> SUFFICES ASSUME Inv PROVE SpentIsBooked
    OBVIOUS
  <2>1. Window(now) \in Nat
    BY WindowNow DEF Inv
  <2> QED
    BY <2>1 DEF Inv, Booked, BookedIn, SpentIsBooked
<1> QED
  BY <1>1, Invariance, PTL

\* A payment goes to an address the user approved (_validate_binding).
THEOREM PaidToApproved == Spec => []PaidToTheApproved
<1>1. Inv => PaidToTheApproved
  BY DEF Inv, PaidApproved, PaidToTheApproved
<1> QED
  BY <1>1, Invariance, PTL

\* Credit goes down only where reconcile_outstanding writes what Venice said.
THEOREM CreditKept == Spec => CreditIsKept
<1> DEFINE Kept == row'.outstanding < row.outstanding =>
                     \E m \in Messages : At(m, "reconcile") /\ row'.outstanding = msg[m].reported
<1>1. Inv /\ [Next]_vars => [Kept]_vars
  <2> SUFFICES ASSUME Inv, Next, row'.outstanding < row.outstanding
               PROVE  \E m \in Messages : At(m, "reconcile") /\ row'.outstanding = msg[m].reported
    BY DEF Kept
  <2>1. row \in RowType /\ row.outstanding \in Nat /\ RolledOver.outstanding = row.outstanding
        /\ RolledOver \in RowType /\ Chunk \in Nat
    BY Rolled, ChatAssumption DEF Inv, TypeOK, RowType
  <2>2. ASSUME row'.outstanding = row.outstanding PROVE FALSE
    BY <2>1, <2>2
  <2>3. ASSUME NEW m \in Messages, Record(m) PROVE FALSE
    <3> DEFINE o == RolledOver.outstanding + Chunk
               s == RolledOver.spent + Chunk
    <3>1. row' = [RolledOver EXCEPT !.spent = s, !.outstanding = o]
      BY <2>3 DEF Record
    <3>2. o \in Nat /\ row.outstanding <= o
      BY <2>1
    <3> HIDE DEF o, s
    <3>3. row'.outstanding = o
      BY <2>1, <3>1 DEF RowType
    <3> QED
      BY <2>1, <3>2, <3>3
  <2>4. ASSUME NEW m \in Messages, Reconcile(m)
        PROVE  At(m, "reconcile") /\ row'.outstanding = msg[m].reported
    BY <2>1, <2>4 DEF Reconcile, RowType
  <2>5. ASSUME NEW m \in Messages, Send(m) \/ Reread(m) \/ Search(m) \/ SearchCount(m)
        PROVE  row'.outstanding = row.outstanding
    BY <2>1, <2>5 DEF Send, Reread, Read, Search, SearchCount, RowType
  <2>6. ASSUME NEW m \in Messages,
               Consume(m) \/ Claim(m) \/ Release(m) \/ Recheck(m) \/ Challenge(m) \/ Bind(m)
               \/ Settle(m) \/ Settled(m) \/ SearchPay(m) \/ Ask(m) \/ Debit(m) \/ Land(m)
        PROVE  row'.outstanding = row.outstanding
    BY <2>1, <2>6 DEF Consume, Claim, Release, Recheck, Challenge, Bind, Settle, Settled, SearchPay,
                      Ask, Debit, Land, RowType, PausedFor
  <2>7. ASSUME AskPolicy \/ AnswerPolicy \/ Poll \/ PollMark \/ MerchantMoves \/ FeedShows \/ Crash \/ Tick
        PROVE  row'.outstanding = row.outstanding
    BY <2>1, <2>7 DEF AskPolicy, AnswerPolicy, Poll, PollMark, MerchantMoves, FeedShows, Crash, Tick, RowType, PausedFor
  <2> QED
    BY <2>2, <2>3, <2>4, <2>5, <2>6, <2>7 DEF Next, Step
<1> QED
  BY <1>1, Invariance, PTL DEF Spec, CreditIsKept, Kept

=============================================================================
