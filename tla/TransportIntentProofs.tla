------------------------ MODULE TransportIntentProofs ------------------------
(* The proofs about TransportIntent, for every outbox and every branch.      *)
EXTENDS TransportIntent, TLAPS

\* A retry runs for a record whose commit came to its ref.
Reached(i) == Exists(i) /\ (intent[i].required => local[i] \in {"installed", "moved"})
Guarded == \A i \in Intent : pc[i] # "idle" => Reached(i)

\* What may reach the branch, or did, has its receipt.
Pushing == {i \in Intent : pc[i] \in {"push", "verify"}} \cup late \cup landed
Receipted == \A i \in Pushing : Reached(i) /\ intent[i].real

\* What the record says of a push, it says of one that has a receipt.
Recorded ==
    \A i \in Intent :
        /\ Exists(i)
        /\ \/ intent[i].status \in {"pushing", "succeeded"}
           \/ intent[i].last \in {"in-flight", "pending", "outcome-unknown"}
        => intent[i].real

Seen ==
    \A i \in Intent :
        \/ Exists(i) /\ intent[i].status = "succeeded"
        \/ Exists(i) /\ target = Source[i]
        \/ pc[i] = "verify" /\ report[i] = "ok"
        => i \in published

Counted ==
    \A i \in Intent :
        IF Exists(i) THEN auto[i] + intent[i].left <= Budget ELSE auto[i] = 0

TransportInv ==
    TypeOK /\ Guarded /\ Receipted /\ Recorded /\ Seen /\ Counted
-----------------------------------------------------------------------------
LEMMA FaultTyped ==
    ASSUME NEW r \in Report
    PROVE  FaultOf(r) \in Fault
BY DEF Report, Lost, FaultOf, Fault

LEMMA CircuitTyped ==
    ASSUME NEW i, NEW f
    PROVE  CircuitAfter(i, f) \in {"closed", "warm", "open"}
BY DEF CircuitAfter

\* What an existing record is.
LEMMA RecordTyped ==
    ASSUME TypeOK, NEW i \in Intent, Exists(i)
    PROVE  intent[i] \in Record
BY DEF TypeOK, Exists

\* The steps that end a retry rewrite its record and nothing else.  They keep
\* what was reserved, spent and receipted.
Rewritten(i, r) ==
    /\ r \in Record
    /\ r.required = intent[i].required /\ r.real = intent[i].real /\ r.left = intent[i].left
    /\ \/ r.status \in {"pushing", "succeeded"}
       \/ r.last \in {"in-flight", "pending", "outcome-unknown"}
       => r.real
    /\ r.status = "succeeded" => i \in published
    /\ pc[i] # "idle" /\ intent' = [intent EXCEPT ![i] = r]
    /\ Ends(i) /\ UNCHANGED <<remote, local, auto>>

LEMMA RetryEnds ==
    ASSUME TransportInv, NEW i \in Intent, NEW r, Rewritten(i, r)
    PROVE  TransportInv'
<1> USE DEF TransportInv, Rewritten, remote
<1>1. Reached(i) /\ intent[i] \in Record
    BY RecordTyped DEF Guarded, Reached
<1>2. /\ intent \in [Intent -> Record \cup {None}] /\ r # None
      /\ intent'[i] = r /\ \A j \in Intent \ {i} : intent'[j] = intent[j]
    BY NoRecordIsNone DEF TypeOK
<1>3. /\ pc'[i] = "idle" /\ report'[i] = "ok"
      /\ \A j \in Intent \ {i} : pc'[j] = pc[j] /\ report'[j] = report[j]
    BY DEF TypeOK, Ends, Goto
<1>4. TypeOK'
    BY DEF TypeOK, Ends, Goto, Report
<1>5. \A j \in Intent : (Exists(j) <=> Exists(j)') /\ (Reached(j) => Reached(j)')
    BY <1>1, <1>2 DEF Exists, Reached
<1>6. Guarded'
    BY <1>3, <1>5 DEF Guarded
<1>7. Receipted'
  <2>1. Pushing' \subseteq Pushing /\ Pushing \subseteq Intent
    BY <1>3 DEF Pushing, TypeOK
  <2> QED
    BY <2>1, <1>2, <1>5 DEF Receipted
<1>8. Recorded'
    BY <1>2 DEF Recorded, Exists
<1>9. Seen'
  <2> SUFFICES ASSUME NEW j \in Intent,
                      \/ Exists(j)' /\ intent'[j].status = "succeeded"
                      \/ Exists(j)' /\ target' = Source[j]
                      \/ pc'[j] = "verify" /\ report'[j] = "ok"
               PROVE  j \in published'
    BY DEF Seen, Exists
  <2>1. CASE j = i
    BY <2>1, <1>1, <1>2, <1>3 DEF Seen, Reached
  <2>2. CASE j # i
    BY <2>2, <1>2, <1>3, <1>5 DEF Seen
  <2> QED
    BY <2>1, <2>2
<1>10. Counted'
    BY <1>1, <1>2, <1>5 DEF Counted, Reached
<1> QED
    BY <1>4, <1>6, <1>7, <1>8, <1>9, <1>10

\* What the end of a retry writes into its record.
Ending(a, r, s, l) ==
    /\ r \in Record /\ r.status = s /\ r.last = l
    /\ r.required = a.required /\ r.real = a.real /\ r.left = a.left

LEMMA ProbeFailsKeeps ==
    ASSUME TransportInv, NEW i \in Intent, ProbeFails(i)
    PROVE  TransportInv'
<1>1. pc[i] # "idle" /\ Exists(i) /\ intent[i] \in Record
    BY RecordTyped DEF ProbeFails, Guarded, Reached, TransportInv
<1>2. PICK f \in Fault :
        intent' = [intent EXCEPT ![i].status = "outcome-unknown", ![i].fault = f]
    BY DEF ProbeFails
<1> DEFINE r == [intent[i] EXCEPT !.status = "outcome-unknown", !.fault = f]
<1>3. intent' = [intent EXCEPT ![i] = r]
    BY <1>2 DEF ProbeFails
<1>4. Ending(intent[i], r, "outcome-unknown", intent[i].last)
    BY <1>1, <1>2 DEF Ending, Record, Status, Fault, Last
<1>5. Ends(i) /\ UNCHANGED <<remote, local, auto>>
    BY DEF ProbeFails
<1>6. intent[i].last \in {"in-flight", "pending", "outcome-unknown"} => intent[i].real
    BY <1>1 DEF TransportInv, Recorded
<1> HIDE DEF r
<1>8. Rewritten(i, r)
    BY <1>1, <1>3, <1>4, <1>5, <1>6 DEF Rewritten, Ending
<1> QED
    BY <1>8, RetryEnds

LEMMA CoolDownKeeps ==
    ASSUME TransportInv, NEW i \in Intent, CoolDown(i)
    PROVE  TransportInv'
<1>1. pc[i] # "idle" /\ Exists(i) /\ intent[i] \in Record
    BY RecordTyped DEF CoolDown, Unmoved, Guarded, Reached, TransportInv
<1> DEFINE r == [intent[i] EXCEPT !.status = "pending"]
<1>3. intent' = [intent EXCEPT ![i] = r]
    BY DEF CoolDown, Unmoved
<1>4. Ending(intent[i], r, "pending", intent[i].last)
    BY <1>1 DEF Ending, Record, Status, Fault, Last
<1>5. Ends(i) /\ UNCHANGED <<remote, local, auto>>
    BY DEF CoolDown, Unmoved
<1>6. intent[i].last \in {"in-flight", "pending", "outcome-unknown"} => intent[i].real
    BY <1>1 DEF TransportInv, Recorded
<1> HIDE DEF r
<1>8. Rewritten(i, r)
    BY <1>1, <1>3, <1>4, <1>5, <1>6 DEF Rewritten, Ending
<1> QED
    BY <1>8, RetryEnds

LEMMA ExhaustKeeps ==
    ASSUME TransportInv, NEW i \in Intent, Exhaust(i)
    PROVE  TransportInv'
<1>1. pc[i] # "idle" /\ Exists(i) /\ intent[i] \in Record
    BY RecordTyped DEF Exhaust, Unmoved, Guarded, Reached, TransportInv
<1> DEFINE r == [intent[i] EXCEPT !.status = "attempt-budget-exhausted"]
<1>3. intent' = [intent EXCEPT ![i] = r]
    BY DEF Exhaust, Unmoved
<1>4. Ending(intent[i], r, "attempt-budget-exhausted", intent[i].last)
    BY <1>1 DEF Ending, Record, Status, Fault, Last
<1>5. Ends(i) /\ UNCHANGED <<remote, local, auto>>
    BY DEF Exhaust, Unmoved
<1>6. intent[i].last \in {"in-flight", "pending", "outcome-unknown"} => intent[i].real
    BY <1>1 DEF TransportInv, Recorded
<1> HIDE DEF r
<1>8. Rewritten(i, r)
    BY <1>1, <1>3, <1>4, <1>5, <1>6 DEF Rewritten, Ending
<1> QED
    BY <1>8, RetryEnds

LEMMA DivergeKeeps ==
    ASSUME TransportInv, NEW i \in Intent, Diverge(i)
    PROVE  TransportInv'
<1>1. pc[i] # "idle" /\ Exists(i) /\ intent[i] \in Record
    BY RecordTyped DEF Diverge, Guarded, Reached, TransportInv
<1> DEFINE r == [intent[i] EXCEPT !.status = "remote-diverged", !.fault = "other"]
<1>3. intent' = [intent EXCEPT ![i] = r]
    BY DEF Diverge
<1>4. Ending(intent[i], r, "remote-diverged", intent[i].last)
    BY <1>1 DEF Ending, Record, Status, Fault, Last
<1>5. Ends(i) /\ UNCHANGED <<remote, local, auto>>
    BY DEF Diverge
<1>6. intent[i].last \in {"in-flight", "pending", "outcome-unknown"} => intent[i].real
    BY <1>1 DEF TransportInv, Recorded
<1> HIDE DEF r
<1>8. Rewritten(i, r)
    BY <1>1, <1>3, <1>4, <1>5, <1>6 DEF Rewritten, Ending
<1> QED
    BY <1>8, RetryEnds

LEMMA OvertakenKeeps ==
    ASSUME TransportInv, NEW i \in Intent, Overtaken(i)
    PROVE  TransportInv'
<1>1. pc[i] # "idle" /\ Exists(i) /\ intent[i] \in Record
    BY RecordTyped DEF Overtaken, Guarded, Reached, TransportInv
<1> DEFINE r == [intent[i] EXCEPT !.status = "remote-diverged", !.last = "closed", !.fault = "other"]
<1>3. intent' = [intent EXCEPT ![i] = r]
    BY DEF Overtaken
<1>4. Ending(intent[i], r, "remote-diverged", "closed")
    BY <1>1 DEF Ending, Record, Status, Fault, Last
<1>5. Ends(i) /\ UNCHANGED <<remote, local, auto>>
    BY DEF Overtaken
<1>6. "closed" \notin {"in-flight", "pending", "outcome-unknown"}
    OBVIOUS
<1> HIDE DEF r
<1>8. Rewritten(i, r)
    BY <1>1, <1>3, <1>4, <1>5, <1>6 DEF Rewritten, Ending
<1> QED
    BY <1>8, RetryEnds

LEMMA DryRunFailsKeeps ==
    ASSUME TransportInv, NEW i \in Intent, DryRunFails(i)
    PROVE  TransportInv'
<1>1. pc[i] # "idle" /\ Exists(i) /\ intent[i] \in Record
    BY RecordTyped DEF DryRunFails, Guarded, Reached, TransportInv
<1>2. PICK f \in Fault, s \in {"remote-diverged", "pending", "needs-user"},
           c \in {"closed", "warm", "open"} :
        intent' = [intent EXCEPT ![i].status = s, ![i].fault = f, ![i].circuit = c]
  <2>1. PICK f \in Fault, stale \in BOOLEAN :
            intent' = [intent EXCEPT
                ![i].status = IF stale THEN "remote-diverged"
                              ELSE IF Retryable(f) THEN "pending" ELSE "needs-user",
                ![i].fault = f, ![i].circuit = CircuitAfter(i, f)]
    BY DEF DryRunFails
  <2> QED
    BY <2>1, CircuitTyped
<1> DEFINE r == [intent[i] EXCEPT !.status = s, !.fault = f, !.circuit = c]
<1>3. intent' = [intent EXCEPT ![i] = r]
    BY <1>2 DEF DryRunFails
<1>4. Ending(intent[i], r, s, intent[i].last)
    BY <1>1, <1>2 DEF Ending, Record, Status, Fault, Last
<1>5. Ends(i) /\ UNCHANGED <<remote, local, auto>>
    BY DEF DryRunFails
<1>6. intent[i].last \in {"in-flight", "pending", "outcome-unknown"} => intent[i].real
    BY <1>1 DEF TransportInv, Recorded
<1> HIDE DEF r
<1>8. Rewritten(i, r)
    BY <1>1, <1>3, <1>4, <1>5, <1>6 DEF Rewritten, Ending
<1> QED
    BY <1>8, RetryEnds

LEMMA RefusedKeeps ==
    ASSUME TransportInv, NEW i \in Intent, Refused(i)
    PROVE  TransportInv'
<1>1. pc[i] # "idle" /\ Exists(i) /\ intent[i] \in Record
    BY RecordTyped DEF Refused, Guarded, Reached, TransportInv
<1> DEFINE s == IF Retryable(FaultOf(report[i])) THEN "pending" ELSE "needs-user"
           f == FaultOf(report[i])
           c == CircuitAfter(i, f)
           r == [intent[i] EXCEPT !.status = s, !.last = s, !.fault = f, !.circuit = c]
<1>2. Close(i, s)
    BY DEF Refused
<1>3. s \in {"pending", "needs-user"} /\ f \in Fault /\ c \in {"closed", "warm", "open"}
    BY FaultTyped, CircuitTyped DEF TransportInv, TypeOK
<1> HIDE DEF s
<1>4. /\ intent' = [intent EXCEPT ![i] = r]
      /\ Ends(i) /\ UNCHANGED <<remote, local, auto>>
    BY <1>2 DEF Close
<1> HIDE DEF f, c
<1>5. Ending(intent[i], r, s, s)
    BY <1>1, <1>3 DEF Ending, Record, Status, Last
<1>6. intent[i].real
    BY DEF Refused, TransportInv, Receipted, Pushing
<1> HIDE DEF r
<1>8. Rewritten(i, r)
    BY <1>1, <1>3, <1>4, <1>5, <1>6 DEF Rewritten, Ending
<1> QED
    BY <1>8, RetryEnds

LEMMA UnansweredKeeps ==
    ASSUME TransportInv, NEW i \in Intent, Unanswered(i)
    PROVE  TransportInv'
<1>1. pc[i] # "idle" /\ Exists(i) /\ intent[i] \in Record
    BY RecordTyped DEF Unanswered, Guarded, Reached, TransportInv
<1> DEFINE s == "outcome-unknown"
           f == FaultOf(report[i])
           c == CircuitAfter(i, f)
           r == [intent[i] EXCEPT !.status = s, !.last = s, !.fault = f, !.circuit = c]
<1>2. Close(i, s)
    BY DEF Unanswered
<1>3. s \in {"outcome-unknown"} /\ f \in Fault /\ c \in {"closed", "warm", "open"}
    BY FaultTyped, CircuitTyped DEF TransportInv, TypeOK
<1> HIDE DEF s
<1>4. /\ intent' = [intent EXCEPT ![i] = r]
      /\ Ends(i) /\ UNCHANGED <<remote, local, auto>>
    BY <1>2 DEF Close
<1> HIDE DEF f, c
<1>5. Ending(intent[i], r, s, s)
    BY <1>1, <1>3 DEF Ending, Record, Status, Last
<1>6. intent[i].real
    BY DEF Unanswered, TransportInv, Receipted, Pushing
<1> HIDE DEF r
<1>8. Rewritten(i, r)
    BY <1>1, <1>3, <1>4, <1>5, <1>6 DEF Rewritten, Ending
<1> QED
    BY <1>8, RetryEnds

LEMMA ReconcileKeeps ==
    ASSUME TransportInv, NEW i \in Intent, Reconcile(i)
    PROVE  TransportInv'
<1>1. pc[i] # "idle" /\ Exists(i) /\ intent[i] \in Record
    BY RecordTyped DEF Reconcile, Guarded, Reached, TransportInv
<1> DEFINE r == [intent[i] EXCEPT !.status = "succeeded"]
<1>3. intent' = [intent EXCEPT ![i] = r]
    BY DEF Reconcile
<1>4. Ending(intent[i], r, "succeeded", intent[i].last)
    BY <1>1 DEF Ending, Record, Status, Fault, Last
<1>5. Ends(i) /\ UNCHANGED <<remote, local, auto>>
    BY DEF Reconcile
<1>6. intent[i].real
    BY <1>1 DEF Reconcile, MayReconcile, TransportInv, Recorded
<1>7. i \in published
    BY <1>1 DEF Reconcile, TransportInv, Seen
<1> HIDE DEF r
<1>8. Rewritten(i, r)
    BY <1>1, <1>3, <1>4, <1>5, <1>6, <1>7 DEF Rewritten, Ending
<1> QED
    BY <1>8, RetryEnds

LEMMA SucceedKeeps ==
    ASSUME TransportInv, NEW i \in Intent, Succeed(i)
    PROVE  TransportInv'
<1>1. pc[i] # "idle" /\ Exists(i) /\ intent[i] \in Record
    BY RecordTyped DEF Succeed, Guarded, Reached, TransportInv
<1> DEFINE r == [intent[i] EXCEPT !.status = "succeeded", !.last = "closed", !.fault = "none", !.circuit = "closed"]
<1>3. intent' = [intent EXCEPT ![i] = r]
    BY DEF Succeed
<1>4. Ending(intent[i], r, "succeeded", "closed")
    BY <1>1 DEF Ending, Record, Status, Fault, Last
<1>5. Ends(i) /\ UNCHANGED <<remote, local, auto>>
    BY DEF Succeed
<1>6. intent[i].real
    BY DEF Succeed, TransportInv, Receipted, Pushing
<1>7. i \in published
    BY <1>1 DEF Succeed, TransportInv, Seen
<1> HIDE DEF r
<1>8. Rewritten(i, r)
    BY <1>1, <1>3, <1>4, <1>5, <1>6, <1>7 DEF Rewritten, Ending
<1> QED
    BY <1>8, RetryEnds

-----------------------------------------------------------------------------
(* The other steps of a retry *)

LEMMA SpendKeeps ==
    ASSUME TransportInv, NEW i \in Intent, Spend(i)
    PROVE  TransportInv'
<1> USE DEF TransportInv, remote
<1>1. Reached(i) /\ intent[i] \in Record /\ pc[i] = "probe"
    BY RecordTyped DEF Spend, Unmoved, Guarded, Reached
<1> DEFINE left == IF intent[i].left = 0 THEN 0 ELSE intent[i].left - 1
<1>0. /\ left \in 0..Budget /\ left <= intent[i].left
      /\ ~asked[i] => left + 1 = intent[i].left
    BY <1>1, TransportAssumption DEF Spend, Record
<1>2. /\ intent' = [intent EXCEPT
                ![i].status = "pending", ![i].last = "dry-run", ![i].left = left]
      /\ auto' = [auto EXCEPT ![i] = IF asked[i] THEN @ ELSE @ + 1]
      /\ Goto(i, "dry-run") /\ UNCHANGED <<remote, local, asked, report>>
    BY DEF Spend, SpendAttempt
<1> HIDE DEF left
<1>3. /\ intent'[i] \in Record /\ intent'[i] # None
      /\ intent'[i].required = intent[i].required /\ intent'[i].real = intent[i].real
      /\ intent'[i].status = "pending" /\ intent'[i].last = "dry-run"
      /\ intent'[i].left = left
      /\ \A j \in Intent \ {i} : intent'[j] = intent[j]
  <2>1. intent'[i] = [intent[i] EXCEPT !.status = "pending", !.last = "dry-run", !.left = left]
    BY <1>2 DEF TypeOK
  <2>2. [intent[i] EXCEPT !.status = "pending", !.last = "dry-run", !.left = left] \in Record
    BY <1>1, <1>0 DEF Record, Status, Last
  <2>3. \A j \in Intent \ {i} : intent'[j] = intent[j]
    BY <1>2 DEF TypeOK
  <2> QED
    BY <1>1, <2>1, <2>2, <2>3, NoRecordIsNone DEF Record
<1>4. intent' \in [Intent -> Record \cup {None}]
    BY <1>2, <1>3 DEF TypeOK
<1>5. TypeOK'
    BY <1>2, <1>4 DEF TypeOK, Goto
<1>6. \A j \in Intent : (Exists(j) <=> Exists(j)') /\ (Reached(j) => Reached(j)')
    BY <1>1, <1>2, <1>3 DEF Exists, Reached
<1>7. pc'[i] = "dry-run" /\ \A j \in Intent \ {i} : pc'[j] = pc[j]
    BY <1>2 DEF TypeOK, Goto
<1>8. Guarded' /\ Seen'
    BY <1>1, <1>2, <1>3, <1>6, <1>7 DEF Guarded, Seen
<1>9. Receipted'
  <2>1. Pushing' \subseteq Pushing /\ Pushing \subseteq Intent
    BY <1>2, <1>7 DEF Pushing, TypeOK
  <2> QED
    BY <2>1, <1>3, <1>6 DEF Receipted
<1>10. Recorded'
    BY <1>3, <1>6 DEF Recorded
<1>11. Counted'
  <2>1. auto'[i] + left <= auto[i] + intent[i].left /\ auto'[i] \in Nat
    BY <1>1, <1>2, <1>0 DEF TypeOK, Record
  <2>2. auto'[i] <= Budget /\ auto'[i] + left <= Budget
    BY <1>1, <1>2, <1>0, <2>1, TransportAssumption DEF Counted, Reached, TypeOK, Record
  <2>3. \A j \in Intent \ {i} : auto'[j] = auto[j]
    BY <1>2 DEF TypeOK
  <2> QED
    BY <1>1, <1>3, <1>6, <2>2, <2>3 DEF Counted, Reached
<1> QED
    BY <1>5, <1>8, <1>9, <1>10, <1>11

LEMMA ReceiptKeeps ==
    ASSUME TransportInv, NEW i \in Intent, Receipt(i)
    PROVE  TransportInv'
<1> USE DEF TransportInv, remote
<1>1. Reached(i) /\ intent[i] \in Record /\ pc[i] = "dry-run"
    BY RecordTyped DEF Receipt, Guarded, Reached
<1>2. /\ intent'[i] \in Record /\ intent'[i] # None /\ intent'[i].real
      /\ intent'[i].required = intent[i].required /\ intent'[i].left = intent[i].left
      /\ intent'[i].status = "pushing"
      /\ \A j \in Intent \ {i} : intent'[j] = intent[j]
  <2> DEFINE r == [intent[i] EXCEPT !.status = "pushing", !.last = "in-flight", !.real = TRUE]
  <2>1. intent' = [intent EXCEPT ![i] = r]
    BY DEF Receipt
  <2>2. r \in Record /\ r.real /\ r.status = "pushing"
    BY <1>1 DEF Record, Status, Last
  <2>3. r.required = intent[i].required /\ r.left = intent[i].left
    BY <1>1 DEF Record
  <2> HIDE DEF r
  <2>4. intent'[i] = r /\ \A j \in Intent \ {i} : intent'[j] = intent[j]
    BY <2>1 DEF TypeOK
  <2> QED
    BY <2>2, <2>3, <2>4, NoRecordIsNone
<1>3. intent' \in [Intent -> Record \cup {None}]
    BY <1>2 DEF Receipt, TypeOK
<1>4. TypeOK'
    BY <1>3 DEF Receipt, TypeOK, Goto
<1>5. \A j \in Intent : (Exists(j) <=> Exists(j)') /\ (Reached(j) => Reached(j)')
    BY <1>1, <1>2 DEF Receipt, Exists, Reached
<1>6. pc'[i] = "push" /\ \A j \in Intent \ {i} : pc'[j] = pc[j]
    BY DEF Receipt, TypeOK, Goto
<1>7. Guarded' /\ Seen'
    BY <1>1, <1>2, <1>5, <1>6 DEF Receipt, Guarded, Seen
<1>8. Receipted'
  <2>1. Pushing' \subseteq Pushing \cup {i} /\ Pushing \subseteq Intent
    BY <1>6 DEF Receipt, Pushing, TypeOK
  <2> QED
    BY <2>1, <1>1, <1>2, <1>5 DEF Receipted
<1>9. Recorded' /\ Counted'
    BY <1>2, <1>5 DEF Receipt, Recorded, Counted
<1> QED
    BY <1>4, <1>7, <1>8, <1>9

\* What keeps its record, and gets no further than its receipt allows, stays good.
LEMMA RecordsKept ==
    ASSUME TransportInv, UNCHANGED <<intent, local, auto>>, TypeOK',
           Guarded', Pushing' \subseteq Pushing, Seen'
    PROVE  TransportInv'
<1>1. Receipted' /\ Recorded' /\ Counted'
    BY DEF TransportInv, Receipted, Reached, Recorded, Counted, Exists
<1> QED
    BY <1>1 DEF TransportInv

LEMMA AnswerKeeps ==
    ASSUME TransportInv, NEW i \in Intent, NEW r \in Report, Answer(i, r), pc[i] = "push",
           target' \in Tip, by' \in Intent \cup {None},
           late' \subseteq late \cup {i}, landed' \subseteq landed \cup {i},
           published \subseteq published', published' \subseteq Intent,
           r = "ok" => i \in published',
           \A j \in Intent : Exists(j) /\ target' = Source[j] => j \in published'
    PROVE  TransportInv'
<1> USE DEF TransportInv, Answer
<1>1. /\ pc'[i] = "verify" /\ report'[i] = r
      /\ \A j \in Intent \ {i} : pc'[j] = pc[j] /\ report'[j] = report[j]
    BY DEF TypeOK, Goto
<1>2. TypeOK'
    BY DEF TypeOK, Goto
<1>3. Guarded'
    BY <1>1 DEF Guarded, Reached, Exists
<1>4. Pushing' \subseteq Pushing
    BY <1>1 DEF Pushing
<1>5. Seen'
    BY <1>1 DEF Seen, Exists
<1> QED
    BY <1>2, <1>3, <1>4, <1>5, RecordsKept

LEMMA PushLandsKeeps ==
    ASSUME TransportInv, NEW i \in Intent, PushLands(i)
    PROVE  TransportInv'
<1>1. PICK r \in {"ok"} \cup Lost : Answer(i, r)
    BY DEF PushLands
<1>2. i \in published' /\ r \in Report
    BY DEF PushLands, Publish, Report, Guarded, Reached, TransportInv
<1>3. \A j \in Intent : Exists(j) /\ target' = Source[j] => j \in published'
    BY DEF PushLands, Publish
<1>4. target' \in Tip /\ published' \subseteq Intent
    BY TransportAssumption DEF PushLands, Publish, Tip, TypeOK, TransportInv
<1> QED
    BY <1>1, <1>2, <1>3, <1>4, AnswerKeeps DEF PushLands, Publish

LEMMA PushMissesKeeps ==
    ASSUME TransportInv, NEW i \in Intent, PushMisses(i)
    PROVE  TransportInv'
<1>1. PICK r \in {"up-to-date", "stale"} : Answer(i, r)
    BY DEF PushMisses
<1>2. \A j \in Intent : Exists(j) /\ target = Source[j] => j \in published
    BY DEF TransportInv, Seen
<1> QED
    BY <1>1, <1>2, AnswerKeeps DEF PushMisses, remote, Report, TransportInv, TypeOK

LEMMA PushFailsKeeps ==
    ASSUME TransportInv, NEW i \in Intent, PushFails(i)
    PROVE  TransportInv'
<1>1. PICK r \in {"rate", "refused"} \cup Lost : Answer(i, r)
    BY DEF PushFails
<1>2. late' \subseteq late \cup {i}
    BY DEF PushFails
<1>3. \A j \in Intent : Exists(j) /\ target = Source[j] => j \in published
    BY DEF TransportInv, Seen
<1> QED
    BY <1>1, <1>2, <1>3, AnswerKeeps DEF PushFails, Report, Lost, TransportInv, TypeOK

LEMMA LateLandsKeeps ==
    ASSUME TransportInv, NEW i \in Intent, LateLands(i)
    PROVE  TransportInv'
<1> USE DEF TransportInv, LateLands, retry
<1>1. CASE target = Expected(i)
  <2>1. TypeOK'
    BY <1>1, TransportAssumption DEF TypeOK, Publish, Tip
  <2>2. Guarded' /\ Seen'
    BY <1>1 DEF Guarded, Reached, Exists, Seen, Publish
  <2>3. Pushing' \subseteq Pushing
    BY <1>1 DEF Pushing, Publish
  <2> QED
    BY <2>1, <2>2, <2>3, RecordsKept
<1>2. CASE target # Expected(i)
  <2>1. TypeOK' /\ Guarded' /\ Seen'
    BY <1>2 DEF TypeOK, Guarded, Reached, Exists, Seen
  <2>2. Pushing' \subseteq Pushing
    BY <1>2 DEF Pushing
  <2> QED
    BY <2>1, <2>2, RecordsKept
<1> QED
    BY <1>1, <1>2

LEMMA CrashKeeps ==
    ASSUME TransportInv, NEW i \in Intent, Crash(i)
    PROVE  TransportInv'
<1> USE DEF TransportInv, Crash, Ends, Goto
<1>1. /\ pc'[i] = "idle" /\ report'[i] = "ok"
      /\ \A j \in Intent \ {i} : pc'[j] = pc[j] /\ report'[j] = report[j]
    BY DEF TypeOK
<1>2. late' \subseteq late \cup {i} /\ (i \in late' => i \in late \/ pc[i] = "push")
    OBVIOUS
<1>3. TypeOK'
    BY <1>2 DEF TypeOK, Report
<1>4. Guarded' /\ Seen'
    BY <1>1 DEF Guarded, Reached, Exists, Seen
<1>5. Pushing' \subseteq Pushing
    BY <1>1, <1>2 DEF Pushing
<1> QED
    BY <1>3, <1>4, <1>5, RecordsKept

LEMMA StartRetryKeeps ==
    ASSUME TransportInv, NEW i \in Intent, NEW a \in BOOLEAN, StartRetry(i, a)
    PROVE  TransportInv'
<1> USE DEF TransportInv, StartRetry, remote, Goto
<1>1. pc'[i] = "probe" /\ \A j \in Intent \ {i} : pc'[j] = pc[j]
    BY DEF TypeOK
<1>2. TypeOK'
    BY DEF TypeOK
<1>3. Reached(i)
    BY DEF Reached, Installed
<1>4. Guarded' /\ Seen'
    BY <1>1, <1>3 DEF Guarded, Reached, Exists, Seen
<1>5. Pushing' \subseteq Pushing
    BY <1>1 DEF Pushing
<1> QED
    BY <1>2, <1>4, <1>5, RecordsKept

-----------------------------------------------------------------------------
(* Records, refs and other people *)

LEMMA CreateKeeps ==
    ASSUME TransportInv, NEW i \in Intent, NEW e \in Tip, NEW required \in BOOLEAN,
           Create(i, e, required)
    PROVE  TransportInv'
<1> USE DEF TransportInv, Create, retry
<1> DEFINE r == [status |-> "pending", expected |-> e, required |-> required,
                 last |-> "none", real |-> FALSE, fault |-> "none", left |-> Budget,
                 circuit |-> "closed"]
<1>1. r \in Record /\ intent' = [intent EXCEPT ![i] = r]
    BY TransportAssumption DEF Record, Status, Last
<1>2. /\ ~Exists(i) /\ r # None /\ intent'[i] = r
      /\ \A j \in Intent \ {i} : intent'[j] = intent[j] /\ local'[j] = local[j]
    BY <1>1, NoRecordIsNone DEF TypeOK
<1>3. PICK at \in {"reserved", "installed"} : local' = [local EXCEPT ![i] = at]
    OBVIOUS
<1>4. TypeOK'
    BY <1>1, <1>3 DEF TypeOK
<1>5. pc[i] = "idle" /\ i \notin Pushing
    BY <1>2 DEF Guarded, Receipted, Pushing, Reached
<1>6. \A j \in Intent \ {i} : (Exists(j) <=> Exists(j)') /\ (Reached(j) => Reached(j)')
    BY <1>2 DEF Exists, Reached
<1>7. Guarded' /\ Recorded'
    BY <1>2, <1>5, <1>6 DEF Guarded, Recorded
<1>8. Receipted'
  <2>1. Pushing' = Pushing /\ Pushing \subseteq Intent
    BY DEF Pushing, TypeOK
  <2> QED
    BY <2>1, <1>2, <1>5, <1>6 DEF Receipted
<1>9. Seen'
    BY <1>2, <1>5, <1>6 DEF Seen
<1>10. Counted'
  <2>1. auto[i] = 0
    BY <1>2 DEF Counted
  <2> QED
    BY <2>1, <1>2, <1>6, TransportAssumption DEF Counted
<1> QED
    BY <1>4, <1>7, <1>8, <1>9, <1>10

\* A ref only leaves the values that count as reached for a record that has
\* not reached them.
LEMMA RefsMove ==
    ASSUME TransportInv, NEW i \in Intent, Install(i) \/ MoveOn(i)
    PROVE  TransportInv'
<1> USE DEF TransportInv, remote, retry
<1>1. UNCHANGED <<remote, intent, retry, auto>>
    BY DEF Install, MoveOn
<1>2. PICK at \in {"installed", "absent", "moved"} :
        /\ local' = [local EXCEPT ![i] = at]
        /\ local[i] = "reserved" \/ at = "moved"
    BY DEF Install, MoveOn
<1>3. local[i] \in {"reserved", "installed"} /\ (local[i] = "reserved" => Exists(i))
    BY DEF Install, MoveOn
<1>4. \A j \in Intent : Reached(j) => Reached(j)'
    BY <1>1, <1>2, <1>3 DEF Reached, Exists, TypeOK
<1>5. TypeOK'
    BY <1>1, <1>2 DEF TypeOK
<1>6. Guarded' /\ Recorded' /\ Seen' /\ Counted'
    BY <1>1, <1>4 DEF Guarded, Recorded, Seen, Counted, Exists
<1>7. Receipted'
  <2>1. Pushing' = Pushing /\ Pushing \subseteq Intent
    BY <1>1 DEF Pushing, TypeOK
  <2> QED
    BY <2>1, <1>1, <1>4 DEF Receipted
<1> QED
    BY <1>5, <1>6, <1>7

LEMMA ForeignKeeps ==
    ASSUME TransportInv, NEW t \in Tip, Foreign(t)
    PROVE  TransportInv'
<1> USE DEF TransportInv, Foreign, retry
<1>1. TypeOK'
    BY DEF TypeOK
<1>2. Guarded' /\ Seen'
    BY DEF Guarded, Reached, Exists, Seen
<1>3. Pushing' \subseteq Pushing
    BY DEF Pushing
<1> QED
    BY <1>1, <1>2, <1>3, RecordsKept

LEMMA StutterKeeps ==
    ASSUME TransportInv, UNCHANGED vars
    PROVE  TransportInv'
<1> USE DEF TransportInv, vars, remote, retry
<1>1. TypeOK' /\ Guarded' /\ Seen'
    BY DEF TypeOK, Guarded, Reached, Exists, Seen
<1>2. Pushing' \subseteq Pushing
    BY DEF Pushing
<1> QED
    BY <1>1, <1>2, RecordsKept

-----------------------------------------------------------------------------
LEMMA TransportInit == Init => TransportInv
<1> SUFFICES ASSUME Init PROVE TransportInv
    OBVIOUS
<1>1. TypeOK
    BY TransportAssumption DEF Init, TypeOK, Report
<1>2. Guarded /\ Receipted /\ Recorded /\ Seen
    BY DEF Init, Guarded, Receipted, Pushing, Recorded, Seen, Exists
<1>3. Counted
    BY TransportAssumption DEF Init, Counted, Exists
<1> QED
    BY <1>1, <1>2, <1>3 DEF TransportInv

LEMMA ProceedKeeps ==
    ASSUME TransportInv, NEW i \in Intent, Proceed(i)
    PROVE  TransportInv'
<1>1. CASE ProbeFails(i) \/ Reconcile(i) \/ Diverge(i)
    BY <1>1, ProbeFailsKeeps, ReconcileKeeps, DivergeKeeps
<1>2. CASE CoolDown(i) \/ Exhaust(i) \/ Spend(i)
    BY <1>2, CoolDownKeeps, ExhaustKeeps, SpendKeeps
<1>3. CASE DryRunFails(i) \/ Receipt(i)
    BY <1>3, DryRunFailsKeeps, ReceiptKeeps
<1>4. CASE PushLands(i) \/ PushMisses(i) \/ PushFails(i)
    BY <1>4, PushLandsKeeps, PushMissesKeeps, PushFailsKeeps
<1>5. CASE Succeed(i) \/ Overtaken(i) \/ Refused(i) \/ Unanswered(i)
    BY <1>5, SucceedKeeps, OvertakenKeeps, RefusedKeeps, UnansweredKeeps
<1> QED
    BY <1>1, <1>2, <1>3, <1>4, <1>5 DEF Proceed, ProbeReads

LEMMA TransportStep == TransportInv /\ [Next]_vars => TransportInv'
<1> SUFFICES ASSUME TransportInv, [Next]_vars PROVE TransportInv'
    OBVIOUS
<1>1. ASSUME NEW i \in Intent, NEW e \in Tip, NEW required \in BOOLEAN, Create(i, e, required)
      PROVE  TransportInv'
    BY <1>1, CreateKeeps
<1>2. ASSUME NEW i \in Intent, Install(i) \/ MoveOn(i) PROVE TransportInv'
    BY <1>2, RefsMove
<1>3. ASSUME NEW i \in Intent, NEW a \in BOOLEAN, StartRetry(i, a) PROVE TransportInv'
    BY <1>3, StartRetryKeeps
<1>4. ASSUME NEW i \in Intent, Proceed(i) \/ LateLands(i) \/ Crash(i) PROVE TransportInv'
    BY <1>4, ProceedKeeps, LateLandsKeeps, CrashKeeps
<1>5. ASSUME NEW t \in Tip, Foreign(t) PROVE TransportInv'
    BY <1>5, ForeignKeeps
<1>6. CASE UNCHANGED vars
    BY <1>6, StutterKeeps
<1> QED
    BY <1>1, <1>2, <1>3, <1>4, <1>5, <1>6 DEF Next

\* The invariant of the outbox holds in every reachable state.
THEOREM TransportInductive == Spec => []TransportInv
<1>1. Init => TransportInv
    BY TransportInit
<1>2. TransportInv /\ [Next]_vars => TransportInv'
    BY TransportStep
<1> QED
    BY <1>1, <1>2, PTL DEF Spec

\* Every variable of the outbox keeps its type.
THEOREM TransportTyped == Spec => []TypeOK
<1>1. TransportInv => TypeOK
    BY DEF TransportInv
<1> QED
    BY <1>1, TransportInductive, PTL

\* Whatever an intent put at the branch has a receipt in its record, for any
\* number of records, retries, deaths and pushes that arrive late.
THEOREM ReceiptsPrecedePushes == Spec => []ReceiptPrecedesPush
<1>1. TransportInv => ReceiptPrecedesPush
    BY DEF TransportInv, Receipted, Pushing, Reached, ReceiptPrecedesPush
<1> QED
    BY <1>1, TransportInductive, PTL

\* An intent succeeds only after the receipt of a real push of it, and only if
\* its commit was at the branch.
THEOREM SuccessesWerePushed == Spec => []SucceededWasPushed
<1>1. TransportInv => SucceededWasPushed
    BY DEF TransportInv, Recorded, Seen, SucceededWasPushed
<1> QED
    BY <1>1, TransportInductive, PTL

\* A reservation whose commit never came to its ref is never pushed.
THEOREM ReservationsAreNotPushed == Spec => []OnlyInstalledIsPushed
<1>1. TransportInv => OnlyInstalledIsPushed
    BY DEF TransportInv, Receipted, Pushing, Reached, OnlyInstalledIsPushed
<1> QED
    BY <1>1, TransportInductive, PTL

\* Unasked retries stay within the budget.
THEOREM BudgetBoundsRetries == Spec => []RetriesAreBounded
<1>1. TransportInv => RetriesAreBounded
  <2> SUFFICES ASSUME TransportInv, NEW i \in Intent PROVE auto[i] <= Budget
    BY DEF RetriesAreBounded
  <2>1. auto[i] \in Nat /\ Budget \in Nat
    BY TransportAssumption DEF TransportInv, TypeOK
  <2>2. CASE Exists(i)
    <3>1. intent[i] \in Record /\ auto[i] + intent[i].left <= Budget
      BY <2>2, RecordTyped DEF TransportInv, Counted
    <3>2. intent[i].left \in Nat
      BY <3>1, <2>1 DEF Record
    <3> QED
      BY <2>1, <3>1, <3>2
  <2>3. CASE ~Exists(i)
    BY <2>1, <2>3 DEF TransportInv, Counted
  <2> QED
    BY <2>2, <2>3
<1> QED
    BY <1>1, TransportInductive, PTL
=============================================================================
