--------------------------- MODULE DeliveryProofs ---------------------------
(***************************************************************************)
(* Proofs about how an answer is obtained: a run of the image runner       *)
(* (ImageBatch), what it delivers, what it deducts from the accounts, how  *)
(* often it asks the upstream, and that it gives its accounts back; one    *)
(* image conversation (ImagePoll), a chat (ChatStream) and the text of its *)
(* patches (DeltaText), and the answer of an external channel              *)
(* (ChannelAnswer).                                                        *)
(***************************************************************************)
EXTENDS MCDelivery, DataProofs

-----------------------------------------------------------------------------
(* The image runner.                                                       *)

\* A goroutine within runOnce, and one that holds an account there.
Holding == {"require", "upload", "converse", "poll", "download"}
Busy == {"dispatch"} \cup Holding
Stages == {"off", "check", "sent"} \cup Busy

\* Images that were generated for the user.
Generated == [batch : Nat, slot : Slots, account : Accounts, ref : {"generated"}]

\* What a slot may hold at each of its steps.
SlotShape(s) ==
    /\ spc[s] \in Holding => lease[s] \in Accounts
    /\ spc[s] \notin Holding => lease[s] = NoAccount
    /\ attempt[s] <= maxAttemptWindow
    /\ kept[s] # {} => spc[s] = "sent" /\ \E im \in Generated : kept[s] = {im}

\* The types that the other invariants need, the state of the slots, and the
\* rule that goroutines exist only while a batch is collected.
BatchShape ==
    /\ pc \in {"start", "batch", "collect", "archive", "persist", "decr", "done"}
    /\ batch \in Nat
    /\ spc \in [Slots -> Stages]
    /\ attempt \in [Slots -> Nat]
    /\ lease \in [Slots -> Accounts \cup {NoAccount}]
    /\ refs \in [Slots -> SUBSET {"generated"}]
    /\ kept \in [Slots -> SUBSET Generated]
    /\ sent \in Seq(Slots)
    /\ out \subseteq Accounts
    /\ calls \in Nat
    /\ \A s \in Slots : SlotShape(s)
    /\ \A i \in 1 .. Len(sent) : kept[sent[i]] # {}
    /\ pc # "collect" => sent = <<>> /\ \A s \in Slots : spc[s] = "off"

\* Everything outside the goroutines.
RunFrame == UNCHANGED <<pc, batch, resultVars, rowVars, cancelled>>

\* The step of one goroutine: it goes on within runOnce, starts another
\* attempt, gives up, or delivers.
SlotGoesOn(s) ==
    /\ spc'[s] \in Busy
    /\ attempt'[s] = attempt[s]
    /\ calls' = IF spc[s] = "check" THEN calls + 1 ELSE calls
    /\ UNCHANGED <<kept, sent>>

SlotRetries(s) ==
    /\ spc[s] \in Busy
    /\ spc'[s] = "check"
    /\ attempt'[s] = attempt[s] + 1
    /\ attempt[s] < maxAttemptWindow
    /\ UNCHANGED <<kept, sent, calls>>

SlotGivesUp(s) ==
    /\ spc'[s] = "sent"
    /\ attempt'[s] = attempt[s]
    /\ spc[s] = "check" => cancelled
    /\ kept' = [kept EXCEPT ![s] = {}]
    /\ UNCHANGED <<sent, calls>>

SlotDelivers(s) ==
    /\ spc[s] = "download"
    /\ spc'[s] = "sent"
    /\ attempt'[s] = attempt[s]
    /\ \E im \in Generated : kept' = [kept EXCEPT ![s] = {im}]
    /\ sent' = Append(sent, s)
    /\ UNCHANGED calls

SlotStep(s) ==
    /\ spc[s] \in Busy \cup {"check"}
    /\ RunFrame
    /\ spc' \in [Slots -> Stages]
    /\ attempt' \in [Slots -> Nat]
    /\ lease' \in [Slots -> Accounts \cup {NoAccount}]
    /\ refs' \in [Slots -> SUBSET {"generated"}]
    /\ out' \subseteq Accounts
    /\ \A t \in Slots \ {s} : spc'[t] = spc[t] /\ attempt'[t] = attempt[t] /\ lease'[t] = lease[t]
    /\ spc'[s] \in Holding => lease'[s] \in Accounts
    /\ spc'[s] \notin Holding => lease'[s] = NoAccount
    /\ SlotGoesOn(s) \/ SlotRetries(s) \/ SlotGivesUp(s) \/ SlotDelivers(s)

\* The window is a positive number, and so is the number of batches.
LEMMA Windows ==
    /\ maxAttemptWindow \in Nat /\ maxAttemptWindow >= 1
    /\ maxBatches \in Nat /\ maxBatches >= 1
    /\ N \in Nat /\ N >= 1
BY ImageBatchAssumption DEF maxAttemptWindow, maxBatches

\* runOnce returns with an error.
LEMMA FailIsSlotStep ==
    ASSUME BatchShape, NEW s \in Slots, NEW code, spc[s] \in Busy, Fail(s, code),
           out' \subseteq Accounts, calls' = calls
    PROVE  SlotStep(s)
<1>1. /\ lease' = [lease EXCEPT ![s] = NoAccount]
      /\ refs' = [refs EXCEPT ![s] = {}]
      /\ RunFrame
  BY DEF Fail, Release, RunFrame
<1>2. /\ lease' \in [Slots -> Accounts \cup {NoAccount}]
      /\ refs' \in [Slots -> SUBSET {"generated"}]
      /\ lease'[s] = NoAccount
      /\ \A t \in Slots \ {s} : lease'[t] = lease[t]
  BY <1>1 DEF BatchShape
<1>3. CASE /\ attempt[s] < maxAttemptWindow
           /\ Goto(s, "check")
           /\ attempt' = [attempt EXCEPT ![s] = @ + 1]
           /\ UNCHANGED <<kept, sent>>
  <2>1. spc' = [spc EXCEPT ![s] = "check"]
    BY <1>3 DEF Goto
  <2>2. spc' \in [Slots -> Stages] /\ spc'[s] = "check" /\ \A t \in Slots \ {s} : spc'[t] = spc[t]
    BY <2>1 DEF BatchShape, Stages
  <2>3. /\ attempt' \in [Slots -> Nat] /\ attempt'[s] = attempt[s] + 1
        /\ \A t \in Slots \ {s} : attempt'[t] = attempt[t]
    BY <1>3 DEF BatchShape
  <2>4. SlotRetries(s)
    BY <1>3, <2>2, <2>3 DEF SlotRetries
  <2>5. "check" \notin Holding
    BY DEF Holding
  <2> QED BY <1>1, <1>2, <2>2, <2>3, <2>4, <2>5 DEF SlotStep
<1>4. CASE Send(s, {}) /\ UNCHANGED attempt
  <2>1. /\ spc' = [spc EXCEPT ![s] = "sent"]
        /\ kept' = [kept EXCEPT ![s] = {}]
        /\ sent' = sent
    BY <1>4 DEF Send, Goto
  <2>2. spc' \in [Slots -> Stages] /\ spc'[s] = "sent" /\ \A t \in Slots \ {s} : spc'[t] = spc[t]
    BY <2>1 DEF BatchShape, Stages
  <2>3. spc[s] # "check" /\ "sent" \notin Holding
    BY DEF Busy, Holding
  <2>4. SlotGivesUp(s)
    BY <1>4, <2>1, <2>2, <2>3 DEF SlotGivesUp
  <2>5. attempt' \in [Slots -> Nat]
    BY <1>4 DEF BatchShape
  <2> QED BY <1>1, <1>2, <1>4, <2>2, <2>3, <2>4, <2>5 DEF SlotStep
<1> QED BY <1>3, <1>4 DEF Fail

\* A step within runOnce that keeps the account.
LEMMA StageIsSlotStep ==
    ASSUME BatchShape, NEW s \in Slots, NEW l \in Holding, spc[s] \in Holding, Goto(s, l),
           refs' \in [Slots -> SUBSET {"generated"}],
           UNCHANGED <<pc, batch, attempt, lease, kept, sent, out, calls, resultVars, rowVars, cancelled>>
    PROVE  SlotStep(s)
<1>1. spc' = [spc EXCEPT ![s] = l]
  BY DEF Goto
<1>2. spc' \in [Slots -> Stages] /\ spc'[s] = l /\ \A t \in Slots \ {s} : spc'[t] = spc[t]
  BY <1>1 DEF BatchShape, Stages, Busy
<1>3. lease[s] \in Accounts
  BY DEF BatchShape, SlotShape
<1>4. l \in Busy /\ spc[s] # "check" /\ spc[s] \in Busy
  BY DEF Busy, Holding
<1>5. SlotGoesOn(s)
  BY <1>2, <1>4 DEF SlotGoesOn
<1>6. /\ attempt' \in [Slots -> Nat]
      /\ lease' \in [Slots -> Accounts \cup {NoAccount}]
      /\ out' \subseteq Accounts
  BY DEF BatchShape
<1>7. RunFrame
  BY DEF RunFrame
<1> QED BY <1>2, <1>3, <1>4, <1>5, <1>6, <1>7 DEF SlotStep

\* Every step of a goroutine is one of the four.
LEMMA RunOnceIsSlotStep ==
    ASSUME BatchShape, NEW s \in Slots, RunOnce(s)
    PROVE  SlotStep(s)
<1>0. /\ out \subseteq Accounts
      /\ refs \in [Slots -> SUBSET {"generated"}]
      /\ lease \in [Slots -> Accounts \cup {NoAccount}]
      /\ attempt \in [Slots -> Nat]
      /\ kept \in [Slots -> SUBSET Generated]
      /\ spc[s] \in Holding => lease[s] \in Accounts
      /\ spc[s] \notin Holding => lease[s] = NoAccount
  BY DEF BatchShape, SlotShape
<1>1. CASE CheckContext(s)
  <2>0. /\ spc[s] = "check" /\ RunFrame /\ UNCHANGED <<attempt, lease, refs, out>>
        /\ lease[s] = NoAccount
    BY <1>0, <1>1 DEF CheckContext, RunFrame, Holding
  <2>1. CASE cancelled /\ Send(s, {}) /\ UNCHANGED calls
    <3>1. /\ spc' = [spc EXCEPT ![s] = "sent"]
          /\ kept' = [kept EXCEPT ![s] = {}]
          /\ sent' = sent
      BY <2>1 DEF Send, Goto
    <3>2. spc' \in [Slots -> Stages] /\ spc'[s] = "sent" /\ \A t \in Slots \ {s} : spc'[t] = spc[t]
      BY <3>1 DEF BatchShape, Stages
    <3>3. SlotGivesUp(s)
      BY <2>0, <2>1, <3>1, <3>2 DEF SlotGivesUp
    <3> QED BY <1>0, <2>0, <3>2, <3>3 DEF SlotStep, Holding
  <2>2. CASE /\ Goto(s, "dispatch")
             /\ calls' = calls + 1
             /\ UNCHANGED <<kept, sent>>
    <3>1. spc' = [spc EXCEPT ![s] = "dispatch"]
      BY <2>2 DEF Goto
    <3>2. /\ spc' \in [Slots -> Stages] /\ spc'[s] = "dispatch"
          /\ \A t \in Slots \ {s} : spc'[t] = spc[t]
      BY <3>1 DEF BatchShape, Stages, Busy
    <3>3. SlotGoesOn(s)
      BY <2>0, <2>2, <3>2 DEF SlotGoesOn, Busy
    <3> QED BY <1>0, <2>0, <3>2, <3>3 DEF SlotStep, Holding
  <2> QED BY <1>1, <2>1, <2>2 DEF CheckContext
<1>2. ASSUME NEW a \in Accounts, Dispatch(s, a) PROVE SlotStep(s)
  <2>1. /\ spc[s] = "dispatch" /\ RunFrame /\ UNCHANGED <<attempt, refs, kept, sent, out, calls>>
        /\ lease' = [lease EXCEPT ![s] = a]
        /\ spc' = [spc EXCEPT ![s] = "require"]
    BY <1>2 DEF Dispatch, Goto, RunFrame
  <2>2. /\ spc' \in [Slots -> Stages] /\ spc'[s] = "require"
        /\ \A t \in Slots \ {s} : spc'[t] = spc[t]
    BY <2>1 DEF BatchShape, Stages, Busy, Holding
  <2>3. /\ lease' \in [Slots -> Accounts \cup {NoAccount}] /\ lease'[s] \in Accounts
        /\ \A t \in Slots \ {s} : lease'[t] = lease[t]
    BY <1>0, <2>1
  <2>4. SlotGoesOn(s)
    BY <2>1, <2>2 DEF SlotGoesOn, Busy, Holding
  <2> QED BY <1>0, <2>1, <2>2, <2>3, <2>4 DEF SlotStep, Busy, Holding
<1>3. CASE DispatchFails(s)
  <2>1. spc[s] \in Busy /\ out' \subseteq Accounts /\ calls' = calls
    BY <1>0, <1>3 DEF DispatchFails, Busy
  <2> QED BY <1>3, <2>1, FailIsSlotStep DEF DispatchFails
<1>4. CASE Require(s)
  <2>1. spc[s] \in Holding /\ "upload" \in Holding /\ "converse" \in Holding
    BY <1>4 DEF Require, Holding
  <2>2. PICK l \in Holding : Goto(s, l)
    BY <1>4, <2>1 DEF Require
  <2> QED BY <1>0, <1>4, <2>1, <2>2, StageIsSlotStep DEF Require
<1>5. ASSUME NEW code, spc[s] \in Holding, Fail(s, code), markAccountFailure(s, code), calls' = calls
      PROVE  SlotStep(s)
  <2>1. spc[s] \in Busy /\ out' \subseteq Accounts
    BY <1>0, <1>5 DEF Busy, markAccountFailure
  <2> QED BY <1>5, <2>1, FailIsSlotStep
<1>6. CASE RequireFails(s)
  BY <1>5, <1>6 DEF RequireFails, Holding
<1>7. CASE Upload(s)
  <2>1. spc[s] \in Holding /\ "converse" \in Holding
    BY <1>7 DEF Upload, Holding
  <2> QED BY <1>0, <1>7, <2>1, StageIsSlotStep DEF Upload
<1>8. CASE UploadFails(s)
  BY <1>5, <1>8 DEF UploadFails, Holding
<1>9. ASSUME NEW seen \in SUBSET Refs, Converse(s, seen) PROVE SlotStep(s)
  <2>1. stripReferenceRefs(seen) \subseteq {"generated"}
    BY <1>9 DEF Converse, stripReferenceRefs, Refs
  <2>2. refs' \in [Slots -> SUBSET {"generated"}]
    BY <1>0, <1>9, <2>1 DEF Converse
  <2>3. spc[s] \in Holding /\ "download" \in Holding /\ "poll" \in Holding
    BY <1>9 DEF Converse, Holding
  <2>4. PICK l \in Holding : Goto(s, l)
    BY <1>9, <2>3 DEF Converse
  <2> QED BY <1>9, <2>2, <2>3, <2>4, StageIsSlotStep DEF Converse
<1>10. CASE ConverseFails(s)
  BY <1>5, <1>10 DEF ConverseFails, Holding
<1>11. CASE Poll(s)
  <2>1. stripReferenceRefs({"generated"}) \subseteq {"generated"}
    BY DEF stripReferenceRefs
  <2>2. refs' \in [Slots -> SUBSET {"generated"}]
    BY <1>0, <1>11, <2>1 DEF Poll
  <2>3. spc[s] \in Holding /\ "download" \in Holding
    BY <1>11 DEF Poll, Holding
  <2> QED BY <1>11, <2>2, <2>3, StageIsSlotStep DEF Poll
<1>12. CASE PollFails(s)
  <2>1. spc[s] \in Busy /\ out' \subseteq Accounts /\ calls' = calls
    BY <1>0, <1>12 DEF PollFails, Busy, Holding
  <2> QED BY <1>12, <2>1, FailIsSlotStep DEF PollFails
<1>13. ASSUME NEW r \in Refs, Download(s, r) PROVE SlotStep(s)
  <2> DEFINE im == [batch |-> batch, slot |-> s, account |-> lease[s], ref |-> r]
  <2>1. /\ spc[s] = "download" /\ RunFrame /\ UNCHANGED <<attempt, out, calls>>
        /\ r \in refs[s]
        /\ lease' = [lease EXCEPT ![s] = NoAccount]
        /\ refs' = [refs EXCEPT ![s] = {}]
        /\ Send(s, {im})
    BY <1>13 DEF Download, Release, RunFrame
  <2>2. spc[s] \in Holding /\ spc[s] \in Busy /\ "sent" \notin Holding
    BY <2>1 DEF Holding, Busy
  <2>3. r = "generated" /\ lease[s] \in Accounts /\ batch \in Nat
    BY <1>0, <2>1, <2>2 DEF BatchShape
  <2>4. im \in Generated
    BY <2>3 DEF Generated
  <2> HIDE DEF im
  <2>5. /\ spc' = [spc EXCEPT ![s] = "sent"]
        /\ kept' = [kept EXCEPT ![s] = {im}]
        /\ sent' = Append(sent, s)
    BY <2>1 DEF Send, Goto
  <2>6. spc' \in [Slots -> Stages] /\ spc'[s] = "sent" /\ \A t \in Slots \ {s} : spc'[t] = spc[t]
    BY <2>5 DEF BatchShape, Stages
  <2>7. SlotDelivers(s)
    BY <2>1, <2>4, <2>5, <2>6 DEF SlotDelivers
  <2>8. /\ lease' \in [Slots -> Accounts \cup {NoAccount}] /\ lease'[s] = NoAccount
        /\ \A t \in Slots \ {s} : lease'[t] = lease[t]
        /\ refs' \in [Slots -> SUBSET {"generated"}]
    BY <1>0, <2>1
  <2> QED BY <1>0, <2>1, <2>2, <2>6, <2>7, <2>8 DEF SlotStep
<1>14. CASE DownloadFails(s)
  BY <1>5, <1>14 DEF DownloadFails, Holding
<1> QED BY <1>1, <1>2, <1>3, <1>4, <1>6, <1>7, <1>8, <1>9, <1>10, <1>11, <1>12, <1>13, <1>14
        DEF RunOnce

-----------------------------------------------------------------------------
(* The shape of the run.                                                   *)

\* The steps of Run itself and of the clock leave the goroutines alone, but
\* for those that start and collect a batch.
LEMMA QuietSteps ==
    ASSUME Start \/ ArchiveResult \/ Persist \/ (\E a \in Accounts : DecrQuota(a)) \/ Cancel
    PROVE  /\ UNCHANGED <<goVars, batch, files, archive, attempts, quotaUsed>>
           /\ (pc # "collect" /\ pc' # "collect") \/ UNCHANGED pc
           /\ pc' \in {"batch", "persist", "decr", "done"} \/ UNCHANGED pc
           /\ status' = "failed" \/ UNCHANGED status
BY DEF Start, ArchiveResult, Persist, DecrQuota, Cancel, resultVars, goVars

\* Goroutines exist only while a batch is collected; one holds an account
\* exactly between Dispatch and the end of runOnce, has an image only when it
\* has sent it, and is within its attempts.
THEOREM BatchShapeHolds == Spec => []BatchShape
<1>1. Init => BatchShape
  <2> SUFFICES ASSUME Init PROVE BatchShape
    OBVIOUS
  <2>1. /\ \A s \in Slots : spc[s] = "off" /\ lease[s] = NoAccount /\ attempt[s] = 0 /\ kept[s] = {}
        /\ spc \in [Slots -> Stages] /\ attempt \in [Slots -> Nat]
        /\ lease \in [Slots -> Accounts \cup {NoAccount}]
        /\ refs \in [Slots -> SUBSET {"generated"}] /\ kept \in [Slots -> SUBSET Generated]
    BY DEF Init, Stages
  <2>2. \A s \in Slots : SlotShape(s)
    BY <2>1, Windows DEF SlotShape, Holding
  <2>3. sent = <<>> /\ sent \in Seq(Slots) /\ Len(sent) = 0
    BY DEF Init
  <2> QED BY <2>1, <2>2, <2>3 DEF Init, BatchShape
<1>2. BatchShape /\ [Next]_vars => BatchShape'
  <2> SUFFICES ASSUME BatchShape, [Next]_vars PROVE BatchShape'
    OBVIOUS
  <2>0. /\ spc \in [Slots -> Stages]
        /\ attempt \in [Slots -> Nat]
        /\ kept \in [Slots -> SUBSET Generated]
        /\ sent \in Seq(Slots)
        /\ \A s \in Slots : SlotShape(s)
        /\ \A i \in 1 .. Len(sent) : kept[sent[i]] # {}
        /\ pc # "collect" => sent = <<>> /\ \A s \in Slots : spc[s] = "off"
    BY DEF BatchShape
  <2>1. ASSUME NEW s \in Slots, SlotStep(s) PROVE BatchShape'
    <3>1. /\ spc[s] # "off" /\ spc[s] # "sent"
      BY <2>1 DEF SlotStep, Busy, Holding
    <3>2. pc = "collect" /\ pc' = "collect" /\ batch' = batch
      BY <2>0, <2>1, <3>1 DEF SlotStep, RunFrame
    <3>3. kept[s] = {}
      BY <2>0, <3>1 DEF SlotShape
    <3>4. /\ kept' \in [Slots -> SUBSET Generated] /\ sent' \in Seq(Slots) /\ calls' \in Nat
          /\ \A t \in Slots \ {s} : kept'[t] = kept[t]
          /\ \A i \in 1 .. Len(sent') : kept'[sent'[i]] # {}
          /\ kept'[s] # {} => spc'[s] = "sent" /\ \E im \in Generated : kept'[s] = {im}
          /\ attempt'[s] <= maxAttemptWindow
      <4>0. attempt[s] \in Nat /\ attempt[s] <= maxAttemptWindow /\ calls \in Nat
        BY <2>0 DEF SlotShape, BatchShape
      <4>1. CASE SlotGoesOn(s)
        BY <2>0, <3>3, <4>0, <4>1 DEF SlotGoesOn
      <4>2. CASE SlotRetries(s)
        <5>1. /\ UNCHANGED <<kept, sent, calls>>
              /\ attempt'[s] = attempt[s] + 1 /\ attempt[s] < maxAttemptWindow
          BY <4>2 DEF SlotRetries
        <5>2. attempt'[s] <= maxAttemptWindow
          BY <4>0, <5>1, Windows
        <5> QED BY <2>0, <3>3, <4>0, <5>1, <5>2
      <4>3. CASE SlotGivesUp(s)
        <5>1. kept' = kept
          BY <2>0, <3>3, <4>3 DEF SlotGivesUp
        <5> QED BY <2>0, <3>3, <4>0, <4>3, <5>1 DEF SlotGivesUp
      <4>4. CASE SlotDelivers(s)
        <5>1. PICK im \in Generated : kept' = [kept EXCEPT ![s] = {im}]
          BY <4>4 DEF SlotDelivers
        <5>2. /\ kept' \in [Slots -> SUBSET Generated] /\ kept'[s] = {im}
              /\ \A t \in Slots \ {s} : kept'[t] = kept[t]
          BY <2>0, <5>1
        <5>3. sent' = Append(sent, s) /\ spc'[s] = "sent" /\ attempt'[s] = attempt[s] /\ calls' = calls
          BY <4>4 DEF SlotDelivers
        <5>4. /\ sent' \in Seq(Slots) /\ Len(sent') = Len(sent) + 1 /\ sent'[Len(sent) + 1] = s
              /\ \A i \in 1 .. Len(sent) : sent'[i] = sent[i] /\ sent[i] \in Slots
          BY <2>0, <5>3
        <5>5. ASSUME NEW i \in 1 .. Len(sent') PROVE kept'[sent'[i]] # {}
          <6>1. CASE i = Len(sent) + 1
            BY <5>2, <5>4, <6>1
          <6>2. CASE i \in 1 .. Len(sent)
            BY <2>0, <5>2, <5>4, <6>2
          <6>3. Len(sent) \in Nat
            BY <2>0
          <6> QED BY <5>4, <6>1, <6>2, <6>3
        <5> QED BY <4>0, <5>2, <5>3, <5>4, <5>5
      <4> QED BY <2>1, <4>1, <4>2, <4>3, <4>4 DEF SlotStep
    <3>5. ASSUME NEW t \in Slots PROVE SlotShape(t)'
      <4>1. CASE t = s
        BY <2>1, <3>4, <4>1 DEF SlotShape, SlotStep
      <4>2. CASE t # s
        <5>1. spc'[t] = spc[t] /\ attempt'[t] = attempt[t] /\ lease'[t] = lease[t] /\ kept'[t] = kept[t]
          BY <2>1, <3>4, <4>2 DEF SlotStep
        <5> QED BY <2>0, <5>1 DEF SlotShape
      <4> QED BY <4>1, <4>2
    <3> QED BY <2>0, <2>1, <3>2, <3>4, <3>5 DEF BatchShape, SlotStep
  <2>2. CASE RunBatch
    <3>1. /\ pc # "collect" /\ pc' = "collect" /\ batch' = batch + 1
          /\ spc' = [s \in Slots |-> IF s <= N - Len(files) THEN "check" ELSE "off"]
          /\ attempt' = [s \in Slots |-> IF s <= N - Len(files) THEN 1 ELSE 0]
          /\ kept' = [s \in Slots |-> {}]
          /\ UNCHANGED <<lease, refs, sent, out, calls>>
      BY <2>2 DEF RunBatch
    <3>2. /\ spc' \in [Slots -> Stages] /\ attempt' \in [Slots -> Nat]
          /\ kept' \in [Slots -> SUBSET Generated]
          /\ sent' = <<>> /\ Len(sent') = 0
      BY <2>0, <3>1 DEF Stages
    <3>3. ASSUME NEW t \in Slots PROVE SlotShape(t)'
      <4>1. lease[t] = NoAccount
        BY <2>0, <3>1 DEF SlotShape, Holding
      <4>2. spc'[t] \notin Holding
        BY <3>1 DEF Holding
      <4>3. attempt'[t] <= maxAttemptWindow
        BY <3>1, Windows
      <4> QED BY <3>1, <4>1, <4>2, <4>3 DEF SlotShape
    <3> QED BY <3>1, <3>2, <3>3 DEF BatchShape
  <2>3. CASE Merge
    <3>1. /\ \A s \in Slots : spc[s] \in {"off", "sent"}
          /\ spc' = [s \in Slots |-> "off"]
          /\ attempt' = [s \in Slots |-> 0]
          /\ kept' = [s \in Slots |-> {}]
          /\ sent' = <<>>
          /\ UNCHANGED <<batch, lease, refs, out, calls>>
      BY <2>3 DEF Merge
    <3>2. pc' \in {"archive", "persist", "batch"}
      BY <2>3 DEF Merge
    <3>3. /\ spc' \in [Slots -> Stages] /\ attempt' \in [Slots -> Nat]
          /\ kept' \in [Slots -> SUBSET Generated] /\ sent' \in Seq(Slots) /\ Len(sent') = 0
          /\ \A s \in Slots : spc'[s] = "off"
      BY <3>1 DEF Stages
    <3>4. ASSUME NEW t \in Slots PROVE SlotShape(t)'
      <4>1. spc[t] \notin Holding /\ spc'[t] \notin Holding
        BY <3>1 DEF Holding
      <4>2. lease'[t] = NoAccount
        BY <2>0, <3>1, <4>1 DEF SlotShape
      <4> QED BY <3>1, <4>1, <4>2, Windows DEF SlotShape
    <3> QED BY <3>1, <3>2, <3>3, <3>4 DEF BatchShape
  <2>4. CASE Start \/ ArchiveResult \/ Persist \/ (\E a \in Accounts : DecrQuota(a)) \/ Cancel
    <3>1. /\ UNCHANGED <<spc, attempt, lease, refs, kept, sent, out, calls, batch>>
          /\ (pc # "collect" /\ pc' # "collect") \/ UNCHANGED pc
          /\ pc' \in {"batch", "persist", "decr", "done"} \/ UNCHANGED pc
      BY <2>4, QuietSteps DEF goVars
    <3>2. \A t \in Slots : SlotShape(t)'
      BY <2>0, <3>1 DEF SlotShape
    <3> QED BY <3>1, <3>2 DEF BatchShape
  <2>5. CASE UNCHANGED vars
    BY <2>5 DEF vars, goVars, BatchShape, SlotShape
  <2> QED BY <2>1, <2>2, <2>3, <2>4, <2>5, RunOnceIsSlotStep DEF Next, Run
<1> QED BY <1>1, <1>2, PTL DEF Spec

-----------------------------------------------------------------------------
(* What is delivered, and what is deducted for it.                         *)

\* The places of an account's images in a sequence of them.
Places(seq, a) == {i \in 1 .. Len(seq) : seq[i].account = a}

\* The archive shows file i under the index i - 1.
ArchiveShape ==
    IF Archives
    THEN /\ Len(archive) = Len(files)
         /\ \A i \in 1 .. Len(files) : archive[i] = [index |-> i - 1, image |-> files[i]]
    ELSE archive = <<>>

\* What has been merged: never more than asked for, because a batch has one
\* goroutine for each missing image and each delivers once.
FilesShape ==
    /\ files \in Seq(Generated)
    /\ Len(files) <= N
    /\ \A i, j \in 1 .. Len(sent) : sent[i] = sent[j] => i = j
    /\ pc = "collect" => \A s \in Slots : s > N - Len(files) => spc[s] = "off"
    /\ status \in {"failed", "success"}
    /\ status = "success" => Len(files) = N
    /\ archive \in Seq([index : Nat, image : Generated])
    /\ ArchiveShape
    /\ quotaUsed \in [Accounts -> Nat]
    /\ \A a \in Accounts : quotaUsed[a] = Cardinality(Places(files, a))

\* Concatenation adds up the places.
LEMMA PlacesConcat ==
    ASSUME NEW f \in Seq(Generated), NEW g \in Seq(Generated), NEW a
    PROVE  /\ Cardinality(Places(f, a)) \in Nat
           /\ Cardinality(Places(g, a)) \in Nat
           /\ Cardinality(Places(f \o g, a)) = Cardinality(Places(f, a)) + Cardinality(Places(g, a))
<1> DEFINE m == Len(f)
           n == Len(g)
           A == Places(f, a)
           B == Places(g, a)
           C == {i \in m + 1 .. m + n : g[i - m].account = a}
<1>1. m \in Nat /\ n \in Nat /\ Len(f \o g) = m + n
  BY ConcatProperties
<1>2. /\ \A i \in 1 .. m : (f \o g)[i] = f[i]
      /\ \A i \in m + 1 .. m + n : (f \o g)[i] = g[i - m]
  BY ConcatProperties
<1>3. Places(f \o g, a) = A \cup C
  <2> DEFINE h == f \o g
  <2>1. Len(h) = m + n /\ (\A i \in 1 .. m : h[i] = f[i]) /\ \A i \in m + 1 .. m + n : h[i] = g[i - m]
    BY <1>1, <1>2
  <2>2. A = {i \in 1 .. m : f[i].account = a}
    BY DEF Places
  <2>3. Places(h, a) = {i \in 1 .. m + n : h[i].account = a}
    BY <2>1 DEF Places
  <2> HIDE DEF h, m, n, A
  <2>4. Places(h, a) = A \cup {i \in m + 1 .. m + n : g[i - m].account = a}
    BY <1>1, <2>1, <2>2, <2>3
  <2> QED BY <2>4 DEF h
<1>4. A \cap C = {}
  <2> HIDE DEF m, n
  <2> QED BY <1>1 DEF Places, m
<1>5. A \subseteq 1 .. m /\ B \subseteq 1 .. n /\ C \subseteq m + 1 .. m + n
  BY DEF Places
<1>6. IsFiniteSet(A) /\ IsFiniteSet(B) /\ IsFiniteSet(C)
  <2> HIDE DEF m, n, A, B, C
  <2>0. 1 \in Int /\ m \in Int /\ n \in Int /\ m + 1 \in Int /\ m + n \in Int
    BY <1>1
  <2>1. IsFiniteSet(1 .. m) /\ IsFiniteSet(1 .. n) /\ IsFiniteSet(m + 1 .. m + n)
    BY <2>0, FS_Interval
  <2> QED BY <1>5, <2>1, FS_Subset
<1>7. Cardinality(C) = Cardinality(B)
  <2> DEFINE F == [i \in C |-> i - m]
  <2>1. F \in [C -> B]
    <3> HIDE DEF m, n
    <3> QED BY <1>1 DEF Places, n
  <2>2. \A i, j \in C : F[i] = F[j] => i = j
    <3> HIDE DEF m, n
    <3> QED BY <1>1
  <2>3. \A j \in B : \E i \in C : F[i] = j
    <3> SUFFICES ASSUME NEW j \in B PROVE \E i \in C : F[i] = j
      OBVIOUS
    <3>1. j \in 1 .. n /\ g[j].account = a
      BY DEF Places
    <3> HIDE DEF m, n
    <3>2. j + m \in m + 1 .. m + n /\ (j + m) - m = j
      BY <1>1, <3>1
    <3>3. j + m \in C
      BY <3>1, <3>2
    <3>4. F[j + m] = j
      BY <3>2, <3>3
    <3> QED BY <3>3, <3>4
  <2> HIDE DEF F, B, C
  <2>4. F \in Bijection(C, B)
    BY <2>1, <2>2, <2>3 DEF Bijection, Injection, Surjection, IsInjective
  <2>5. ExistsBijection(C, B)
    BY <2>4 DEF ExistsBijection
  <2> QED BY <1>6, <2>5, FS_Bijection
<1>8. Cardinality(A) \in Nat /\ Cardinality(B) \in Nat /\ Cardinality(C) \in Nat
  <2> HIDE DEF A, B, C
  <2> QED BY <1>6, FS_CardinalityType
<1>9. Cardinality(A \cup C) = Cardinality(A) + Cardinality(C) - Cardinality(A \cap C)
  <2> HIDE DEF A, C
  <2> QED BY <1>6, FS_Union
<1>10. Cardinality(A \cap C) = 0
  <2> HIDE DEF A, C
  <2> QED BY <1>4, FS_EmptySet
<1> HIDE DEF A, B, C
<1>11. Cardinality(A \cup C) = Cardinality(A) + Cardinality(B)
  BY <1>7, <1>8, <1>9, <1>10
<1> QED BY <1>3, <1>8, <1>11 DEF A, B

\* As many results as goroutines at most.
LEMMA BatchFits ==
    ASSUME BatchShape, FilesShape, pc = "collect"
    PROVE  Len(files) + Len(sent) <= N
<1> DEFINE m == N - Len(files)
           n == Len(sent)
<1>1. m \in Nat /\ n \in Nat /\ N \in Nat /\ Len(files) \in Nat
  BY Windows DEF FilesShape, BatchShape
<1>2. \A i \in 1 .. n : sent[i] \in 1 .. m
  <2> SUFFICES ASSUME NEW i \in 1 .. n PROVE sent[i] \in 1 .. m
    OBVIOUS
  <2>1. sent[i] \in Slots /\ kept[sent[i]] # {}
    BY DEF BatchShape
  <2>2. spc[sent[i]] = "sent"
    BY <2>1 DEF BatchShape, SlotShape
  <2>3. ~(sent[i] > m)
    BY <2>1, <2>2 DEF FilesShape
  <2> HIDE DEF m, n
  <2> QED BY <1>1, <2>1, <2>3 DEF Slots
<1> DEFINE F == [i \in 1 .. n |-> sent[i]]
<1>3. F \in Injection(1 .. n, 1 .. m)
  <2>1. F \in [1 .. n -> 1 .. m]
    BY <1>2
  <2>2. \A i, j \in 1 .. n : F[i] = F[j] => i = j
    BY DEF FilesShape
  <2> HIDE DEF F, m, n
  <2> QED BY <2>1, <2>2 DEF Injection, IsInjective
<1>4. IsFiniteSet(1 .. m) /\ Cardinality(1 .. m) = m /\ Cardinality(1 .. n) = n
  <2> HIDE DEF m, n
  <2>1. 1 \in Int /\ m \in Int /\ n \in Int
    BY <1>1
  <2>2. /\ IsFiniteSet(1 .. m)
        /\ Cardinality(1 .. m) = IF 1 > m THEN 0 ELSE m - 1 + 1
        /\ Cardinality(1 .. n) = IF 1 > n THEN 0 ELSE n - 1 + 1
    BY <2>1, FS_Interval
  <2> QED BY <1>1, <2>2
<1>5. n <= m
  <2> HIDE DEF F, m, n
  <2>1. Cardinality(1 .. n) <= Cardinality(1 .. m)
    BY <1>3, <1>4, FS_Injection
  <2> QED BY <1>4, <2>1
<1> QED BY <1>1, <1>5

\* What Merge adds to the files: the images of the batch, in arrival order.
NewFiles == [i \in 1 .. Len(sent) |-> Image(sent[i])]
NewArchive == [i \in 1 .. Len(NewFiles) |-> [index |-> ArchiveIndex(i), image |-> NewFiles[i]]]

LEMMA NewFilesGenerated ==
    ASSUME BatchShape
    PROVE  NewFiles \in Seq(Generated) /\ Len(NewFiles) = Len(sent)
<1>1. Len(sent) \in Nat
  BY DEF BatchShape
<1>2. ASSUME NEW i \in 1 .. Len(sent) PROVE Image(sent[i]) \in Generated
  <2>1. sent[i] \in Slots /\ kept[sent[i]] # {}
    BY DEF BatchShape
  <2>2. PICK im \in Generated : kept[sent[i]] = {im}
    BY <2>1 DEF BatchShape, SlotShape
  <2> QED BY <2>2 DEF Image
<1>3. NewFiles \in [1 .. Len(sent) -> Generated]
  BY <1>2 DEF NewFiles
<1> QED BY <1>1, <1>3, SeqDef

\* The merge keeps the archive in step with the files.
LEMMA MergeArchive ==
    ASSUME BatchShape, FilesShape, Merge
    PROVE  /\ archive' \in Seq([index : Nat, image : Generated])
           /\ ArchiveShape'
<1> DEFINE R == [index : Nat, image : Generated]
           m == Len(files)
           n == Len(sent)
<1>1. /\ files' = files \o NewFiles
      /\ archive' = archive \o IF Archives THEN NewArchive ELSE <<>>
  BY DEF Merge, NewFiles, NewArchive
<1>2. /\ files \in Seq(Generated) /\ NewFiles \in Seq(Generated) /\ archive \in Seq(R)
      /\ m \in Nat /\ n \in Nat /\ Len(NewFiles) = n
  <2>1. files \in Seq(Generated) /\ archive \in Seq(R) /\ sent \in Seq(Slots)
    BY DEF FilesShape, BatchShape
  <2>2. NewFiles \in Seq(Generated) /\ Len(NewFiles) = n
    BY NewFilesGenerated
  <2> QED BY <2>1, <2>2, LenProperties
<1>3. CASE ~Archives
  <2>1. archive = <<>> /\ archive' = <<>> \o <<>>
    BY <1>1, <1>3 DEF FilesShape, ArchiveShape
  <2>2. archive' = <<>>
    BY <2>1
  <2> QED BY <1>3, <2>2 DEF ArchiveShape
<1>4. CASE Archives
  <2>1. NewArchive \in Seq(R) /\ Len(NewArchive) = n
    <3>1. \A i \in 1 .. n : ArchiveIndex(i) \in Nat /\ NewFiles[i] \in Generated
      BY <1>2 DEF ArchiveIndex
    <3>2. NewArchive \in [1 .. n -> R]
      BY <1>2, <3>1 DEF NewArchive
    <3> HIDE DEF R, n
    <3> QED BY <1>2, <3>2, SeqDef
  <2>2. \A i \in 1 .. n : NewArchive[i] = [index |-> m + i - 1, image |-> NewFiles[i]]
    BY <1>2 DEF NewArchive, ArchiveIndex
  <2>3. Len(archive) = m /\ \A i \in 1 .. m : archive[i] = [index |-> i - 1, image |-> files[i]]
    BY <1>4 DEF FilesShape, ArchiveShape
  <2> HIDE DEF R, m, n
  <2>4. archive' = archive \o NewArchive
    BY <1>1, <1>4
  <2>5. /\ archive' \in Seq(R) /\ Len(archive') = m + n
        /\ \A i \in 1 .. m + n : archive'[i] = IF i <= m THEN archive[i] ELSE NewArchive[i - m]
    <3> HIDE DEF NewArchive
    <3>1. /\ archive \o NewArchive \in Seq(R)
          /\ Len(archive \o NewArchive) = Len(archive) + Len(NewArchive)
          /\ \A i \in 1 .. Len(archive) + Len(NewArchive) :
                (archive \o NewArchive)[i]
                  = IF i <= Len(archive) THEN archive[i] ELSE NewArchive[i - Len(archive)]
      BY <1>2, <2>1, ConcatProperties
    <3> QED BY <2>1, <2>3, <2>4, <3>1
  <2>6. /\ Len(files') = m + n
        /\ \A i \in 1 .. m + n : files'[i] = IF i <= m THEN files[i] ELSE NewFiles[i - m]
    BY <1>1, <1>2, ConcatProperties DEF m
  <2>7. ASSUME NEW i \in 1 .. m + n PROVE archive'[i] = [index |-> i - 1, image |-> files'[i]]
    <3>1. CASE i <= m
      <4>1. i \in 1 .. m
        BY <1>2, <3>1
      <4> QED BY <2>3, <2>5, <2>6, <3>1, <4>1
    <3>2. CASE ~(i <= m)
      <4>1. i - m \in 1 .. n /\ m + (i - m) - 1 = i - 1
        BY <1>2, <3>2
      <4>2. NewArchive[i - m] = [index |-> m + (i - m) - 1, image |-> NewFiles[i - m]]
        BY <2>2, <4>1
      <4>3. archive'[i] = NewArchive[i - m] /\ files'[i] = NewFiles[i - m]
        BY <2>5, <2>6, <3>2
      <4> QED BY <4>1, <4>2, <4>3
    <3> QED BY <3>1, <3>2
  <2> QED BY <1>4, <2>5, <2>6, <2>7 DEF ArchiveShape, R
<1> QED BY <1>3, <1>4

\* The merge counts every image for the account it came from.
LEMMA MergeQuota ==
    ASSUME BatchShape, FilesShape, Merge
    PROVE  /\ quotaUsed' \in [Accounts -> Nat]
           /\ \A a \in Accounts : quotaUsed'[a] = Cardinality(Places(files', a))
<1>1. files' = files \o NewFiles /\ quotaUsed' = [a \in Accounts |-> QuotaOf(a)]
  BY DEF Merge, NewFiles
<1>2. files \in Seq(Generated) /\ NewFiles \in Seq(Generated) /\ Len(NewFiles) = Len(sent)
  BY NewFilesGenerated DEF FilesShape
<1>3. ASSUME NEW a \in Accounts
      PROVE  QuotaOf(a) \in Nat /\ QuotaOf(a) = Cardinality(Places(files \o NewFiles, a))
  <2>1. Places(NewFiles, a) = {i \in 1 .. Len(sent) : Image(sent[i]).account = a}
    BY <1>2 DEF Places, NewFiles
  <2>2. QuotaOf(a) = Cardinality(Places(files, a)) + Cardinality(Places(NewFiles, a))
    BY <2>1 DEF QuotaOf, FilesShape
  <2>3. /\ Cardinality(Places(files, a)) \in Nat
        /\ Cardinality(Places(NewFiles, a)) \in Nat
        /\ Cardinality(Places(files \o NewFiles, a))
             = Cardinality(Places(files, a)) + Cardinality(Places(NewFiles, a))
    BY <1>2, PlacesConcat
  <2> QED BY <2>2, <2>3
<1> QED BY <1>1, <1>3

\* The merged files are generated images, at most N of them, archived under
\* their own indexes and counted for their accounts.
THEOREM FilesShapeHolds == Spec => []FilesShape
<1>1. Init => FilesShape
  <2> SUFFICES ASSUME Init PROVE FilesShape
    OBVIOUS
  <2>1. files = <<>> /\ archive = <<>> /\ sent = <<>> /\ status = "failed" /\ pc = "start"
    BY DEF Init
  <2>2. Len(files) = 0 /\ Len(archive) = 0 /\ Len(sent) = 0
    BY <2>1
  <2>3. \A a \in Accounts : quotaUsed[a] = Cardinality(Places(files, a))
    <3>1. \A a \in Accounts : Places(files, a) = {} /\ quotaUsed[a] = 0
      BY <2>2 DEF Places, Init
    <3> QED BY <3>1, FS_EmptySet
  <2>4. quotaUsed \in [Accounts -> Nat]
    BY DEF Init
  <2> QED BY <2>1, <2>2, <2>3, <2>4, Windows DEF FilesShape, ArchiveShape
<1>2. BatchShape /\ FilesShape /\ [Next]_vars => FilesShape'
  <2> SUFFICES ASSUME BatchShape, FilesShape, [Next]_vars PROVE FilesShape'
    OBVIOUS
  <2>0. /\ files \in Seq(Generated) /\ Len(files) \in Nat /\ Len(files) <= N
        /\ \A i, j \in 1 .. Len(sent) : sent[i] = sent[j] => i = j
        /\ sent \in Seq(Slots) /\ Len(sent) \in Nat
        /\ pc # "collect" => sent = <<>> /\ \A s \in Slots : spc[s] = "off"
    BY DEF BatchShape, FilesShape
  <2>1. ASSUME NEW s \in Slots, SlotStep(s) PROVE FilesShape'
    <3>1. UNCHANGED <<pc, files, archive, quotaUsed, status>>
      BY <2>1 DEF SlotStep, RunFrame, resultVars
    <3>2. spc[s] # "off" /\ spc[s] # "sent"
      BY <2>1 DEF SlotStep, Busy, Holding
    <3>3. pc = "collect"
      BY <2>0, <3>2
    <3>4. ASSUME NEW t \in Slots, t > N - Len(files) PROVE spc'[t] = "off"
      <4>1. spc[t] = "off"
        BY <3>3, <3>4 DEF FilesShape
      <4> QED BY <2>1, <3>2, <4>1 DEF SlotStep
    <3>5. \A i, j \in 1 .. Len(sent') : sent'[i] = sent'[j] => i = j
      <4>1. CASE sent' = sent
        BY <2>0, <4>1
      <4>2. CASE SlotDelivers(s)
        <5>1. \A i \in 1 .. Len(sent) : sent[i] # s
          BY <3>2 DEF BatchShape, SlotShape
        <5>2. /\ Len(sent') = Len(sent) + 1 /\ sent'[Len(sent) + 1] = s
              /\ \A i \in 1 .. Len(sent) : sent'[i] = sent[i]
          BY <2>0, <4>2 DEF SlotDelivers
        <5>3. \A i \in 1 .. Len(sent') : i \in 1 .. Len(sent) \/ i = Len(sent) + 1
          BY <2>0, <5>2
        <5> QED BY <2>0, <5>1, <5>2, <5>3
      <4> QED BY <2>1, <4>1, <4>2 DEF SlotStep, SlotGoesOn, SlotRetries, SlotGivesUp
    <3>6. ArchiveShape' /\ \A a : Places(files', a) = Places(files, a)
      BY <3>1 DEF ArchiveShape, FilesShape
    <3> QED BY <3>1, <3>4, <3>5, <3>6 DEF FilesShape
  <2>2. CASE RunBatch
    <3>1. /\ pc # "collect"
          /\ spc' = [s \in Slots |-> IF s <= N - Len(files) THEN "check" ELSE "off"]
          /\ UNCHANGED <<sent, files, archive, quotaUsed, status>>
      BY <2>2 DEF RunBatch, resultVars
    <3>2. ASSUME NEW t \in Slots, t > N - Len(files) PROVE spc'[t] = "off"
      <4>1. t \in Int /\ N - Len(files) \in Int
        BY <2>0, Windows DEF Slots
      <4>2. ~(t <= N - Len(files))
        BY <3>2, <4>1
      <4> QED BY <3>1, <4>2
    <3>3. ArchiveShape' /\ \A a : Places(files', a) = Places(files, a)
      BY <3>1 DEF ArchiveShape, FilesShape
    <3> QED BY <3>1, <3>2, <3>3 DEF FilesShape
  <2>3. CASE Merge
    <3>1. /\ pc = "collect" /\ sent' = <<>> /\ files' = files \o NewFiles
          /\ status' = IF Len(files) + Len(NewFiles) >= N THEN "success" ELSE "failed"
      BY <2>3 DEF Merge, NewFiles
    <3>2. pc' \in {"archive", "persist", "batch"}
      BY <2>3 DEF Merge
    <3>3. NewFiles \in Seq(Generated) /\ Len(NewFiles) = Len(sent) /\ Len(files) + Len(sent) <= N
      BY <3>1, NewFilesGenerated, BatchFits
    <3>4. files' \in Seq(Generated) /\ Len(files') = Len(files) + Len(sent)
      <4>1. files \o NewFiles \in Seq(Generated) /\ Len(files \o NewFiles) = Len(files) + Len(NewFiles)
        <5>1. files \in Seq(Generated) /\ NewFiles \in Seq(Generated)
          BY <2>0, <3>3
        <5> QED BY <5>1, ConcatProperties
      <4> QED BY <3>1, <3>3, <4>1
    <3>5. status' = "success" => Len(files') = N
      BY <2>0, <3>1, <3>3, <3>4, Windows
    <3>6. Len(sent') = 0 /\ status' \in {"failed", "success"}
      BY <3>1
    <3>7. /\ archive' \in Seq([index : Nat, image : Generated])
          /\ ArchiveShape'
          /\ quotaUsed' \in [Accounts -> Nat]
          /\ \A a \in Accounts : quotaUsed'[a] = Cardinality(Places(files', a))
      BY <2>3, MergeArchive, MergeQuota
    <3> QED BY <3>2, <3>3, <3>4, <3>5, <3>6, <3>7 DEF FilesShape
  <2>4. CASE Start \/ ArchiveResult \/ Persist \/ (\E a \in Accounts : DecrQuota(a)) \/ Cancel
    <3>1. /\ UNCHANGED <<spc, sent, files, archive, quotaUsed>>
          /\ (pc # "collect" /\ pc' # "collect") \/ UNCHANGED pc
          /\ status' = "failed" \/ UNCHANGED status
      BY <2>4, QuietSteps DEF goVars
    <3>2. ArchiveShape' /\ \A a : Places(files', a) = Places(files, a)
      BY <3>1 DEF ArchiveShape, FilesShape
    <3> QED BY <3>1, <3>2 DEF FilesShape
  <2>5. CASE UNCHANGED vars
    <3>1. UNCHANGED <<pc, spc, sent, files, archive, quotaUsed, status>>
      BY <2>5 DEF vars, goVars, resultVars
    <3>2. ArchiveShape' /\ \A a : Places(files', a) = Places(files, a)
      BY <3>1 DEF ArchiveShape, FilesShape
    <3> QED BY <3>1, <3>2 DEF FilesShape
  <2> QED BY <2>1, <2>2, <2>3, <2>4, <2>5, RunOnceIsSlotStep DEF Next, Run
<1> QED BY <1>1, <1>2, BatchShapeHolds, PTL DEF Spec

\* DeliversExactly: a run that succeeds has exactly N files, all generated for
\* it, archived under the indexes 0 .. N - 1 in their order (Run and its merge
\* in image/runner.go).
THEOREM RunDeliversExactly == Spec => []DeliversExactly
<1>1. FilesShape => DeliversExactly
  <2> SUFFICES ASSUME FilesShape, status = "success" PROVE
        /\ Len(files) = N
        /\ \A i \in 1 .. N : files[i].ref = "generated"
        /\ Archives =>
              /\ Len(archive) = N
              /\ \A i \in 1 .. N : archive[i] = [index |-> i - 1, image |-> files[i]]
    BY DEF DeliversExactly
  <2>1. Len(files) = N /\ files \in Seq(Generated)
    BY DEF FilesShape
  <2>2. \A i \in 1 .. N : files[i] \in Generated
    BY <2>1
  <2>3. \A i \in 1 .. N : files[i].ref = "generated"
    BY <2>2 DEF Generated
  <2> QED BY <2>1, <2>3 DEF FilesShape, ArchiveShape
<1> QED BY <1>1, FilesShapeHolds, PTL

\* What has been deducted: nothing before the row is written, and then, while
\* nothing fails, the whole amount of every account that has had its turn.
DecrShape ==
    /\ decr \in [Accounts -> Nat]
    /\ toDecr \subseteq Accounts
    /\ faults \in Nat
    /\ pc \notin {"decr", "done"} => \A a \in Accounts : decr[a] = 0
    /\ status = "failed" => \A a \in Accounts : decr[a] = 0
    /\ pc = "decr" => status = "success" /\ \A a \in toDecr : decr[a] = 0
    /\ pc \in {"decr", "done"} /\ status = "success" /\ faults = 0 =>
          \A a \in Accounts \ toDecr : decr[a] = quotaUsed[a]
    /\ pc = "done" /\ status = "success" /\ faults = 0 => toDecr = {}

\* The deductions follow the files.
THEOREM DecrShapeHolds == Spec => []DecrShape
<1>1. Init => DecrShape
  BY DEF Init, DecrShape
<1>2. FilesShape /\ DecrShape /\ [Next]_vars /\ BatchShape => DecrShape'
  <2> SUFFICES ASSUME FilesShape, DecrShape, [Next]_vars, BatchShape PROVE DecrShape'
    OBVIOUS
  <2>0. /\ quotaUsed \in [Accounts -> Nat] /\ status \in {"failed", "success"}
        /\ decr \in [Accounts -> Nat] /\ toDecr \subseteq Accounts /\ faults \in Nat
    BY DEF FilesShape, DecrShape
  <2>1. CASE UNCHANGED <<pc, quotaUsed, status, rowVars>>
    BY <2>1 DEF rowVars, DecrShape
  <2>2. ASSUME NEW s \in Slots, SlotStep(s) PROVE DecrShape'
    BY <2>1, <2>2 DEF SlotStep, RunFrame, resultVars
  <2>3. CASE RunBatch \/ Merge
    <3>1. pc \notin {"decr", "done"} /\ pc' \notin {"decr", "done"} /\ UNCHANGED <<toDecr, decr, faults>>
      BY <2>3 DEF RunBatch, Merge, rowVars
    <3> QED BY <3>1 DEF DecrShape
  <2>4. CASE Start \/ ArchiveResult
    <3>1. pc \notin {"decr", "done"} /\ pc' \notin {"decr", "done"} /\ UNCHANGED <<toDecr, decr>>
          /\ faults' \in Nat
      BY <2>0, <2>4 DEF Start, ArchiveResult, Fault, NoFault
    <3> QED BY <3>1 DEF DecrShape
  <2>5. CASE Persist
    <3>1. pc = "persist" /\ UNCHANGED <<decr, status, quotaUsed>> /\ \A a \in Accounts : decr[a] = 0
      BY <2>5 DEF Persist, resultVars, DecrShape
    <3>2. faults' = faults \/ faults' = faults + 1
      BY <2>5 DEF Persist, Fault, NoFault
    <3>3. CASE /\ status = "success" /\ faults' = faults
               /\ pc' = "decr"
               /\ toDecr' = {a \in Accounts : quotaUsed[a] > 0}
      <4>1. \A a \in Accounts \ toDecr' : quotaUsed[a] = 0
        BY <2>0, <3>3
      <4> QED BY <2>0, <3>1, <3>3, <4>1 DEF DecrShape
    <3>4. CASE /\ status = "failed" \/ faults' # faults
               /\ pc' = "done"
               /\ UNCHANGED toDecr
      <4>1. status = "failed" \/ faults' # 0
        BY <2>0, <3>2, <3>4
      <4>2. faults' \in Nat
        BY <2>0, <3>2
      <4> QED BY <2>0, <3>1, <3>4, <4>1, <4>2 DEF DecrShape
    <3> QED BY <2>5, <3>3, <3>4 DEF Persist
  <2>6. ASSUME NEW a \in Accounts, DecrQuota(a) PROVE DecrShape'
    <3>1. /\ pc = "decr" /\ a \in toDecr /\ toDecr' = toDecr \ {a}
          /\ UNCHANGED <<status, quotaUsed>>
          /\ pc' = IF toDecr = {a} THEN "done" ELSE "decr"
      BY <2>6 DEF DecrQuota, resultVars
    <3>2. status = "success" /\ \A b \in toDecr : decr[b] = 0
      BY <3>1 DEF DecrShape
    <3>3. CASE decr' = [decr EXCEPT ![a] = @ + quotaUsed[a]] /\ faults' = faults
      <4>1. /\ decr' \in [Accounts -> Nat] /\ decr'[a] = quotaUsed[a]
            /\ \A b \in Accounts \ {a} : decr'[b] = decr[b]
        BY <2>0, <3>1, <3>2, <3>3
      <4>2. ASSUME faults' = 0, NEW b \in Accounts \ toDecr' PROVE decr'[b] = quotaUsed[b]
        <5>1. CASE b = a
          BY <4>1, <5>1
        <5>2. CASE b # a
          BY <3>1, <3>2, <3>3, <4>1, <4>2, <5>2 DEF DecrShape
        <5> QED BY <5>1, <5>2
      <4>3. \A b \in toDecr' : decr'[b] = 0
        BY <2>0, <3>1, <3>2, <4>1
      <4> QED BY <2>0, <3>1, <3>2, <3>3, <4>1, <4>2, <4>3 DEF DecrShape
    <3>4. CASE UNCHANGED decr /\ faults' = faults + 1
      <4>1. faults' \in Nat /\ faults' # 0
        BY <2>0, <3>4
      <4> QED BY <2>0, <3>1, <3>2, <3>4, <4>1 DEF DecrShape
    <3> QED BY <2>6, <3>3, <3>4 DEF DecrQuota, Fault, NoFault
  <2>7. CASE Cancel
    BY <2>1, <2>7 DEF Cancel, resultVars
  <2>8. CASE UNCHANGED vars
    BY <2>1, <2>8 DEF vars, resultVars
  <2> QED BY <2>2, <2>3, <2>4, <2>5, <2>6, <2>7, <2>8, RunOnceIsSlotStep DEF Next, Run
<1> QED BY <1>1, <1>2, BatchShapeHolds, FilesShapeHolds, PTL DEF Spec

\* QuotaMatches: a finished run without a failed write has lowered the quota of
\* every account by the images of it that were delivered, and by nothing when
\* it failed (Run and DecrQuota).
THEOREM RunQuotaMatches == Spec => []QuotaMatches
<1>1. FilesShape /\ DecrShape => QuotaMatches
  BY DEF FilesShape, DecrShape, QuotaMatches, Places
<1> QED BY <1>1, FilesShapeHolds, DecrShapeHolds, PTL

-----------------------------------------------------------------------------
(* How often the upstream is asked.                                        *)

\* A goroutine about to check the context has counted an attempt for which no
\* call was made yet; one that has finished may have counted one too many.
Checking == [s \in Slots |-> IF spc[s] = "check" THEN 1 ELSE 0]
HasSent == [s \in Slots |-> IF spc[s] = "sent" THEN 1 ELSE 0]

\* The conversations of one batch, at most.
BatchLimit == N * maxAttemptWindow

\* The attempts counted and the calls made, while a batch runs and between
\* batches.
AttemptShape ==
    /\ attempts \in Nat
    /\ batch <= maxBatches
    /\ pc \in {"start", "batch"} => attempts = calls /\ batch < maxBatches
    /\ pc # "collect" => attempts <= batch * BatchLimit
    /\ pc = "collect" =>
          /\ batch >= 1
          /\ attempts <= (batch - 1) * BatchLimit
          /\ calls + Total(Slots, Checking) <= AttemptsSoFar
          /\ AttemptsSoFar <= calls + Total(Slots, Checking) + Total(Slots, HasSent)
          /\ ~cancelled => AttemptsSoFar = calls + Total(Slots, Checking)
    /\ pc \notin {"start", "batch", "collect"} =>
          /\ calls <= attempts
          /\ attempts <= calls + N
          /\ ~cancelled => attempts = calls

LEMMA SlotsFinite == IsFiniteSet(Slots) /\ Cardinality(Slots) = N
<1>1. 1 \in Int /\ N \in Int /\ N >= 1 /\ N - 1 + 1 = N
  BY Windows
<1> QED BY <1>1, FS_Interval DEF Slots

LEMMA SlotTotals ==
    ASSUME BatchShape
    PROVE  /\ Total(Slots, attempt) \in Nat
           /\ Total(Slots, Checking) \in Nat
           /\ Total(Slots, HasSent) \in Nat
           /\ Total(Slots, attempt) <= BatchLimit
           /\ Total(Slots, HasSent) <= N
<1>1. \A s \in Slots : /\ attempt[s] \in Nat /\ attempt[s] <= maxAttemptWindow
                       /\ Checking[s] \in Nat
                       /\ HasSent[s] \in Nat /\ HasSent[s] <= 1
  BY DEF BatchShape, SlotShape, Checking, HasSent
<1>2. Total(Slots, attempt) <= Cardinality(Slots) * maxAttemptWindow
  BY <1>1, SlotsFinite, Windows, TotalAtMost
<1>3. Total(Slots, HasSent) <= Cardinality(Slots) * 1
  BY <1>1, SlotsFinite, TotalAtMost
<1>4. Total(Slots, HasSent) <= N
  BY <1>3, SlotsFinite, Windows
<1>5. /\ Total(Slots, attempt) \in Nat
      /\ Total(Slots, Checking) \in Nat
      /\ Total(Slots, HasSent) \in Nat
  BY <1>1, SlotsFinite, TotalNat
<1> QED BY <1>2, <1>4, <1>5, SlotsFinite DEF BatchLimit

\* The step of one goroutine moves the three totals by its own amounts.
LEMMA SlotTotalsMove ==
    ASSUME BatchShape, BatchShape', NEW s \in Slots, SlotStep(s)
    PROVE  /\ Total(Slots, attempt') = Total(Slots, attempt) - attempt[s] + attempt'[s]
           /\ Total(Slots, Checking') = Total(Slots, Checking) - Checking[s] + Checking'[s]
           /\ Total(Slots, HasSent') = Total(Slots, HasSent) - HasSent[s] + HasSent'[s]
<1>1. \A t \in Slots : attempt[t] \in Nat /\ attempt'[t] \in Nat
  BY DEF BatchShape
<1>2. \A t \in Slots : /\ Checking[t] \in Nat /\ Checking'[t] \in Nat
                       /\ HasSent[t] \in Nat /\ HasSent'[t] \in Nat
  BY DEF Checking, HasSent
<1>3. \A t \in Slots \ {s} : spc'[t] = spc[t] /\ attempt'[t] = attempt[t]
  BY DEF SlotStep
<1>4. \A t \in Slots \ {s} : Checking'[t] = Checking[t] /\ HasSent'[t] = HasSent[t]
  BY <1>3 DEF Checking, HasSent
<1>5. Total(Slots, attempt') = Total(Slots, attempt) - attempt[s] + attempt'[s]
  BY <1>1, <1>3, SlotsFinite, TotalUpdate
<1>6. Total(Slots, Checking') = Total(Slots, Checking) - Checking[s] + Checking'[s]
  BY <1>2, <1>4, SlotsFinite, TotalUpdate
<1>7. Total(Slots, HasSent') = Total(Slots, HasSent) - HasSent[s] + HasSent'[s]
  BY <1>2, <1>4, SlotsFinite, TotalUpdate
<1> QED BY <1>5, <1>6, <1>7

\* One more batch, one more limit; fewer batches, a lower bound.
LEMMA BatchProducts ==
    ASSUME NEW b \in Nat
    PROVE  /\ BatchLimit \in Nat
           /\ b * BatchLimit \in Nat
           /\ (b + 1) * BatchLimit = b * BatchLimit + BatchLimit
           /\ b <= maxBatches => b * BatchLimit <= N * maxBatches * maxAttemptWindow
<1>1. BatchLimit \in Nat
  BY Windows DEF BatchLimit
<1>2. b * BatchLimit \in Nat /\ (b + 1) * BatchLimit = b * BatchLimit + BatchLimit
  BY <1>1
<1>3. ASSUME b <= maxBatches PROVE b * BatchLimit <= N * maxBatches * maxAttemptWindow
  <2>1. PICK d \in Nat : maxBatches = b + d
    <3>1. maxBatches - b \in Nat /\ maxBatches = b + (maxBatches - b)
      BY <1>3, Windows
    <3> QED BY <3>1
  <2>2. maxBatches * BatchLimit = b * BatchLimit + d * BatchLimit /\ d * BatchLimit \in Nat
    BY <1>1, <2>1
  <2>3. N * maxBatches * maxAttemptWindow = maxBatches * BatchLimit
    BY Windows DEF BatchLimit
  <2> QED BY <1>2, <2>2, <2>3
<1> QED BY <1>1, <1>2, <1>3

\* Attempts and calls stay together.
THEOREM AttemptShapeHolds == Spec => []AttemptShape
<1>1. Init => AttemptShape
  <2> SUFFICES ASSUME Init PROVE AttemptShape
    OBVIOUS
  <2>1. attempts = 0 /\ calls = 0 /\ batch = 0 /\ pc = "start"
    BY DEF Init
  <2>2. 0 * BatchLimit \in Nat
    BY BatchProducts
  <2> QED BY <2>1, <2>2, Windows DEF AttemptShape
<1>2. BatchShape /\ BatchShape' /\ AttemptShape /\ [Next]_vars => AttemptShape'
  <2> SUFFICES ASSUME BatchShape, BatchShape', AttemptShape, [Next]_vars PROVE AttemptShape'
    OBVIOUS
  <2>0. attempts \in Nat /\ calls \in Nat /\ batch \in Nat /\ batch <= maxBatches
    BY DEF BatchShape, AttemptShape
  <2>1. ASSUME NEW s \in Slots, SlotStep(s) PROVE AttemptShape'
    <3>1. UNCHANGED <<pc, batch, attempts, cancelled>>
      BY <2>1 DEF SlotStep, RunFrame, resultVars
    <3>2. spc[s] \in Busy \cup {"check"} /\ spc[s] # "off" /\ spc[s] # "sent"
      BY <2>1 DEF SlotStep, Busy, Holding
    <3>3. pc = "collect"
      BY <3>2 DEF BatchShape
    <3> DEFINE A == Total(Slots, attempt)
               C == Total(Slots, Checking)
               F == Total(Slots, HasSent)
               A1 == Total(Slots, attempt')
               C1 == Total(Slots, Checking')
               F1 == Total(Slots, HasSent')
    <3>4. /\ A \in Nat /\ C \in Nat /\ F \in Nat
          /\ batch >= 1 /\ attempts <= (batch - 1) * BatchLimit
          /\ calls + C <= attempts + A
          /\ attempts + A <= calls + C + F
          /\ ~cancelled => attempts + A = calls + C
      BY <3>3, SlotTotals DEF AttemptShape, AttemptsSoFar
    <3>5. /\ A1 = A - attempt[s] + attempt'[s]
          /\ C1 = C - Checking[s] + Checking'[s]
          /\ F1 = F - HasSent[s] + HasSent'[s]
      BY <2>1, SlotTotalsMove
    <3>6. attempt[s] \in Nat /\ attempt'[s] \in Nat
      BY DEF BatchShape
    <3>7. /\ Checking[s] = IF spc[s] = "check" THEN 1 ELSE 0
          /\ Checking'[s] = IF spc'[s] = "check" THEN 1 ELSE 0
          /\ HasSent[s] = 0
          /\ HasSent'[s] = IF spc'[s] = "sent" THEN 1 ELSE 0
      BY <3>2 DEF Checking, HasSent
    <3> HIDE DEF A, C, F, A1, C1, F1
    <3>8. /\ calls' + C1 <= attempts + A1
          /\ attempts + A1 <= calls' + C1 + F1
          /\ ~cancelled => attempts + A1 = calls' + C1
      <4>1. CASE SlotGoesOn(s)
        <5>1. /\ Checking'[s] = 0 /\ HasSent'[s] = 0 /\ attempt'[s] = attempt[s]
              /\ calls' = calls + Checking[s]
          BY <2>0, <3>7, <4>1 DEF SlotGoesOn, Busy, Holding
        <5>2. A1 = A /\ F1 = F /\ C1 = C - Checking[s] /\ Checking[s] \in Nat
          BY <3>4, <3>5, <3>6, <3>7, <5>1
        <5> QED BY <2>0, <3>4, <5>1, <5>2
      <4>2. CASE SlotRetries(s)
        <5>1. /\ Checking[s] = 0 /\ Checking'[s] = 1 /\ HasSent'[s] = 0
              /\ attempt'[s] = attempt[s] + 1 /\ calls' = calls
          BY <3>7, <4>2 DEF SlotRetries, Busy, Holding
        <5>2. A1 = A + 1 /\ F1 = F /\ C1 = C + 1
          BY <3>4, <3>5, <3>6, <3>7, <5>1
        <5> QED BY <2>0, <3>4, <5>1, <5>2
      <4>3. CASE SlotGivesUp(s)
        <5>1. /\ Checking'[s] = 0 /\ HasSent'[s] = 1 /\ Checking[s] \in {0, 1}
              /\ attempt'[s] = attempt[s] /\ calls' = calls
              /\ ~cancelled => Checking[s] = 0
          BY <3>7, <4>3 DEF SlotGivesUp
        <5>2. A1 = A /\ F1 = F + 1 /\ C1 = C - Checking[s]
          BY <3>4, <3>5, <3>6, <3>7, <5>1
        <5> QED BY <2>0, <3>4, <5>1, <5>2
      <4>4. CASE SlotDelivers(s)
        <5>1. /\ Checking[s] = 0 /\ Checking'[s] = 0 /\ HasSent'[s] = 1
              /\ attempt'[s] = attempt[s] /\ calls' = calls
          BY <3>7, <4>4 DEF SlotDelivers
        <5>2. A1 = A /\ F1 = F + 1 /\ C1 = C
          BY <3>4, <3>5, <3>6, <3>7, <5>1
        <5> QED BY <2>0, <3>4, <5>1, <5>2
      <4> QED BY <2>1, <4>1, <4>2, <4>3, <4>4 DEF SlotStep
    <3>9. AttemptsSoFar' = attempts + A1
      BY <3>1 DEF AttemptsSoFar, A1
    <3> QED BY <2>0, <3>1, <3>3, <3>4, <3>8, <3>9 DEF AttemptShape, A1, C1, F1
  <2>2. CASE RunBatch
    <3>1. /\ pc = "batch" /\ pc' = "collect" /\ batch' = batch + 1
          /\ spc' = [s \in Slots |-> IF s <= N - Len(files) THEN "check" ELSE "off"]
          /\ attempt' = [s \in Slots |-> IF s <= N - Len(files) THEN 1 ELSE 0]
          /\ UNCHANGED <<calls, attempts>>
      BY <2>2 DEF RunBatch, resultVars
    <3>2. attempts = calls /\ batch < maxBatches /\ attempts <= batch * BatchLimit
      BY <3>1 DEF AttemptShape
    <3>3. Total(Slots, attempt') = Total(Slots, Checking')
      <4>1. \A s \in Slots : attempt'[s] = Checking'[s]
        BY <3>1 DEF Checking
      <4> QED BY <4>1, TotalSame
    <3>4. Total(Slots, attempt') \in Nat /\ Total(Slots, HasSent') \in Nat
      <4>1. \A s \in Slots : attempt'[s] \in Nat /\ HasSent'[s] \in Nat
        BY <3>1 DEF HasSent
      <4> QED BY <4>1, SlotsFinite, TotalNat
    <3>5. batch' - 1 = batch /\ batch' >= 1 /\ batch' <= maxBatches
      BY <2>0, <3>1, <3>2, Windows
    <3>6. AttemptsSoFar' = attempts + Total(Slots, attempt')
      BY <3>1 DEF AttemptsSoFar
    <3> QED BY <2>0, <3>1, <3>2, <3>3, <3>4, <3>5, <3>6 DEF AttemptShape
  <2>3. CASE Merge
    <3> DEFINE A == Total(Slots, attempt)
               C == Total(Slots, Checking)
               F == Total(Slots, HasSent)
    <3>1. /\ pc = "collect" /\ \A s \in Slots : spc[s] \in {"off", "sent"}
          /\ attempts' = AttemptsSoFar /\ UNCHANGED <<batch, calls, cancelled>>
          /\ pc' \in {"archive", "persist", "batch"}
      BY <2>3 DEF Merge
    <3>2. pc' = "batch" => batch < maxBatches /\ ~cancelled
      <4>1. maxBatches \in Int /\ batch \in Int
        BY <2>0, Windows
      <4> QED BY <2>3, <4>1 DEF Merge, Enough
    <3>3. C = 0
      <4>1. \A s \in Slots : Checking[s] = 0
        BY <3>1 DEF Checking
      <4> QED BY <4>1, TotalZero
    <3>4. A \in Nat /\ F \in Nat /\ A <= BatchLimit /\ F <= N
      BY SlotTotals
    <3>5. /\ batch >= 1 /\ attempts <= (batch - 1) * BatchLimit
          /\ calls + C <= attempts + A
          /\ attempts + A <= calls + C + F
          /\ ~cancelled => attempts + A = calls + C
          /\ attempts' = attempts + A
      BY <3>1 DEF AttemptShape, AttemptsSoFar
    <3> HIDE DEF A, C, F
    <3>6. batch - 1 \in Nat /\ (batch - 1) + 1 = batch
      BY <2>0, <3>5
    <3>7. batch * BatchLimit = (batch - 1) * BatchLimit + BatchLimit
      BY <3>6, BatchProducts
    <3>8. (batch - 1) * BatchLimit \in Nat /\ BatchLimit \in Nat
      BY <3>6, BatchProducts
    <3>9. attempts' \in Nat /\ attempts' <= batch * BatchLimit
      <4> DEFINE P == (batch - 1) * BatchLimit
                 Q == batch * BatchLimit
      <4>1. P \in Nat /\ Q = P + BatchLimit /\ attempts <= P
        BY <3>5, <3>7, <3>8
      <4> HIDE DEF P, Q
      <4>2. attempts + A <= Q
        BY <2>0, <3>4, <3>8, <4>1
      <4> QED BY <2>0, <3>4, <3>5, <4>2 DEF Q
    <3>10. /\ calls <= attempts' /\ attempts' <= calls + N
           /\ ~cancelled => attempts' = calls
      BY <2>0, <3>3, <3>4, <3>5, Windows
    <3> QED BY <2>0, <3>1, <3>2, <3>9, <3>10 DEF AttemptShape
  <2>4. CASE Start \/ ArchiveResult \/ Persist \/ (\E a \in Accounts : DecrQuota(a))
    <3>1. /\ UNCHANGED <<batch, attempts, calls, cancelled>> /\ pc # "collect"
          /\ \/ pc = "start" /\ pc' = "batch"
             \/ pc \notin {"start", "batch"} /\ pc' \in {"persist", "decr", "done"}
      BY <2>4 DEF Start, ArchiveResult, Persist, DecrQuota, resultVars, goVars
    <3> QED BY <3>1 DEF AttemptShape
  <2>5. CASE Cancel
    <3>1. UNCHANGED <<pc, batch, attempts, calls, spc, attempt>> /\ cancelled'
      BY <2>5 DEF Cancel, resultVars, goVars
    <3>2. UNCHANGED <<Checking, HasSent, AttemptsSoFar>>
      BY <3>1 DEF Checking, HasSent, AttemptsSoFar
    <3> QED BY <3>1, <3>2 DEF AttemptShape
  <2>6. CASE UNCHANGED vars
    <3>1. UNCHANGED <<pc, batch, attempts, calls, spc, attempt, cancelled>>
      BY <2>6 DEF vars, resultVars, goVars
    <3>2. UNCHANGED <<Checking, HasSent, AttemptsSoFar>>
      BY <3>1 DEF Checking, HasSent, AttemptsSoFar
    <3> QED BY <3>1, <3>2 DEF AttemptShape
  <2> QED BY <2>1, <2>2, <2>3, <2>4, <2>5, <2>6, RunOnceIsSlotStep DEF Next, Run
<1> QED BY <1>1, <1>2, BatchShapeHolds, PTL DEF Spec

\* RunContained: outside a batch no account is held; the upstream is asked at
\* most N * maxBatches * maxAttemptWindow times, whatever fails; and
\* result.Attempts is the number of those calls, but for the attempts that a
\* dead context cut short (runBatch, runWithRetry and the deferred
\* lease.Release).
THEOREM RunStaysContained == Spec => []RunContained
<1>1. BatchShape => LeasesReturned
  BY DEF BatchShape, SlotShape, LeasesReturned, Holding
<1>2. AttemptShape => AttemptsCounted
  BY DEF AttemptShape, AttemptsCounted
<1>3. BatchShape /\ AttemptShape => AttemptsBounded
  <2> SUFFICES ASSUME BatchShape, AttemptShape PROVE calls <= N * maxBatches * maxAttemptWindow
    BY DEF AttemptsBounded
  <2>0. attempts \in Nat /\ calls \in Nat /\ batch \in Nat /\ batch <= maxBatches
    BY DEF BatchShape, AttemptShape
  <2> DEFINE L == N * maxBatches * maxAttemptWindow
             Q == batch * BatchLimit
  <2>1. L \in Int /\ Q \in Nat /\ Q <= L /\ BatchLimit \in Nat
    BY <2>0, BatchProducts, Windows
  <2>2. CASE pc # "collect"
    <3>1. attempts <= Q /\ calls <= attempts
      BY <2>0, <2>2 DEF AttemptShape, BatchShape
    <3> HIDE DEF L, Q
    <3>2. calls <= L
      BY <2>0, <2>1, <3>1
    <3> QED BY <3>2 DEF L
  <2>3. CASE pc = "collect"
    <3> DEFINE P == (batch - 1) * BatchLimit
               A == Total(Slots, attempt)
               C == Total(Slots, Checking)
    <3>1. /\ batch >= 1 /\ attempts <= P /\ calls + C <= attempts + A
          /\ A \in Nat /\ C \in Nat /\ A <= BatchLimit
      BY <2>3, SlotTotals DEF AttemptShape, AttemptsSoFar
    <3>2. batch - 1 \in Nat /\ (batch - 1) + 1 = batch
      BY <2>0, <3>1
    <3>3. P \in Nat /\ Q = P + BatchLimit
      BY <3>2, BatchProducts
    <3> HIDE DEF L, Q, P, A, C
    <3>4. calls <= L
      BY <2>0, <2>1, <3>1, <3>3
    <3> QED BY <3>4 DEF L
  <2> QED BY <2>2, <2>3
<1> QED BY <1>1, <1>2, <1>3, BatchShapeHolds, AttemptShapeHolds, PTL DEF RunContained

-----------------------------------------------------------------------------
(* One image conversation.                                                 *)

PollPlaces == {"create", "put", "register", "stream", "poll", "urls", "done"}

PollShape ==
    /\ iPc \in PollPlaces /\ iAlive \in BOOLEAN
    /\ iTries \in Nat /\ i429 \in Nat /\ iRounds \in Nat
    /\ iRounds <= MaxRounds

\* An attempt that goes on has not ended, and has not met the 429s that end it.
PollGoesOn == iPc # "done" => iEnd = "none" /\ i429 < Max429

PollInv == PollShape /\ PollGoesOn /\ UploadFirst /\ GivesUpRightly

\* The three steps of an upload.
LEMMA UploadKeeps ==
    ASSUME PollInv, StepOK \/ StepRefused \/ \E applied \in BOOLEAN : StepFails(applied)
    PROVE  PollInv'
<1>0. /\ PollShape /\ PollGoesOn /\ UploadFirst /\ GivesUpRightly
      /\ UploadAttempts \in Nat \ {0} /\ Max429 \in Nat \ {0} /\ MaxRounds \in Nat
  BY PollAssumption DEF PollInv
<1>1. CASE StepOK
  <2>1. /\ iPc' \in {"put", "register", "stream"} /\ iTries' = 0 /\ iEnd' = iEnd
        /\ iPc' = "stream" => iBlob' = "registered"
        /\ iPc # "done" /\ UNCHANGED <<iAlive, iFound, i429, iRounds, iUrls>>
    BY <1>1 DEF StepOK, Uploading, AfterStep, Applied, searchState
  <2> QED BY <1>0, <2>1
          DEF PollInv, PollShape, PollPlaces, PollGoesOn, UploadFirst, GivesUpRightly, Uploading
<1>2. CASE StepRefused
  <2>1. /\ iPc' = "done" /\ iEnd' = "upload"
        /\ UNCHANGED <<iTries, iAlive, iFound, i429, iRounds, iUrls>>
    BY <1>2 DEF StepRefused, IEndWith, uploadState, searchState
  <2> QED BY <1>0, <2>1
          DEF PollInv, PollShape, PollPlaces, PollGoesOn, UploadFirst, GivesUpRightly, Uploading
<1>3. CASE \E applied \in BOOLEAN : StepFails(applied)
  <2>1. /\ Uploading /\ UNCHANGED <<iAlive, iFound, i429, iRounds, iUrls>>
        /\ \/ MayRetry /\ iTries' = iTries + 1 /\ iPc' = iPc /\ iEnd' = iEnd
           \/ iPc' = "done" /\ iEnd' = "upload" /\ iTries' = iTries
    BY <1>3 DEF StepFails, IEndWith, searchState
  <2> QED BY <1>0, <2>1
          DEF PollInv, PollShape, PollPlaces, PollGoesOn, UploadFirst, GivesUpRightly, Uploading, MayRetry
<1> QED BY <1>1, <1>2, <1>3

\* The steps of the polling.
LEMMA PollingKeeps ==
    ASSUME PollInv, PollSees \/ Poll429 \/ PollRequestFails \/ PollTimeout \/ PollCancelled
    PROVE  PollInv'
<1>0. /\ PollShape /\ PollGoesOn /\ UploadFirst /\ GivesUpRightly
      /\ Max429 \in Nat \ {0} /\ MaxRounds \in Nat
  BY PollAssumption DEF PollInv
<1>1. /\ iPc = "poll" /\ iBlob = "registered" /\ iEnd = "none"
      /\ UNCHANGED <<iTries, iBlob, iAlive, iUrls>>
  BY <1>0 DEF PollSees, Poll429, PollRequestFails, PollTimeout, PollCancelled, PollGoesOn, UploadFirst,
              Uploading, uploadState, searchState
<1>2. CASE PollSees \/ PollRequestFails
  <2>1. /\ iPc' \in {"poll", "urls"} /\ iEnd' = "none" /\ iRounds < MaxRounds
        /\ iRounds' = iRounds + 1 /\ (i429' = 0 \/ i429' = i429)
    BY <1>1, <1>2 DEF PollSees, PollRequestFails, InTime, NewRound
  <2> QED BY <1>0, <1>1, <2>1
          DEF PollInv, PollShape, PollPlaces, PollGoesOn, UploadFirst, GivesUpRightly, Uploading
<1>3. CASE Poll429
  <2>1. /\ i429' = i429 + 1 /\ iRounds < MaxRounds /\ iRounds' = iRounds + 1
        /\ \/ i429 + 1 >= Max429 /\ iPc' = "done" /\ iEnd' = "poll_error"
           \/ i429 + 1 < Max429 /\ iPc' = "poll" /\ iEnd' = "none"
    BY <1>0, <1>1, <1>3 DEF Poll429, InTime, NewRound, IEndWith, PollShape
  <2> QED BY <1>0, <1>1, <2>1
          DEF PollInv, PollShape, PollPlaces, PollGoesOn, UploadFirst, GivesUpRightly, Uploading
<1>4. CASE PollTimeout
  <2>1. /\ ~(iRounds < MaxRounds) /\ UNCHANGED <<iFound, i429, iRounds>>
        /\ \/ iPc' = "urls" /\ iEnd' = "none"
           \/ iFound = <<>> /\ iPc' = "done" /\ iEnd' = "poll_timeout"
    BY <1>1, <1>4 DEF PollTimeout, AtDeadline, InTime, IEndWith
  <2> QED BY <1>0, <1>1, <2>1
          DEF PollInv, PollShape, PollPlaces, PollGoesOn, UploadFirst, GivesUpRightly, Uploading
<1>5. CASE PollCancelled
  <2>1. iPc' = "done" /\ iEnd' = "poll_error" /\ ~iAlive /\ UNCHANGED <<iFound, i429, iRounds>>
    BY <1>5 DEF PollCancelled, IEndWith, searchState
  <2> QED BY <1>0, <1>1, <2>1
          DEF PollInv, PollShape, PollPlaces, PollGoesOn, UploadFirst, GivesUpRightly, Uploading
<1> QED BY <1>2, <1>3, <1>4, <1>5

\* Every step of an image conversation keeps the invariant.
LEMMA PollStep == PollInv /\ [PollNext]_iVars => PollInv'
<1> SUFFICES ASSUME PollInv, [PollNext]_iVars PROVE PollInv'
  OBVIOUS
<1>0. PollShape /\ PollGoesOn /\ UploadFirst /\ GivesUpRightly
  BY DEF PollInv
<1>1. CASE StepOK \/ StepRefused \/ \E applied \in BOOLEAN : StepFails(applied)
  BY <1>1, UploadKeeps
<1>2. CASE PollSees \/ Poll429 \/ PollRequestFails \/ PollTimeout \/ PollCancelled
  BY <1>2, PollingKeeps
<1>3. CASE SSEEnds \/ SSENamesConversation \/ DownloadURLFails
           \/ (\E x \in PollImages \cup {Reference} : SSEMentions(x))
           \/ (\E x \in PollImages : Render(x) \/ DownloadURL(x))
  <2>1. /\ iPc \in {"stream", "poll", "urls"} /\ iPc' \in {"stream", "poll", "urls"}
        /\ UNCHANGED <<iTries, iBlob, iAlive, iFound, i429, iRounds, iEnd>>
    BY <1>3 DEF SSEEnds, SSENamesConversation, DownloadURLFails, SSEMentions, Render, DownloadURL, uploadState
  <2> QED BY <1>0, <2>1
          DEF PollInv, PollShape, PollPlaces, PollGoesOn, UploadFirst, GivesUpRightly, Uploading
<1>4. CASE DownloadURLsDone
  <2>1. /\ iPc = "urls" /\ iPc' = "done" /\ iEnd' \in {"ok", "download"} /\ (iEnd' = "ok" => iUrls # <<>>)
        /\ UNCHANGED <<iTries, iBlob, iAlive, iFound, i429, iRounds, iUrls>>
    BY <1>4 DEF DownloadURLsDone, IEndWith, uploadState, searchState
  <2> QED BY <1>0, <2>1
          DEF PollInv, PollShape, PollPlaces, PollGoesOn, UploadFirst, GivesUpRightly, Uploading
<1>5. CASE Cancelled
  <2>1. iAlive' = FALSE /\ UNCHANGED <<iPc, iTries, iBlob, iFound, i429, iRounds, iUrls, iEnd>>
    BY <1>5 DEF Cancelled, uploadState, searchState
  <2> QED BY <1>0, <2>1
          DEF PollInv, PollShape, PollPlaces, PollGoesOn, UploadFirst, GivesUpRightly, Uploading
<1>6. CASE UNCHANGED iVars
  BY <1>0, <1>6
     DEF iVars, PollInv, PollShape, PollPlaces, PollGoesOn, UploadFirst, GivesUpRightly, Uploading
<1> QED BY <1>1, <1>2, <1>3, <1>4, <1>5, <1>6 DEF PollNext, AttemptStep

\* An attempt starts with its upload to come.
LEMMA PollStart == ASSUME PollInit PROVE PollInv
BY PollAssumption
   DEF PollInit, PollInv, PollShape, PollPlaces, PollGoesOn, UploadFirst, GivesUpRightly, Uploading

\* No stream without a registered upload, no step of it more often than
\* allowed, and no reason to give up but the named ones, for every number of
\* attempts, 429 answers and rounds (UploadFile, PollConversationForImages).
THEOREM PollEndsRightly == PollSpec => [](UploadFirst /\ GivesUpRightly)
<1>1. PollInv => UploadFirst /\ GivesUpRightly
  BY DEF PollInv
<1> QED BY <1>1, PollStart, PollStep, PTL DEF PollSpec

\* References are added one by one.
LEMMA AddsPath ==
    ASSUME NEW X, NEW s \in Seq(X), NEW t \in Seq(X)
    PROVE  \E h : /\ h[0] = s
                  /\ \A k \in 1 .. Len(t) : h[k] = Adds(h[k - 1], t[k])
                  /\ AddsAll(s, t) = h[Len(t)]
<1> DEFINE n == Len(t)
           Solves(f) == f = [D \in SUBSET DOMAIN t |->
                               IF D = {} THEN s ELSE Adds(f[D \ {Max(D)}], t[Max(D)])]
<1>0. n \in Nat /\ DOMAIN t = 1 .. n /\ \A k \in 1 .. n : t[k] \in X
  OBVIOUS
<1>1. \E f : Solves(f)
  <2> DEFINE step == [p \in (1 .. n) \X Seq(X) |-> Adds(p[2], t[p[1]])]
  <2>1. step \in [(1 .. n) \X Seq(X) -> Seq(X)]
    BY <1>0 DEF Adds
  <2>2. PICK f \in [SUBSET (1 .. n) -> Seq(X)] : FoldOver(f, 1 .. n, s, step)
    <3> HIDE DEF step, n
    <3> QED BY <1>0, <2>1, FoldExists
  <2>3. ASSUME NEW D \in SUBSET (1 .. n), D # {}
        PROVE  step[<<Max(D), f[D \ {Max(D)}]>>] = Adds(f[D \ {Max(D)}], t[Max(D)])
    <3>1. Max(D) \in 1 .. n
      BY <1>0, <2>3, MaxBelow
    <3>2. f[D \ {Max(D)}] \in Seq(X)
      BY <2>2
    <3> QED BY <3>1, <3>2
  <2> HIDE DEF step, n
  <2>4. f = [D \in SUBSET (1 .. n) |->
               IF D = {} THEN s ELSE Adds(f[D \ {Max(D)}], t[Max(D)])]
    BY <2>2, <2>3 DEF FoldOver
  <2> QED BY <1>0, <2>4
<1> DEFINE f == CHOOSE f : Solves(f)
<1>2. AddsAll(s, t) = f[DOMAIN t]
  BY DEF AddsAll, FoldLeft, MapThenFoldSet
<1>3. Solves(f)
  <2> HIDE DEF Solves
  <2> QED BY <1>1
<1> HIDE DEF f
<1> DEFINE h == [k \in 0 .. n |-> f[1 .. k]]
<1>4. h[0] = s
  <2>1. 1 .. 0 = {} /\ {} \in SUBSET DOMAIN t
    OBVIOUS
  <2>2. f[{}] = s
    BY <1>3, <2>1
  <2> QED BY <1>0, <2>1, <2>2
<1>5. ASSUME NEW k \in 1 .. n PROVE h[k] = Adds(h[k - 1], t[k])
  <2>1. /\ 1 .. k \in SUBSET DOMAIN t /\ 1 .. k # {} /\ Max(1 .. k) = k
        /\ (1 .. k) \ {k} = 1 .. (k - 1) /\ k - 1 \in 0 .. n /\ k \in 0 .. n
    <3> HIDE DEF n
    <3> QED BY <1>0, UpTo
  <2>2. f[1 .. k] = Adds(f[(1 .. k) \ {Max(1 .. k)}], t[Max(1 .. k)])
    BY <1>3, <2>1
  <2> QED BY <2>1, <2>2
<1>6. AddsAll(s, t) = h[n]
  BY <1>0, <1>2
<1> HIDE DEF h, f
<1> QED BY <1>4, <1>5, <1>6

\* Adding references adds the new ones, each once.
LEMMA AddsFacts ==
    ASSUME NEW X, NEW s \in Seq(X), NEW t \in Seq(X), IsInjective(s)
    PROVE  /\ AddsAll(s, t) \in Seq(X)
           /\ ToSet(AddsAll(s, t)) = ToSet(s) \cup ToSet(t)
           /\ IsInjective(AddsAll(s, t))
<1> DEFINE n == Len(t)
           upto(k) == {t[i] : i \in 1 .. k}
<1>0. n \in Nat /\ DOMAIN t = 1 .. n /\ \A k \in 1 .. n : t[k] \in X
  OBVIOUS
<1>1. PICK h : /\ h[0] = s
               /\ \A k \in 1 .. n : h[k] = Adds(h[k - 1], t[k])
               /\ AddsAll(s, t) = h[n]
  BY AddsPath
<1> HIDE DEF n
<1> DEFINE Good(k) == h[k] \in Seq(X) /\ ToSet(h[k]) = ToSet(s) \cup upto(k) /\ IsInjective(h[k])
           H == {k \in Nat : k <= n => Good(k)}
<1>2. 0 \in H
  <2>1. upto(0) = {}
    OBVIOUS
  <2> QED BY <1>1, <2>1
<1>3. ASSUME NEW k \in Nat, k \in H PROVE k + 1 \in H
  <2> SUFFICES ASSUME k + 1 <= n PROVE Good(k + 1)
    OBVIOUS
  <2> DEFINE x == t[k + 1]
  <2>1. k + 1 \in 1 .. n /\ (k + 1) - 1 = k /\ k <= n
    BY <1>0
  <2>2. Good(k)
    BY <1>3, <2>1
  <2>3. upto(k + 1) = upto(k) \cup {x} /\ x \in X
    BY <1>0, <2>1
  <2>4. h[k + 1] = Adds(h[k], x)
    BY <1>1, <2>1
  <2> HIDE DEF x, upto
  <2>5. CASE x \in ToSet(h[k])
    <3>1. h[k + 1] = h[k]
      BY <2>4, <2>5 DEF Adds
    <3> QED BY <2>2, <2>3, <2>5, <3>1
  <2>6. CASE x \notin ToSet(h[k])
    <3>1. h[k + 1] = Append(h[k], x)
      BY <2>4, <2>6 DEF Adds
    <3> QED BY <2>2, <2>3, <2>6, <3>1, AppendSet
  <2> QED BY <2>5, <2>6
<1>4. Good(n)
  <2>1. Nat \subseteq H
    <3> HIDE DEF H
    <3> QED BY <1>2, <1>3, NatInduct
  <2> HIDE DEF Good
  <2> QED BY <1>0, <2>1
<1>5. upto(n) = ToSet(t)
  BY <1>0 DEF ToSet
<1> QED BY <1>1, <1>4, <1>5

Searched == PollImages \cup {Reference}

\* References that were found are references to images that were made, or to
\* the upload while the stream is read; each is listed once, and has its address
\* or is still to get it.
RefsOwn ==
    /\ iMade \subseteq PollImages
    /\ iScan \in Seq(Searched) /\ iFound \in Seq(Searched) /\ iUrls \in Seq(Searched)
    /\ IsInjective(iScan) /\ IsInjective(iFound) /\ IsInjective(iUrls)
    /\ ToSet(iScan) \subseteq iMade \cup {Reference}
    /\ ToSet(iFound) \subseteq iMade /\ ToSet(iUrls) \subseteq iMade
    /\ iPc = "urls" => Reference \notin ToSet(iScan) /\ ToSet(iScan) \cap ToSet(iUrls) = {}
    /\ iPc \notin {"urls", "done"} => iUrls = <<>>

\* Ordering keeps the references, stripping drops the upload.
LEMMA OrderedFacts ==
    ASSUME NEW s \in Seq(Searched), IsInjective(s)
    PROVE  /\ Ordered(s) \in Seq(Searched) /\ ToSet(Ordered(s)) = ToSet(s) /\ IsInjective(Ordered(s))
           /\ Strip(s) \in Seq(Searched) /\ ToSet(Strip(s)) = ToSet(s) \ {Reference} /\ IsInjective(Strip(s))
<1> DEFINE a == Only(s, Files \cup {Reference})
           b == Only(s, Sediments)
<1>1. /\ a \in Seq(Searched) /\ ToSet(a) = ToSet(s) \cap (Files \cup {Reference}) /\ IsInjective(a)
      /\ b \in Seq(Searched) /\ ToSet(b) = ToSet(s) \cap Sediments /\ IsInjective(b)
  BY OnlyFacts
<1>2. ToSet(s) \subseteq Files \cup Sediments \cup {Reference}
  BY InjectiveCard DEF Searched, PollImages
<1>3. ToSet(a) \cap ToSet(b) = {} /\ ToSet(a) \cup ToSet(b) = ToSet(s)
  BY <1>1, <1>2, PollAssumption
<1> HIDE DEF a, b
<1>4. a \o b \in Seq(Searched) /\ ToSet(a \o b) = ToSet(a) \cup ToSet(b) /\ IsInjective(a \o b)
  BY <1>1, <1>3, ConcatSet
<1>5. /\ Strip(s) \in Seq(Searched) /\ ToSet(Strip(s)) = ToSet(s) \cap (ToSet(s) \ {Reference})
      /\ IsInjective(Strip(s))
  BY OnlyFacts DEF Strip
<1> QED BY <1>3, <1>4, <1>5 DEF Ordered, a, b

\* The steps that find references.
LEMMA RefsFound ==
    ASSUME RefsOwn, SSEEnds \/ PollSees \/ PollTimeout \/ \E x \in Searched : SSEMentions(x)
    PROVE  RefsOwn'
<1>0. /\ iMade \subseteq PollImages
      /\ iScan \in Seq(Searched) /\ iFound \in Seq(Searched)
      /\ IsInjective(iScan) /\ IsInjective(iFound)
      /\ ToSet(iScan) \subseteq iMade \cup {Reference} /\ ToSet(iFound) \subseteq iMade
      /\ Reference \notin PollImages /\ IsFiniteSet(PollImages)
  <2>1. IsFiniteSet(Files \cup Sediments)
    BY PollAssumption, FS_Union
  <2> QED BY <2>1, PollAssumption DEF RefsOwn, PollImages
<1>1. iUrls = <<>> /\ iUrls' = iUrls
  BY DEF RefsOwn, SSEEnds, PollSees, PollTimeout, SSEMentions
<1>2. ToSet(iUrls) = {}
  BY <1>1 DEF ToSet
<1>3. ASSUME NEW found \in Seq(Searched), IsInjective(found), ToSet(found) \subseteq iMade
      PROVE  LET m == Strip(Merged(found))
             IN  m \in Seq(Searched) /\ IsInjective(m) /\ ToSet(m) \subseteq iMade
  <2>1. /\ Merged(found) \in Seq(Searched) /\ IsInjective(Merged(found))
        /\ ToSet(Merged(found)) = ToSet(iScan) \cup ToSet(found)
    BY <1>0, <1>3, AddsFacts DEF Merged
  <2> QED BY <1>0, <1>3, <2>1, OrderedFacts
<1>4. CASE SSEEnds
  <2>1. /\ iScan' = Strip(Ordered(iScan)) /\ iPc' \in {"urls", "poll"}
        /\ UNCHANGED <<iMade, iFound>>
    BY <1>4 DEF SSEEnds
  <2>2. /\ iScan' \in Seq(Searched) /\ IsInjective(iScan') /\ ToSet(iScan') = ToSet(iScan) \ {Reference}
    BY <1>0, <2>1, OrderedFacts
  <2> QED BY <1>0, <1>1, <1>2, <2>1, <2>2 DEF RefsOwn
<1>5. CASE PollSees
  <2> DEFINE new == SetToSeq(iMade)
             all == AddsAll(iFound, new)
             found == Ordered(all)
  <2>1. /\ iFound' = found /\ iMade' = iMade
        /\ \/ iScan' = Strip(Merged(found)) /\ iPc' = "urls"
           \/ iScan' = iScan /\ iPc' = iPc /\ iPc = "poll"
    BY <1>5 DEF PollSees
  <2>2. new \in Seq(Searched) /\ ToSet(new) = iMade
    <3>1. IsFiniteSet(iMade)
      BY <1>0, FS_Subset
    <3>2. new \in Seq(iMade) /\ ToSet(new) = iMade
      BY <3>1, SetToSeqFacts
    <3>3. iMade \subseteq Searched
      BY <1>0 DEF Searched
    <3> HIDE DEF new
    <3> QED BY <3>2, <3>3
  <2> HIDE DEF new
  <2>3. all \in Seq(Searched) /\ ToSet(all) = ToSet(iFound) \cup iMade /\ IsInjective(all)
    BY <1>0, <2>2, AddsFacts
  <2> HIDE DEF all
  <2>4. found \in Seq(Searched) /\ ToSet(found) \subseteq iMade /\ IsInjective(found)
    BY <1>0, <2>3, OrderedFacts
  <2> HIDE DEF found
  <2>5. CASE iScan' = Strip(Merged(found)) /\ iPc' = "urls"
    <3>1. iScan' \in Seq(Searched) /\ IsInjective(iScan') /\ ToSet(iScan') \subseteq iMade
      BY <1>3, <2>4, <2>5
    <3> QED BY <1>0, <1>1, <1>2, <2>1, <2>4, <2>5, <3>1 DEF RefsOwn
  <2>6. CASE iScan' = iScan /\ iPc' = iPc /\ iPc = "poll"
    BY <1>0, <1>1, <1>2, <2>1, <2>4, <2>6 DEF RefsOwn
  <2> QED BY <2>1, <2>5, <2>6
<1>6. CASE PollTimeout
  <2>1. /\ UNCHANGED <<iMade, iFound>>
        /\ \/ iScan' = Strip(Merged(iFound)) /\ iPc' = "urls"
           \/ iScan' = iScan /\ iPc' = "done"
    BY <1>6 DEF PollTimeout, AtDeadline, IEndWith
  <2>2. CASE iScan' = Strip(Merged(iFound)) /\ iPc' = "urls"
    <3>1. iScan' \in Seq(Searched) /\ IsInjective(iScan') /\ ToSet(iScan') \subseteq iMade
      BY <1>0, <1>3, <2>2
    <3> QED BY <1>0, <1>1, <1>2, <2>1, <2>2, <3>1 DEF RefsOwn
  <2>3. CASE iScan' = iScan /\ iPc' = "done"
    BY <1>0, <1>1, <1>2, <2>1, <2>3 DEF RefsOwn
  <2> QED BY <2>1, <2>2, <2>3
<1>7. CASE \E x \in Searched : SSEMentions(x)
  <2>1. PICK x \in Searched : SSEMentions(x)
    BY <1>7
  <2>2. /\ iPc = "stream" /\ iPc' = iPc /\ iFound' = iFound
        /\ iScan' = IF x \in ToSet(iScan) THEN iScan ELSE Append(iScan, x)
        /\ iMade' = IF x = Reference THEN iMade ELSE iMade \cup {x}
    BY <2>1 DEF SSEMentions, Adds
  <2>3. iScan' \in Seq(Searched) /\ IsInjective(iScan') /\ ToSet(iScan') = ToSet(iScan) \cup {x}
    BY <1>0, <2>2, AppendSet
  <2>4. iMade' \subseteq PollImages /\ iMade \subseteq iMade' /\ x \in iMade' \cup {Reference}
    BY <1>0, <2>2 DEF Searched
  <2> QED BY <1>0, <1>1, <1>2, <2>2, <2>3, <2>4 DEF RefsOwn
<1> QED BY <1>4, <1>5, <1>6, <1>7

\* The steps that turn references into addresses.
LEMMA RefsTaken ==
    ASSUME RefsOwn, DownloadURLFails \/ \E x \in PollImages : DownloadURL(x)
    PROVE  RefsOwn'
<1>0. /\ iPc = "urls" /\ iScan # <<>> /\ iScan' = Tail(iScan)
      /\ UNCHANGED <<iPc, iMade, iFound>>
      /\ \/ iUrls' = iUrls
         \/ Head(iScan) \in PollImages /\ iUrls' = Append(iUrls, Head(iScan))
  BY DEF DownloadURL, DownloadURLFails
<1>1. /\ iScan \in Seq(Searched) /\ IsInjective(iScan) /\ iUrls \in Seq(Searched) /\ IsInjective(iUrls)
      /\ ToSet(iScan) \subseteq iMade \cup {Reference} /\ ToSet(iUrls) \subseteq iMade
      /\ Reference \notin ToSet(iScan) /\ ToSet(iScan) \cap ToSet(iUrls) = {}
  BY <1>0 DEF RefsOwn
<1>2. /\ Head(iScan) \in Searched /\ iScan' \in Seq(Searched) /\ IsInjective(iScan')
      /\ ToSet(iScan) = ToSet(iScan') \cup {Head(iScan)} /\ Head(iScan) \notin ToSet(iScan')
  BY <1>0, <1>1, TailSet
<1>3. CASE iUrls' = iUrls
  BY <1>0, <1>1, <1>2, <1>3 DEF RefsOwn
<1>4. CASE Head(iScan) \in PollImages /\ iUrls' = Append(iUrls, Head(iScan))
  <2>1. iUrls' \in Seq(Searched) /\ IsInjective(iUrls') /\ ToSet(iUrls') = ToSet(iUrls) \cup {Head(iScan)}
    BY <1>1, <1>2, <1>4, AppendSet
  <2> QED BY <1>0, <1>1, <1>2, <2>1 DEF RefsOwn
<1> QED BY <1>0, <1>3, <1>4

\* Every step of an image conversation keeps the references apart.
LEMMA RefsStep == RefsOwn /\ [PollNext]_iVars => RefsOwn'
<1> SUFFICES ASSUME RefsOwn, [PollNext]_iVars PROVE RefsOwn'
  OBVIOUS
<1>1. CASE SSEEnds \/ PollSees \/ PollTimeout \/ \E x \in Searched : SSEMentions(x)
  BY <1>1, RefsFound
<1>2. CASE DownloadURLFails \/ \E x \in PollImages : DownloadURL(x)
  BY <1>2, RefsTaken
<1>3. CASE \E x \in PollImages : Render(x)
  <2>1. PICK x \in PollImages : Render(x)
    BY <1>3
  <2>2. iPc = "poll" /\ iMade' = iMade \cup {x} /\ UNCHANGED <<iPc, iScan, iFound, iUrls>>
    BY <2>1 DEF Render
  <2> QED BY <2>2 DEF RefsOwn
<1>4. CASE \/ StepOK \/ StepRefused \/ \E applied \in BOOLEAN : StepFails(applied)
           \/ SSENamesConversation \/ Poll429 \/ PollRequestFails \/ PollCancelled
           \/ DownloadURLsDone \/ Cancelled \/ UNCHANGED iVars
  <2>1. /\ UNCHANGED <<iMade, iScan, iFound, iUrls>>
        /\ iPc' = iPc \/ (iPc # "urls" /\ iPc' # "urls") \/ iPc' = "done"
        /\ iPc' \notin {"urls", "done"} => iPc \notin {"urls", "done"}
    BY <1>4 DEF StepOK, StepRefused, StepFails, SSENamesConversation, Poll429, PollRequestFails, PollCancelled,
                DownloadURLsDone, Cancelled, iVars, IEndWith, uploadState, searchState, AfterStep, Uploading
  <2> QED BY <2>1 DEF RefsOwn
<1> QED BY <1>1, <1>2, <1>3, <1>4 DEF PollNext, AttemptStep, Searched

LEMMA RefsStart == ASSUME PollInit PROVE RefsOwn
<1>1. ToSet(<<>>) = {} /\ IsInjective(<<>>)
  BY DEF ToSet, IsInjective
<1> QED BY <1>1 DEF PollInit, RefsOwn

\* The addresses handed out are of images made for the conversation.
LEMMA RefsOwnSound == ASSUME RefsOwn PROVE ImagesOwn
BY InjectiveCard DEF RefsOwn, ImagesOwn

\* An image conversation delivers images made for it, each once, and never
\* the user's own upload, in whatever order the stream and the polls mention
\* them, and gives up for the named reasons only (UploadFile, ParseImageSSE,
\* PollConversationForImages, runOnce), for every number of images and rounds.
THEOREM PollStaysSound == PollSpec => []PollSound
<1>1. PollInit => PollInv /\ RefsOwn
  BY PollStart, RefsStart
<1>2. PollInv /\ RefsOwn => PollSound
  BY RefsOwnSound DEF PollInv, PollSound
<1> QED BY <1>1, <1>2, PollStep, RefsStep, PTL DEF PollSpec

-----------------------------------------------------------------------------
(* A chat.                                                                 *)

\* The handler before the upstream has accepted the request, and after that.
Asking == {"prepare", "finalize", "single", "pow", "fprepare", "send"}
Answering == {"forward", "finish", "settle"}

ChatShape ==
    /\ sPc \in Asking \cup Answering \cup {"done"}
    /\ sClient \in BOOLEAN
    /\ sOut \in [text : Nat, events : Nat, apology : BOOLEAN]
    /\ sProxyMarks \in Nat

\* Nothing is charged, marked or given back before the handler returns; the
\* proxy may have been reported for the call without consequence.
ChatPending ==
    /\ sPc # "done" => sBilled = Frozen /\ sLeased = TRUE /\ sMark = "none"
    /\ sPc \in Asking \ {"send"} => sProxyMarks = 0 /\ sLast # <<"send", "ok">>
    /\ sPc # "done" => sProxyMarks <= 1
    /\ sPc \in Answering => sLast = <<"send", "ok">>

\* An apology is written for an answer without text.
ApologyIsForNothing ==
    sOut.apology = TRUE => sOut.text = 0 /\ sPc \in {"settle", "done"}

ChatInv == ChatShape /\ ChatPending /\ ApologyIsForNothing /\ ChatSound

\* A step that returns blames for the answer it has just got, or not at all.
LEMMA ErrKeeps ==
    ASSUME ChatInv, NEW r \in Results \ {"ok"}, NEW call \in Fatal, sPc # "done",
           sLast' = <<call, r>>, HandleUpstreamErr(r), UNCHANGED <<sMode, sClient, sOut>>
    PROVE  ChatInv'
<1>0. ChatShape /\ ChatPending /\ ApologyIsForNothing
  BY DEF ChatInv
<1>1. sMark = "none" /\ sProxyMarks \in Nat /\ sProxyMarks <= 1
  BY <1>0 DEF ChatPending, ChatShape
<1>2. sMark' = "none" \/ (sMark' = Blame(r) /\ Blame(r) # "none")
  BY <1>1 DEF HandleUpstreamErr, Mark
<1>3. sProxyMarks' \in Nat /\ sProxyMarks' <= 2
  BY <1>1 DEF HandleUpstreamErr, CountProxy
<1>4. /\ sPc' = "done" /\ sLeased' = FALSE /\ sBilled' = Refunded
      /\ sLast'[1] = call /\ sLast'[2] = r /\ sLast' # <<"send", "ok">>
  BY DEF HandleUpstreamErr, Returns
<1>5. Refunded # Frozen
  BY DEF Refunded, Frozen
<1>6. BlamedForLast'
  BY <1>2, <1>4 DEF BlamedForLast
<1>7. ChargedForText'
  BY <1>4, <1>5 DEF ChargedForText
<1>8. ChatShape' /\ ChatPending' /\ ApologyIsForNothing'
  BY <1>0, <1>3, <1>4 DEF ChatShape, ChatPending, ApologyIsForNothing, Asking, Answering
<1> QED BY <1>3, <1>6, <1>7, <1>8 DEF ChatInv, ChatSound

\* A step of a handler that has not returned and does not.
LEMMA PendingKeeps ==
    ASSUME ChatShape', ChatPending', ApologyIsForNothing', sPc' # "done"
    PROVE  ChatInv'
<1>1. sMark' = "none" /\ sProxyMarks' <= 1 /\ sProxyMarks' \in Nat
  BY DEF ChatPending, ChatShape
<1> QED BY <1>1 DEF ChatInv, ChatSound, ChargedForText, BlamedForLast

\* The calls of the handshake.
LEMMA HandshakeKeeps ==
    ASSUME ChatInv, NEW r \in Results,
           \/ \E challenge \in BOOLEAN : ChatRequirementsPrepare(r, challenge)
           \/ ChatRequirementsFinalize(r) \/ ChatRequirements(r)
           \/ PrepareFChat(r) \/ StreamFChat(r)
    PROVE  ChatInv'
<1>0. ChatShape /\ ChatPending /\ ApologyIsForNothing
  BY DEF ChatInv
<1>1. CASE (\E challenge \in BOOLEAN : ChatRequirementsPrepare(r, challenge))
           \/ ChatRequirementsFinalize(r) \/ (ChatRequirements(r) /\ r = "ok")
  <2>1. /\ sPc \in {"prepare", "finalize", "single"} /\ sPc' \in {"finalize", "single", "pow"}
        /\ sLast' # <<"send", "ok">>
        /\ UNCHANGED <<sClient, sOut, sBilled, sLeased, sMark, sProxyMarks>>
    BY <1>1 DEF ChatRequirementsPrepare, ChatRequirementsFinalize, ChatRequirements, Answered, streamState
  <2>2. ChatShape' /\ ChatPending' /\ ApologyIsForNothing' /\ sPc' # "done"
    BY <1>0, <2>1 DEF ChatShape, ChatPending, ApologyIsForNothing, Asking, Answering
  <2> QED BY <2>2, PendingKeeps
<1>2. CASE PrepareFChat(r)
  <2>1. /\ sPc = "fprepare" /\ sPc' = "send"
        /\ UNCHANGED <<sClient, sOut, sBilled, sLeased, sMark>>
    BY <1>2 DEF PrepareFChat, streamState
  <2>2. sProxyMarks' \in {0, 1}
    BY <1>0, <1>2, <2>1 DEF PrepareFChat, CountProxy, ChatPending, Asking
  <2>3. ChatShape' /\ ChatPending' /\ ApologyIsForNothing' /\ sPc' # "done"
    BY <1>0, <2>1, <2>2 DEF ChatShape, ChatPending, ApologyIsForNothing, Asking, Answering
  <2> QED BY <2>3, PendingKeeps
<1>3. CASE StreamFChat(r) /\ r = "ok"
  <2>1. /\ sPc = "send" /\ sPc' = "forward" /\ sLast' = <<"send", "ok">>
        /\ UNCHANGED <<sClient, sOut, sBilled, sLeased, sMark, sProxyMarks>>
    BY <1>3 DEF StreamFChat, Answered
  <2>2. ChatShape' /\ ChatPending' /\ ApologyIsForNothing' /\ sPc' # "done"
    BY <1>0, <2>1 DEF ChatShape, ChatPending, ApologyIsForNothing, Asking, Answering
  <2> QED BY <2>2, PendingKeeps
<1>4. CASE (ChatRequirements(r) \/ StreamFChat(r)) /\ r # "ok"
  <2>1. PICK call \in Fatal : sLast' = <<call, r>>
    BY <1>4 DEF ChatRequirements, StreamFChat, Answered, Fatal
  <2>2. sPc # "done" /\ HandleUpstreamErr(r) /\ UNCHANGED <<sMode, sClient, sOut>>
    BY <1>4 DEF ChatRequirements, StreamFChat, streamState
  <2> QED BY <1>4, <2>1, <2>2, ErrKeeps
<1> QED BY <1>1, <1>2, <1>3, <1>4

\* The other steps of the handler.
LEMMA AnswerKeeps ==
    ASSUME ChatInv, ProofSolved \/ ProofFails \/ Forward \/ ForwardEnds \/ Finish \/ SettleChat
    PROVE  ChatInv'
<1>0. ChatShape /\ ChatPending /\ ApologyIsForNothing
  BY DEF ChatInv
<1>1. CASE ProofSolved \/ ForwardEnds
  <2>1. /\ \/ sPc = "pow" /\ sPc' = "fprepare"
           \/ sPc = "forward" /\ sPc' = "finish"
        /\ UNCHANGED <<sClient, sOut, sBilled, sLeased, sMark, sProxyMarks, sLast>>
    BY <1>1 DEF ProofSolved, ForwardEnds, streamState
  <2>2. ChatShape' /\ ChatPending' /\ ApologyIsForNothing' /\ sPc' # "done"
    BY <1>0, <2>1 DEF ChatShape, ChatPending, ApologyIsForNothing, Asking, Answering
  <2> QED BY <2>2, PendingKeeps
<1>2. CASE ProofFails
  <2>1. /\ sPc = "pow" /\ sPc' = "done" /\ sLeased' = FALSE /\ sBilled' = Refunded
        /\ UNCHANGED <<sClient, sOut, sProxyMarks, sLast>>
    BY <1>2 DEF ProofFails, Returns, streamState
  <2>2. sMark' \in {"none", "warned"} /\ sLast # <<"send", "ok">> /\ sProxyMarks = 0
    BY <1>0, <1>2, <2>1 DEF ProofFails, Mark, ChatPending, Asking
  <2>3. ChatShape' /\ ChatPending' /\ ApologyIsForNothing'
    BY <1>0, <2>1 DEF ChatShape, ChatPending, ApologyIsForNothing, Asking, Answering
  <2>4. ChargedForText' /\ BlamedForLast'
    BY <2>1, <2>2 DEF ChargedForText, BlamedForLast, Refunded, Frozen
  <2> QED BY <2>1, <2>2, <2>3, <2>4 DEF ChatInv, ChatSound
<1>3. CASE Forward
  <2> DEFINE e == Head(sChan)
  <2>1. /\ sPc = "forward" /\ sPc' \in {"forward", "finish"}
        /\ sOut' = [sOut EXCEPT !.text = @ + IF e = "text" THEN 1 ELSE 0,
                                !.events = @ + IF e = "err" THEN 0 ELSE 1]
        /\ UNCHANGED <<sClient, sBilled, sLeased, sMark, sProxyMarks, sLast>>
    BY <1>3 DEF Forward
  <2>2. sOut \in [text : Nat, events : Nat, apology : BOOLEAN]
    BY <1>0 DEF ChatShape
  <2> DEFINE t == sOut.text + IF e = "text" THEN 1 ELSE 0
             n == sOut.events + IF e = "err" THEN 0 ELSE 1
  <2> HIDE DEF e
  <2>6. t \in Nat /\ n \in Nat /\ sOut.apology \in BOOLEAN
    BY <2>2
  <2>7. sOut' = [text |-> t, events |-> n, apology |-> sOut.apology]
    BY <2>1, <2>2
  <2> HIDE DEF t, n
  <2>3. sOut' \in [text : Nat, events : Nat, apology : BOOLEAN] /\ sOut'.apology = sOut.apology
    BY <2>6, <2>7
  <2>4. sOut.apology # TRUE
    BY <1>0, <2>1 DEF ApologyIsForNothing
  <2>5. ChatShape' /\ ChatPending' /\ ApologyIsForNothing' /\ sPc' # "done"
    BY <1>0, <2>1, <2>3, <2>4 DEF ChatShape, ChatPending, ApologyIsForNothing, Asking, Answering
  <2> QED BY <2>5, PendingKeeps
<1>4. CASE Finish
  <2>1. /\ sPc = "finish" /\ sPc' = "settle"
        /\ UNCHANGED <<sClient, sBilled, sLeased, sMark, sProxyMarks, sLast>>
        /\ sOut \in [text : Nat, events : Nat, apology : BOOLEAN]
    BY <1>0, <1>4 DEF Finish, ChatShape
  <2>2. /\ sOut' \in [text : Nat, events : Nat, apology : BOOLEAN]
        /\ sOut'.apology = TRUE => sOut'.text = 0
    BY <1>4, <2>1 DEF Finish
  <2>3. ChatShape' /\ ChatPending' /\ ApologyIsForNothing' /\ sPc' # "done"
    BY <1>0, <2>1, <2>2 DEF ChatShape, ChatPending, ApologyIsForNothing, Asking, Answering
  <2> QED BY <2>3, PendingKeeps
<1>5. CASE SettleChat
  <2>1. /\ sPc = "settle" /\ sPc' = "done" /\ sLeased' = FALSE /\ sBilled' = CompletionTokens
        /\ UNCHANGED <<sMode, sClient, sOut, sMark, sProxyMarks, sLast>>
    BY <1>5 DEF SettleChat, Returns, streamState
  <2>2. /\ sLast = <<"send", "ok">> /\ sMark = "none" /\ sProxyMarks \in Nat /\ sProxyMarks <= 1
        /\ sOut.text \in Nat /\ (sOut.apology = TRUE => sOut.text = 0) /\ sOut.apology \in BOOLEAN
    BY <1>0, <2>1 DEF ChatPending, ChatShape, ApologyIsForNothing, Asking, Answering
  <2>3. /\ CompletionTokens \in Nat
        /\ CompletionTokens = sOut.text \/ (sOut.apology /\ sMode = "collect" /\ CompletionTokens = 1)
    BY <2>2 DEF CompletionTokens
  <2>4. sBilled' # Refunded /\ sBilled' # Frozen
    BY <2>1, <2>3 DEF Refunded, Frozen
  <2>5. ChargedForText' /\ BlamedForLast'
    BY <2>1, <2>2, <2>3, <2>4 DEF ChargedForText, BlamedForLast
  <2>6. ChatShape' /\ ChatPending' /\ ApologyIsForNothing'
    BY <1>0, <2>1 DEF ChatShape, ChatPending, ApologyIsForNothing, Asking, Answering
  <2> QED BY <2>1, <2>2, <2>5, <2>6 DEF ChatInv, ChatSound
<1> QED BY <1>1, <1>2, <1>3, <1>4, <1>5

\* Every step of a chat keeps the invariant: the reader and the upstream
\* touch nothing of what it is about.
LEMMA ChatStep == ChatInv /\ [SNext]_sVars => ChatInv'
<1> SUFFICES ASSUME ChatInv, [SNext]_sVars PROVE ChatInv'
  OBVIOUS
<1>1. CASE HandlerStep
  BY <1>1, HandshakeKeeps, AnswerKeeps DEF HandlerStep
<1>2. CASE ReaderStep \/ UpstreamStalls \/ ClientLeaves \/ UNCHANGED sVars
  <2>1. /\ sClient' \in BOOLEAN
        /\ UNCHANGED <<sPc, sMode, sOut, sBilled, sLeased, sMark, sProxyMarks, sLast>>
    BY <1>2 DEF ReaderStep, ReadEvent, SendUnblocks, UpstreamEnds, ReadFails, UpstreamStalls, ClientLeaves,
                sVars, streamState, ChatInv, ChatShape
  <2> QED BY <2>1 DEF ChatInv, ChatShape, ChatPending, ApologyIsForNothing, ChatSound, ChargedForText,
                      BlamedForLast
<1> QED BY <1>1, <1>2 DEF SNext

\* A chat starts with its estimate frozen and its lease held.
LEMMA ChatStart == ASSUME SInit PROVE ChatInv
BY DEF SInit, ChatInv, ChatShape, ChatPending, ApologyIsForNothing, ChatSound, ChargedForText, BlamedForLast,
       Asking, Answering, Refunded, Frozen

\* A chat that has returned is settled for the text it delivered or refunded,
\* and an account is blamed for the answer that ended the chat only, for every
\* number of events and capacity of the channel, whenever the client leaves and
\* the upstream stalls.
THEOREM ChatStaysSound == SFairSpec => []ChatSound
<1>1. ChatInv => ChatSound
  BY DEF ChatInv
<1> QED BY <1>1, ChatStart, ChatStep, PTL DEF SFairSpec

-----------------------------------------------------------------------------
(* The text of a chat's answer.                                            *)

Recipients == {"all", "tool"}
Extractors == [curP : Paths, recipient : Recipients]
Extracted == [ext : Extractors, out : Seq(Nat), final : BOOLEAN]
Patches == [p : Paths \cup {"keep"}, o : {"append", "replace"}, v : Nat]

Senders == [path : Paths, to : Recipients, from : Nat, stage : {"open", "finished", "over"},
            pieces : Nat]

\* The extractor's path and recipient are the sender's, until the handler
\* leaves, and it leaves at the end of a message; the text is exact.
DeltaInv ==
    /\ dSent \in Senders /\ dSent.from <= dSent.pieces
    /\ dExt \in Extractors /\ dText \in Seq(Nat) /\ dFinal \in BOOLEAN
    /\ dSeen \cup dReplaced \subseteq 1 .. dSent.pieces
    /\ dRead \in 0 .. dSent.pieces
    /\ dFinal = FALSE => /\ dExt = [curP |-> dSent.path, recipient |-> dSent.to]
                         /\ dRead = dSent.pieces
    /\ dFinal = TRUE => dSent.stage # "open" \/ dRead <= dSent.from
    /\ TextExact

\* Pieces in order.
Rising(t) == \A i, j \in DOMAIN t : i < j => t[i] < t[j]

\* What a patch does to the extractor.
LEMMA PatchFacts ==
    ASSUME NEW r \in Extracted, NEW q \in Patches
    PROVE  LET at == IF q.p = "keep" THEN r.ext.curP ELSE q.p
               x == ExtractPatch(r, q)
           IN  /\ x \in Extracted
               /\ x.ext = [curP |-> at, recipient |-> r.ext.recipient]
               /\ x.out = IF /\ r.ext.recipient = "all" /\ at \in {"", "parts"}
                             /\ q.o = "append" /\ q.v # Finished
                          THEN Append(r.out, q.v) ELSE r.out
               /\ x.final = TRUE => r.final = TRUE \/ (at = "status" /\ q.v = Finished)
<1> DEFINE at == IF q.p = "keep" THEN r.ext.curP ELSE q.p
           e == Keeps(r.ext, q.p)
           x == ExtractPatch(r, q)
<1>1. /\ r.ext \in Extractors /\ r.out \in Seq(Nat) /\ r.final \in BOOLEAN
      /\ q.p \in Paths \cup {"keep"} /\ q.v \in Nat
  BY DEF Extracted, Patches
<1>2. /\ e = [curP |-> at, recipient |-> r.ext.recipient] /\ e \in Extractors
      /\ e.curP = at /\ e.recipient = r.ext.recipient /\ at \in Paths
  BY <1>1 DEF Keeps, Extractors
<1> HIDE DEF e, at
<1>3. CASE e.curP = "thoughts"
  <2>1. x = [r EXCEPT !.ext = e]
    BY <1>3 DEF ExtractPatch, e
  <2> QED BY <1>1, <1>2, <1>3, <2>1 DEF Extracted, at
<1>4. CASE e.curP = "status"
  <2> DEFINE f == r.final \/ q.v = Finished
  <2>1. x = [r EXCEPT !.ext = e, !.final = f]
    BY <1>4 DEF ExtractPatch, e
  <2>2. f \in BOOLEAN
    OBVIOUS
  <2>3. f = TRUE => r.final = TRUE \/ (at = "status" /\ q.v = Finished)
    BY <1>1, <1>2, <1>4
  <2> HIDE DEF f
  <2> QED BY <1>1, <1>2, <1>4, <2>1, <2>2, <2>3 DEF Extracted, at
<1>5. CASE e.curP \notin {"thoughts", "status"}
  <2> DEFINE t == IF IsShown(e) /\ q.o = "append" /\ IsText(q.v) THEN Append(r.out, q.v) ELSE r.out
  <2>1. x = [r EXCEPT !.ext = e, !.out = t]
    BY <1>5 DEF ExtractPatch, e
  <2>2. t \in Seq(Nat)
    BY <1>1
  <2>3. t = IF r.ext.recipient = "all" /\ at \in {"", "parts"} /\ q.o = "append" /\ q.v # Finished
            THEN Append(r.out, q.v) ELSE r.out
    BY <1>2 DEF IsShown, IsText
  <2> HIDE DEF t, x
  <2>4. x \in Extracted /\ x.ext = e /\ x.out = t /\ x.final = r.final
    BY <1>1, <1>2, <2>1, <2>2 DEF Extracted
  <2> QED BY <1>2, <2>3, <2>4 DEF at, x
<1> QED BY <1>3, <1>4, <1>5

\* The patches of a frame are taken one by one.
LEMMA PatchPath ==
    ASSUME NEW e \in Extractors, NEW t \in Seq(Patches)
    PROVE  \E h : /\ h[0] = Nothing(e)
                  /\ \A k \in 1 .. Len(t) : h[k] = ExtractPatch(h[k - 1], t[k])
                  /\ ExtractArray(e, t) = h[Len(t)]
<1> DEFINE n == Len(t)
           s == Nothing(e)
           Solves(f) == f = [D \in SUBSET DOMAIN t |->
                               IF D = {} THEN s ELSE ExtractPatch(f[D \ {Max(D)}], t[Max(D)])]
<1>0. /\ n \in Nat /\ DOMAIN t = 1 .. n /\ \A k \in 1 .. n : t[k] \in Patches
      /\ s \in Extracted
  BY DEF Nothing, Extracted
<1> HIDE DEF s
<1>1. \E f : Solves(f)
  <2> DEFINE step == [p \in (1 .. n) \X Extracted |-> ExtractPatch(p[2], t[p[1]])]
  <2>1. step \in [(1 .. n) \X Extracted -> Extracted]
    <3>1. ASSUME NEW p \in (1 .. n) \X Extracted PROVE ExtractPatch(p[2], t[p[1]]) \in Extracted
      BY <1>0, PatchFacts
    <3> QED BY <3>1
  <2>2. PICK f \in [SUBSET (1 .. n) -> Extracted] : FoldOver(f, 1 .. n, s, step)
    <3> HIDE DEF step, n
    <3> QED BY <1>0, <2>1, FoldExists
  <2>3. ASSUME NEW D \in SUBSET (1 .. n), D # {}
        PROVE  step[<<Max(D), f[D \ {Max(D)}]>>] = ExtractPatch(f[D \ {Max(D)}], t[Max(D)])
    <3>1. Max(D) \in 1 .. n
      BY <1>0, <2>3, MaxBelow
    <3>2. f[D \ {Max(D)}] \in Extracted
      BY <2>2
    <3> QED BY <3>1, <3>2
  <2> HIDE DEF step, n
  <2>4. f = [D \in SUBSET (1 .. n) |->
               IF D = {} THEN s ELSE ExtractPatch(f[D \ {Max(D)}], t[Max(D)])]
    BY <2>2, <2>3 DEF FoldOver
  <2> QED BY <1>0, <2>4
<1> DEFINE f == CHOOSE f : Solves(f)
<1>2. ExtractArray(e, t) = f[DOMAIN t]
  BY DEF ExtractArray, FoldLeft, MapThenFoldSet, s
<1>3. Solves(f)
  <2> HIDE DEF Solves
  <2> QED BY <1>1
<1> HIDE DEF f
<1> DEFINE h == [k \in 0 .. n |-> f[1 .. k]]
<1>4. h[0] = s
  <2>1. 1 .. 0 = {} /\ {} \in SUBSET DOMAIN t
    OBVIOUS
  <2>2. f[{}] = s
    BY <1>3, <2>1
  <2> QED BY <1>0, <2>1, <2>2
<1>5. ASSUME NEW k \in 1 .. n PROVE h[k] = ExtractPatch(h[k - 1], t[k])
  <2>1. /\ 1 .. k \in SUBSET DOMAIN t /\ 1 .. k # {} /\ Max(1 .. k) = k
        /\ (1 .. k) \ {k} = 1 .. (k - 1) /\ k - 1 \in 0 .. n /\ k \in 0 .. n
    <3> HIDE DEF n
    <3> QED BY <1>0, UpTo
  <2>2. f[1 .. k] = ExtractPatch(f[(1 .. k) \ {Max(1 .. k)}], t[Max(1 .. k)])
    BY <1>3, <2>1
  <2> QED BY <2>1, <2>2
<1>6. ExtractArray(e, t) = h[n]
  BY <1>0, <1>2
<1> HIDE DEF h, f
<1> QED BY <1>4, <1>5, <1>6 DEF s

\* Pieces that follow others.
LEMMA Following ==
    ASSUME NEW s \in Seq(Nat), NEW t \in Seq(Nat)
    PROVE  /\ s \o t \in Seq(Nat) /\ ToSet(s \o t) = ToSet(s) \cup ToSet(t)
           /\ (/\ Rising(s) /\ Rising(t)
               /\ \A x \in ToSet(s), y \in ToSet(t) : x < y) => Rising(s \o t)
<1> DEFINE u == s \o t
<1>1. /\ u \in Seq(Nat) /\ Len(u) = Len(s) + Len(t)
      /\ \A i \in 1 .. Len(s) : u[i] = s[i]
      /\ \A i \in 1 .. Len(t) : u[Len(s) + i] = t[i]
      /\ Len(s) \in Nat /\ Len(t) \in Nat
      /\ DOMAIN u = 1 .. Len(u) /\ DOMAIN s = 1 .. Len(s) /\ DOMAIN t = 1 .. Len(t)
  OBVIOUS
<1> HIDE DEF u
<1>2. ASSUME NEW i \in DOMAIN u
      PROVE  \/ i \in DOMAIN s /\ u[i] = s[i]
             \/ i > Len(s) /\ i - Len(s) \in DOMAIN t /\ u[i] = t[i - Len(s)]
  <2>1. CASE i <= Len(s)
    BY <1>1, <2>1
  <2>2. CASE i > Len(s)
    <3>1. i - Len(s) \in 1 .. Len(t) /\ Len(s) + (i - Len(s)) = i
      BY <1>1, <2>2
    <3> QED BY <1>1, <2>2, <3>1
  <2> QED BY <1>1, <2>1, <2>2
<1>3. ToSet(u) = ToSet(s) \cup ToSet(t)
  <2>1. ToSet(u) \subseteq ToSet(s) \cup ToSet(t)
    BY <1>2 DEF ToSet
  <2>2. ASSUME NEW i \in DOMAIN s PROVE s[i] \in ToSet(u)
    <3>1. i \in DOMAIN u /\ u[i] = s[i]
      BY <1>1
    <3> QED BY <3>1 DEF ToSet
  <2>3. ASSUME NEW i \in DOMAIN t PROVE t[i] \in ToSet(u)
    <3>1. Len(s) + i \in DOMAIN u /\ u[Len(s) + i] = t[i]
      BY <1>1
    <3> QED BY <3>1 DEF ToSet
  <2> QED BY <2>1, <2>2, <2>3 DEF ToSet
<1>4. ASSUME Rising(s), Rising(t), \A x \in ToSet(s), y \in ToSet(t) : x < y,
             NEW i \in DOMAIN u, NEW j \in DOMAIN u, i < j
      PROVE  u[i] < u[j]
  <2>1. CASE i \in DOMAIN s /\ j \in DOMAIN s /\ u[i] = s[i] /\ u[j] = s[j]
    BY <1>4, <2>1 DEF Rising
  <2>2. CASE i \in DOMAIN s /\ u[i] = s[i] /\ j - Len(s) \in DOMAIN t /\ u[j] = t[j - Len(s)]
    BY <1>4, <2>2 DEF ToSet
  <2>3. CASE /\ i - Len(s) \in DOMAIN t /\ u[i] = t[i - Len(s)]
             /\ j - Len(s) \in DOMAIN t /\ u[j] = t[j - Len(s)]
    <3>1. i - Len(s) < j - Len(s)
      BY <1>1, <1>4
    <3> QED BY <1>4, <2>3, <3>1 DEF Rising
  <2>4. ~(i > Len(s) /\ j \in DOMAIN s)
    BY <1>1, <1>4
  <2> QED BY <1>2, <2>1, <2>2, <2>3, <2>4
<1>5. Rising(s) /\ Rising(t) /\ (\A x \in ToSet(s), y \in ToSet(t) : x < y) => Rising(u)
  BY <1>4 DEF Rising
<1> QED BY <1>1, <1>3, <1>5 DEF u

\* A frame that is sent: if the handler still reads, the extractor goes where
\* the sender is, what it writes is what the sender meant, and it leaves only
\* at the end of a message.  S: the pieces of the frame for the user.
LEMMA Received ==
    ASSUME DeltaInv, NEW f, NEW n \in Nat, Receive(f, n), dSent.pieces <= n,
           dSent' \in Senders, dSent'.pieces = n,
           \/ dSent'.from = dSent.pieces
           \/ dSent'.from = dSent.from /\ dSent.stage = "open"
           \/ /\ dSent'.from = dSent.from /\ n = dSent.pieces
              /\ dSent'.stage = dSent.stage \/ dSent'.stage # "open",
           NEW S \in SUBSET (dSent.pieces + 1 .. n),
           dSeen' \cup dReplaced' = dSeen \cup dReplaced \cup S,
           dFinal = FALSE =>
              LET x == Extract(dExt, f)
              IN  /\ x.ext \in Extractors /\ x.final \in BOOLEAN
                  /\ x.out \in Seq(Nat) /\ Rising(x.out) /\ ToSet(x.out) = S
                  /\ x.final = FALSE => x.ext = [curP |-> dSent'.path, recipient |-> dSent'.to]
                  /\ x.final = TRUE => dSent'.stage # "open"
    PROVE  DeltaInv'
<1> DEFINE x == Extract(dExt, f)
           k == dSent.pieces
           old == dSeen \cup dReplaced
<1>1. /\ k \in Nat /\ dSent.from \in Nat /\ dSent.from <= k /\ dRead \in 0 .. k
      /\ dText \in Seq(Nat) /\ dFinal \in BOOLEAN /\ dExt \in Extractors
      /\ Rising(dText) /\ ToSet(dText) = {m \in old : m <= dRead}
      /\ dRead = k \/ dRead <= dSent.from
      /\ old \subseteq 1 .. k
      /\ dFinal = TRUE => dSent.stage # "open" \/ dRead <= dSent.from
      /\ dFinal = FALSE => dRead = k
  BY DEF DeltaInv, TextExact, Senders, Rising
<1>2. /\ dSent'.from <= n /\ dSent'.from \in Nat /\ (dSeen \cup dReplaced)' \subseteq 1 .. n
      /\ (dSeen \cup dReplaced)' = old \cup S
  <2>1. dSent'.from <= n /\ dSent'.from \in Nat
    BY <1>1
  <2>2. (dSeen \cup dReplaced)' = old \cup S
    OBVIOUS
  <2>3. S \subseteq 1 .. n
    BY <1>1
  <2>4. old \subseteq 1 .. n
    BY <1>1
  <2> QED BY <2>1, <2>2, <2>3, <2>4
<1> HIDE DEF old
<1>3. CASE dFinal = TRUE
  <2>1. dExt' = dExt /\ dText' = dText /\ dFinal' = TRUE /\ dRead' = dRead
    BY <1>3 DEF Receive
  <2>2. {m \in old \cup S : m <= dRead} = {m \in old : m <= dRead}
    <3>1. ASSUME NEW m \in S PROVE ~(m <= dRead)
      <4>1. m \in k + 1 .. n /\ dRead \in 0 .. k
        BY <1>1
      <4> HIDE DEF k
      <4> QED BY ONLY <1>1, <4>1, n \in Nat
    <3> QED BY ONLY <3>1
  <2>8. dRead \in 0 .. n
    <3>1. \A i, j, l \in Nat : i \in 0 .. j /\ j <= l => i \in 0 .. l
      OBVIOUS
    <3>2. dRead \in Nat
      BY <1>1
    <3> HIDE DEF k
    <3>3. k <= n
      BY DEF k
    <3> QED BY ONLY <1>1, <3>1, <3>2, <3>3, n \in Nat
  <2>3. dRead <= dSent'.from \/ (n = k /\ (dSent'.stage = dSent.stage \/ dSent'.stage # "open")
                                   /\ dSent'.from = dSent.from)
    BY <1>1, <1>3
  <2>4. /\ dRead = n \/ dRead <= dSent'.from
        /\ dSent'.stage # "open" \/ dRead <= dSent'.from
    BY <1>1, <1>3, <2>3
  <2>5. ToSet(dText)' = {m \in (dSeen \cup dReplaced)' : m <= dRead'}
    BY <1>1, <1>2, <2>1, <2>2
  <2>6. Rising(dText')
    BY <1>1, <2>1
  <2>7. TextExact'
    BY ONLY <2>1, <2>4, <2>5, <2>6, dSent'.pieces = n DEF TextExact, Rising
  <2> QED BY ONLY <1>1, <1>2, <2>1, <2>8, <2>4, <2>7, dSent' \in Senders, dSent'.pieces = n DEF DeltaInv
<1>4. CASE dFinal = FALSE
  <2>1. dExt' = x.ext /\ dText' = dText \o x.out /\ dFinal' = x.final /\ dRead' = n
    BY <1>4 DEF Receive
  <2>2. /\ x.ext \in Extractors /\ x.final \in BOOLEAN
        /\ x.out \in Seq(Nat) /\ Rising(x.out) /\ ToSet(x.out) = S
        /\ x.final = FALSE => x.ext = [curP |-> dSent'.path, recipient |-> dSent'.to]
        /\ x.final = TRUE => dSent'.stage # "open"
    BY <1>4
  <2> HIDE DEF x
  <2>3. /\ dText' \in Seq(Nat) /\ ToSet(dText') = ToSet(dText) \cup S
        /\ ((\A a \in ToSet(dText), b \in S : a < b) => Rising(dText'))
    BY ONLY <1>1, <2>1, <2>2, Following
  <2>4. ASSUME NEW a \in ToSet(dText), NEW b \in S PROVE a < b
    <3>1. a \in 1 .. k /\ b \in k + 1 .. n
      BY <1>1
    <3> HIDE DEF k
    <3> QED BY ONLY <1>1, <3>1, n \in Nat
  <2>5. {m \in old \cup S : m <= n} = old \cup S /\ {m \in old : m <= k} = old
    BY <1>1, <1>2
  <2>6. ToSet(dText') = {m \in (dSeen \cup dReplaced)' : m <= dRead'}
    BY ONLY <1>1, <1>2, <1>4, <2>1, <2>3, <2>5
  <2>7. TextExact'
    BY ONLY <2>1, <2>3, <2>4, <2>6, dSent'.pieces = n DEF TextExact, Rising
  <2>8. n \in 0 .. n
    OBVIOUS
  <2> QED BY ONLY <1>2, <2>1, <2>2, <2>3, <2>7, <2>8, dSent' \in Senders, dSent'.pieces = n DEF DeltaInv
<1> QED BY <1>1, <1>3, <1>4

\* The extractor and the sender when a frame is read.
LEMMA InStep ==
    ASSUME DeltaInv, dFinal = FALSE
    PROVE  /\ dSent.path \in Paths /\ dSent.to \in Recipients /\ dSent.pieces \in Nat
           /\ dExt = [curP |-> dSent.path, recipient |-> dSent.to]
           /\ \A p \in Paths : \A q \in Named(p) : Keeps(dExt, q) = [curP |-> p, recipient |-> dSent.to]
<1>2. /\ dSent.path \in Paths /\ dSent.to \in Recipients /\ dSent.pieces \in Nat
      /\ dExt = [curP |-> dSent.path, recipient |-> dSent.to]
  BY DEF DeltaInv, Senders
<1>3. ASSUME NEW p \in Paths, NEW q \in Named(p)
      PROVE  Keeps(dExt, q) = [curP |-> p, recipient |-> dSent.to]
  <2> DEFINE at == IF q = "keep" THEN dExt.curP ELSE q
  <2>1. dExt.curP = dSent.path /\ dExt.recipient = dSent.to
    BY <1>2
  <2>2. at = p
    BY <1>3, <2>1 DEF Named, Paths
  <2>3. Keeps(dExt, q) = [dExt EXCEPT !.curP = at]
    BY DEF Keeps
  <2> HIDE DEF at
  <2> QED BY <1>2, <2>2, <2>3
<1> QED BY <1>2, <1>3

\* One piece more, or none.
LEMMA OnePiece ==
    ASSUME NEW s \in Seq(Nat), NEW n \in Nat
    PROVE  /\ <<n>> \in Seq(Nat) /\ <<>> \in Seq(Nat)
           /\ Append(s, n) = s \o <<n>> /\ s = s \o <<>> /\ Append(<<>>, n) = <<n>>
OBVIOUS

LEMMA TwoMore ==
    \A k \in Nat : /\ k + 1 \in Nat /\ k + 1 # 0 /\ k + 1 + 1 \in Nat /\ k + 1 + 1 # 0
                  /\ k + 1 + 1 = k + 2 /\ k + 2 \in Nat
OBVIOUS

\* At most one piece, as a sequence and as a set.
LEMMA PieceFacts ==
    ASSUME NEW n \in Nat, NEW here \in BOOLEAN
    PROVE  LET t == IF here THEN <<n>> ELSE <<>>
           IN  t \in Seq(Nat) /\ Rising(t) /\ ToSet(t) = Piece(n, here)
<1>1. <<n>> \in Seq(Nat) /\ <<>> \in Seq(Nat) /\ Rising(<<n>>) /\ Rising(<<>>)
  BY DEF Rising
<1>2. ToSet(<<n>>) = {n} /\ ToSet(<<>>) = {}
  BY DEF ToSet
<1>3. CASE here = TRUE
  BY <1>1, <1>2, <1>3 DEF Piece
<1>4. CASE here = FALSE
  BY <1>1, <1>2, <1>4 DEF Piece
<1> QED BY <1>3, <1>4

\* What a message does to the extractor.
LEMMA MessageFacts ==
    ASSUME NEW r, NEW said, NEW isText, NEW done, NEW q,
           Keeps(dExt, q) \in Extractors, Keeps(dExt, q).curP # "thoughts",
           NEW to, to = IF r = "keep" THEN Keeps(dExt, q).recipient ELSE r
    PROVE  Extract(dExt, [kind |-> "object", p |-> q,
                          v |-> [to |-> r, finished |-> done, isText |-> isText, text |-> said]])
           = [ext |-> [curP |-> Keeps(dExt, q).curP, recipient |-> to],
              out |-> IF to = "all" THEN said ELSE <<>>,
              final |-> isText /\ done]
<1> DEFINE body == [to |-> r, finished |-> done, isText |-> isText, text |-> said]
           m == [kind |-> "object", p |-> q, v |-> body]
           e == Keeps(dExt, q)
<1>1. m.kind = "object" /\ m.p = q /\ m.v = body
  OBVIOUS
<1>2. body.to = r /\ body.text = said /\ body.isText = isText /\ body.finished = done
  OBVIOUS
<1> DEFINE e1 == [e EXCEPT !.recipient = IF r = "keep" THEN @ ELSE r]
<1>3. e1 = [curP |-> e.curP, recipient |-> to] /\ e1.recipient = to
  BY DEF Extractors
<1> HIDE DEF m, body, e
<1>4. Keeps(dExt, m.p) = e /\ e.curP # "thoughts"
  BY <1>1 DEF e
<1>5. Extract(dExt, m) = ExtractObject(e, body)
  BY <1>1, <1>4 DEF Extract
<1>6. ExtractObject(e, body) = [ext |-> e1, out |-> IF e1.recipient = "all" THEN said ELSE <<>>,
                                final |-> isText /\ done]
  BY <1>2 DEF ExtractObject
<1> HIDE DEF e1
<1> QED BY <1>3, <1>5, <1>6 DEF m, body, e

\* The sender after the start of a message.
LEMMA MessageSent ==
    ASSUME DeltaInv, NEW to \in Recipients, NEW form \in {"none", "empty", "text"},
           NEW finished \in BOOLEAN, SendMessage(to, form, finished)
    PROVE  /\ dSent' \in Senders /\ dSent'.path = "" /\ dSent'.to = to
           /\ dSent'.from = dSent.pieces /\ dSent'.pieces = Next1
           /\ dSent'.stage = Stage(finished)
<1> DEFINE k == dSent.pieces
           g == Stage(finished)
           root == ""
           n == Next1
<1>1. k \in Nat /\ n \in Nat /\ g \in {"open", "finished", "over"} /\ root \in Paths
  <2>1. dSent \in Senders
    BY DEF DeltaInv
  <2>2. dSent.pieces \in Nat
    BY ONLY <2>1 DEF Senders
  <2> QED BY ONLY <2>2, finished \in BOOLEAN DEF Next1, Stage, Paths
<1>2. dSent' = [path |-> root, to |-> to, from |-> k, stage |-> g, pieces |-> n]
  BY DEF SendMessage
<1> HIDE DEF k, g, root, n
<1>3. dSent' \in Senders /\ dSent'.path = root /\ dSent'.to = to /\ dSent'.from = k
      /\ dSent'.pieces = n /\ dSent'.stage = g
  BY ONLY <1>1, <1>2, to \in Recipients DEF Senders
<1> QED BY <1>3 DEF k, g, root, n

\* The start of a message.
LEMMA MessageKeeps ==
    ASSUME DeltaInv, NEW to \in Recipients, NEW form \in {"none", "empty", "text"},
           NEW finished \in BOOLEAN, SendMessage(to, form, finished)
    PROVE  DeltaInv'
<1> DEFINE said == IF form = "text" THEN <<Next1>> ELSE <<>>
           isText == form # "none"
           here == form = "text" /\ to = "all"
           n == Next1
           S == Piece(n, here)
           t == IF here THEN <<n>> ELSE <<>>
           root == ""
           k == dSent.pieces
<1>1. PICK q \in Named(root), r \in Addressed(to) :
         Receive([kind |-> "object", p |-> q,
                  v |-> [to |-> r, finished |-> finished, isText |-> isText, text |-> said]], n)
  BY DEF SendMessage
<1>2. root \in Paths /\ root # "thoughts" /\ here \in BOOLEAN
  BY DEF Paths
<1>3. /\ dSent' \in Senders /\ dSent'.path = root /\ dSent'.to = to
      /\ dSent'.from = dSent.pieces /\ dSent'.pieces = n /\ dSent'.stage = Stage(finished)
  BY MessageSent
<1>4. dSent.pieces \in Nat /\ n \in Nat /\ n = dSent.pieces + 1
  <2>1. dSent \in Senders
    BY DEF DeltaInv
  <2>2. k \in Nat
    BY ONLY <2>1 DEF Senders
  <2> HIDE DEF k
  <2>3. k + 1 \in Nat
    BY ONLY <2>2, TwoMore
  <2> QED BY ONLY <2>2, <2>3 DEF Next1, k
<1>5. dSeen' \cup dReplaced' = dSeen \cup dReplaced \cup S
  BY DEF SendMessage
<1>6. said = (IF form = "text" THEN <<n>> ELSE <<>>) /\ t = IF to = "all" THEN said ELSE <<>>
  OBVIOUS
<1> HIDE DEF root, n, here
<1>7. S \in SUBSET (dSent.pieces + 1 .. n) /\ dSent.pieces <= n
  BY <1>4 DEF Piece
<1>8. t \in Seq(Nat) /\ Rising(t) /\ ToSet(t) = S
  BY <1>2, <1>4, PieceFacts
<1> HIDE DEF said, S, t
<1> DEFINE f == [kind |-> "object", p |-> q,
                 v |-> [to |-> r, finished |-> finished, isText |-> isText, text |-> said]]
           x == Extract(dExt, f)
<1>9. ASSUME dFinal = FALSE
      PROVE  /\ x.ext = [curP |-> root, recipient |-> to] /\ x.out = t
             /\ x.final = (isText /\ finished)
  <2>1. Keeps(dExt, q) = [curP |-> root, recipient |-> dSent.to] /\ dSent.to \in Recipients
    BY ONLY DeltaInv, q \in Named(root), <1>2, <1>9, InStep
  <2>2. /\ Keeps(dExt, q) \in Extractors /\ Keeps(dExt, q).curP = root
        /\ Keeps(dExt, q).recipient = dSent.to
    BY ONLY <1>2, <2>1 DEF Extractors
  <2>3. to = IF r = "keep" THEN Keeps(dExt, q).recipient ELSE r
    BY <1>1, <2>2 DEF Addressed, Recipients
  <2> HIDE DEF isText
  <2>4. x = [ext |-> [curP |-> Keeps(dExt, q).curP, recipient |-> to],
             out |-> IF to = "all" THEN said ELSE <<>>, final |-> isText /\ finished]
    BY ONLY <1>2, <2>2, <2>3, MessageFacts
  <2> HIDE DEF x
  <2> QED BY ONLY <1>6, <2>2, <2>4
<1>10. [curP |-> root, recipient |-> to] \in Extractors
  BY ONLY <1>2, to \in Recipients DEF Extractors
<1>11. finished = TRUE => Stage(finished) # "open"
  BY DEF Stage
<1> HIDE DEF x
<1>12. dFinal = FALSE =>
          /\ x.ext \in Extractors /\ x.final \in BOOLEAN
          /\ x.out \in Seq(Nat) /\ Rising(x.out) /\ ToSet(x.out) = S
          /\ x.final = FALSE => x.ext = [curP |-> dSent'.path, recipient |-> dSent'.to]
          /\ x.final = TRUE => dSent'.stage # "open"
  BY <1>3, <1>8, <1>9, <1>10, <1>11
<1> HIDE DEF f
<1>13. Receive(f, n)
  BY <1>1 DEF f
<1> QED BY ONLY DeltaInv, <1>3, <1>4, <1>5, <1>7, <1>12, <1>13, Received DEF x

\* The three answers of the extractor.
LEMMA Answers ==
    ASSUME NEW e, NEW t
    PROVE  /\ Nothing(e).ext = e /\ Nothing(e).out = <<>> /\ Nothing(e).final = FALSE
           /\ Ends(e).ext = e /\ Ends(e).out = <<>> /\ Ends(e).final = TRUE
           /\ Output(e, t).ext = e /\ Output(e, t).out = t /\ Output(e, t).final = FALSE
BY DEF Nothing, Ends, Output

\* What a string does to the extractor.
LEMMA StringFacts ==
    ASSUME NEW v \in Nat, NEW q, NEW op, Keeps(dExt, q).curP = "status" \/ v # Finished
    PROVE  LET x == Extract(dExt, [kind |-> "string", p |-> q, o |-> op, v |-> v])
               e == Keeps(dExt, q)
           IN  /\ x.ext = e /\ (x.final = FALSE \/ x.final = TRUE)
               /\ x.out = IF IsShown(e) /\ v # Finished THEN <<v>> ELSE <<>>
               /\ x.final = TRUE => v = Finished
<1> DEFINE m == [kind |-> "string", p |-> q, o |-> op, v |-> v]
           e == Keeps(dExt, q)
           x == Extract(dExt, m)
           t == IF IsShown(e) /\ v # Finished THEN <<v>> ELSE <<>>
<1>1. m.kind = "string" /\ m.p = q /\ m.v = v
  OBVIOUS
<1> HIDE DEF m
<1>2. x = IF e.curP = "thoughts" THEN Nothing(e) ELSE ExtractString(e, v)
  <2> DEFINE g == Keeps(dExt, m.p)
  <2>1. g = e
    BY <1>1
  <2> HIDE DEF e
  <2>2. CASE g.curP = "thoughts"
    <3>1. x = Nothing(g)
      BY <1>1, <2>2 DEF Extract
    <3> QED BY <2>1, <2>2, <3>1
  <2>3. CASE g.curP # "thoughts"
    <3>1. x = ExtractString(g, m.v)
      BY <1>1, <2>3 DEF Extract
    <3> QED BY <1>1, <2>1, <2>3, <3>1
  <2> QED BY <2>2, <2>3
<1> HIDE DEF x
<1>3. e.curP = "status" \/ v # Finished
  OBVIOUS
<1> HIDE DEF e
<1>4. e.curP \notin {"", "parts"} => ~IsShown(e)
  BY DEF IsShown
<1>5. \/ x = Nothing(e) /\ ~IsShown(e)
      \/ x = Ends(e) /\ ~IsShown(e) /\ v = Finished
      \/ x = Output(e, <<v>>) /\ IsShown(e) /\ v # Finished
  <2>1. CASE e.curP = "thoughts"
    BY <1>2, <1>4, <2>1
  <2>2. CASE e.curP = "status"
    BY <1>2, <1>4, <2>2 DEF ExtractString
  <2>3. CASE e.curP \notin {"thoughts", "status"}
    BY <1>2, <1>3, <2>3 DEF ExtractString
  <2> QED BY <2>1, <2>2, <2>3
<1>6. /\ x.ext = e /\ (x.final = FALSE \/ x.final = TRUE) /\ x.out = t
      /\ x.final = TRUE => v = Finished
  <2>1. CASE x = Nothing(e) /\ ~IsShown(e)
    BY <2>1, Answers
  <2>2. CASE x = Ends(e) /\ ~IsShown(e) /\ v = Finished
    BY <2>2, Answers
  <2>3. CASE x = Output(e, <<v>>) /\ IsShown(e) /\ v # Finished
    <3>1. x.ext = e /\ x.out = <<v>> /\ x.final = FALSE
      BY <2>3 DEF Output
    <3> QED BY <2>3, <3>1
  <2> QED BY <1>5, <2>1, <2>2, <2>3
<1> QED BY <1>6 DEF m, e, x

\* The sender after a string or an array.
LEMMA SentOn ==
    ASSUME DeltaInv, NEW path \in Paths, NEW n \in Nat, NEW g \in {"open", "finished", "over"},
           dSent' = [dSent EXCEPT !.path = path, !.stage = g, !.pieces = n]
    PROVE  /\ dSent' \in Senders /\ dSent'.path = path /\ dSent'.to = dSent.to
           /\ dSent'.from = dSent.from /\ dSent'.pieces = n /\ dSent'.stage = g
           /\ dSent.to \in Recipients
<1>1. dSent \in Senders
  BY DEF DeltaInv
<1>2. dSent' = [path |-> path, to |-> dSent.to, from |-> dSent.from, stage |-> g, pieces |-> n]
  BY <1>1 DEF Senders
<1> QED BY ONLY <1>1, <1>2, path \in Paths, n \in Nat, g \in {"open", "finished", "over"} DEF Senders

\* A string at a path: a piece of text or the status.
LEMMA StringKeeps ==
    ASSUME DeltaInv, NEW path \in Paths, NEW q \in Named(path), NEW v \in Nat, NEW n \in Nat,
           NEW op, Receive([kind |-> "string", p |-> q, o |-> op, v |-> v], n),
           dSent' \in Senders, dSent'.path = path, dSent'.to = dSent.to,
           dSent'.from = dSent.from, dSent'.pieces = n, dSent.stage = "open",
           v = Finished => path = "status" /\ n = dSent.pieces /\ dSent'.stage # "open",
           v # Finished => v = n /\ n = dSent.pieces + 1,
           dSeen' \cup dReplaced' =
               dSeen \cup dReplaced \cup Piece(v, v # Finished /\ Shown(dSent.to, path))
    PROVE  DeltaInv'
<1> DEFINE m == [kind |-> "string", p |-> q, o |-> op, v |-> v]
           e == Keeps(dExt, q)
           x == Extract(dExt, m)
           here == v # Finished /\ Shown(dSent.to, path)
           t == IF here THEN <<v>> ELSE <<>>
           S == Piece(v, here)
<1>1. here \in BOOLEAN /\ dSent.pieces \in Nat
  BY DEF Shown, DeltaInv, Senders
<1>2. S \in SUBSET (dSent.pieces + 1 .. n) /\ dSent.pieces <= n
  BY <1>1 DEF Piece
<1>3. t \in Seq(Nat) /\ Rising(t) /\ ToSet(t) = S
  <2> HIDE DEF here
  <2> QED BY ONLY <1>1, v \in Nat, PieceFacts
<1>4. ASSUME dFinal = FALSE
      PROVE  /\ x.ext = [curP |-> path, recipient |-> dSent.to] /\ x.ext \in Extractors
             /\ x.out = t /\ x.final \in BOOLEAN /\ (x.final = TRUE => v = Finished)
  <2>1. e = [curP |-> path, recipient |-> dSent.to] /\ dSent.to \in Recipients
    BY ONLY DeltaInv, path \in Paths, q \in Named(path), <1>4, InStep
  <2>2. e \in Extractors /\ e.curP = path /\ e.recipient = dSent.to
    BY ONLY <2>1, path \in Paths DEF Extractors
  <2>3. IsShown(e) <=> Shown(dSent.to, path)
    BY ONLY <2>2 DEF IsShown, Shown
  <2>4. /\ x.ext = e /\ (x.final = FALSE \/ x.final = TRUE)
        /\ x.out = IF IsShown(e) /\ v # Finished THEN <<v>> ELSE <<>>
        /\ x.final = TRUE => v = Finished
    <3>1. e.curP = "status" \/ v # Finished
      BY <2>2
    <3> QED BY ONLY v \in Nat, <3>1, StringFacts
  <2>5. x.out = t
    BY ONLY <2>3, <2>4
  <2> HIDE DEF m, x, t, e
  <2> QED BY ONLY <2>1, <2>2, <2>4, <2>5
<1>5. Receive(m, n)
  OBVIOUS
<1> HIDE DEF m, x, t, e, S
<1>6. dFinal = FALSE =>
          /\ x.ext \in Extractors /\ x.final \in BOOLEAN
          /\ x.out \in Seq(Nat) /\ Rising(x.out) /\ ToSet(x.out) = S
          /\ x.final = FALSE => x.ext = [curP |-> dSent'.path, recipient |-> dSent'.to]
          /\ x.final = TRUE => dSent'.stage # "open"
  BY <1>3, <1>4
<1>7. dSeen' \cup dReplaced' = dSeen \cup dReplaced \cup S
  BY DEF S
<1> QED BY ONLY DeltaInv, n \in Nat, <1>2, <1>5, <1>6, <1>7, dSent' \in Senders, dSent'.pieces = n,
                dSent'.from = dSent.from, dSent.stage = "open", Received DEF x

LEMMA TextKeeps ==
    ASSUME DeltaInv, NEW path \in Paths, NEW op \in {"append", "replace"}, SendText(path, op)
    PROVE  DeltaInv'
<1> DEFINE n == Next1
           g == dSent.stage
<1>1. PICK q \in Named(path) : Receive([kind |-> "string", p |-> q, o |-> op, v |-> n], n)
  BY DEF SendText
<1>2. dSent.pieces \in Nat /\ dSent \in Senders /\ g = "open"
  BY DEF DeltaInv, Senders, SendText
<1>3. n \in Nat /\ n # Finished /\ n = dSent.pieces + 1
  BY <1>2 DEF Next1, Finished
<1>4. dSent' = [dSent EXCEPT !.path = path, !.stage = g, !.pieces = n]
  BY <1>2 DEF SendText, Senders
<1>5. dSeen' \cup dReplaced' = dSeen \cup dReplaced \cup Piece(n, n # Finished /\ Shown(dSent.to, path))
  BY <1>3 DEF SendText, Piece
<1> HIDE DEF n, g
<1>6. /\ dSent' \in Senders /\ dSent'.path = path /\ dSent'.to = dSent.to
      /\ dSent'.from = dSent.from /\ dSent'.pieces = n /\ dSent'.stage = g
  BY ONLY DeltaInv, path \in Paths, <1>2, <1>3, <1>4, SentOn
<1> QED BY <1>1, <1>2, <1>3, <1>5, <1>6, StringKeeps DEF g

LEMMA StatusKeeps ==
    ASSUME DeltaInv, SendStatus
    PROVE  DeltaInv'
<1> DEFINE n == dSent.pieces
           path == "status"
           g == "finished"
           op == "replace"
<1>1. PICK q \in Named(path) : Receive([kind |-> "string", p |-> q, o |-> op, v |-> Finished], n)
  BY DEF SendStatus
<1>2. n \in Nat /\ dSent \in Senders /\ dSent.stage = "open"
  BY DEF DeltaInv, Senders, SendStatus
<1>3. path \in Paths /\ g \in {"open", "finished", "over"} /\ g # "open"
  BY DEF Paths
<1>4. dSent' = [dSent EXCEPT !.path = path, !.stage = g, !.pieces = n]
  BY <1>2 DEF SendStatus, Senders
<1>5. dSeen' \cup dReplaced' =
          dSeen \cup dReplaced \cup Piece(Finished, Finished # Finished /\ Shown(dSent.to, path))
  BY DEF SendStatus, Piece
<1>6. path = "status" /\ Finished \in Nat
  BY DEF Finished
<1> HIDE DEF n, path, g, op
<1>7. /\ dSent' \in Senders /\ dSent'.path = path /\ dSent'.to = dSent.to
      /\ dSent'.from = dSent.from /\ dSent'.pieces = n /\ dSent'.stage = g
  BY ONLY DeltaInv, <1>2, <1>3, <1>4, SentOn
<1>8. n = dSent.pieces
  BY DEF n
<1> QED BY ONLY DeltaInv, <1>1, <1>2, <1>3, <1>5, <1>6, <1>7, <1>8, StringKeeps

\* What an array does to the extractor: a frame of two patches, or of three.
LEMMA ArrayFacts ==
    ASSUME NEW t, NEW q, Keeps(dExt, q).curP # "thoughts"
    PROVE  Extract(dExt, [kind |-> "array", p |-> q, v |-> t]) = ExtractArray(Keeps(dExt, q), t)
<1> DEFINE m == [kind |-> "array", p |-> q, v |-> t]
<1>1. m.kind = "array" /\ m.p = q /\ m.v = t
  OBVIOUS
<1> HIDE DEF m
<1>2. Keeps(dExt, m.p).curP # "thoughts"
  BY <1>1
<1>3. Extract(dExt, m) = ExtractArray(Keeps(dExt, m.p), m.v)
  BY <1>1, <1>2 DEF Extract
<1> QED BY <1>1, <1>3 DEF m

LEMMA ArrayPath ==
    ASSUME NEW e \in Extractors, NEW a \in Patches, NEW b \in Patches, NEW c \in Patches
    PROVE  LET g1 == ExtractPatch(Nothing(e), a)
               g2 == ExtractPatch(g1, b)
           IN  /\ ExtractArray(e, <<a, b>>) = g2
               /\ ExtractArray(e, <<a, b, c>>) = ExtractPatch(g2, c)
<1> DEFINE two == <<a, b>>
           three == <<a, b, c>>
<1>1. ASSUME NEW t \in Seq(Patches), Len(t) \in {2, 3}, t[1] = a, t[2] = b
      PROVE  LET g2 == ExtractPatch(ExtractPatch(Nothing(e), a), b)
             IN  ExtractArray(e, t) = IF Len(t) = 2 THEN g2 ELSE ExtractPatch(g2, t[3])
  <2>1. PICK h : /\ h[0] = Nothing(e)
                 /\ \A k \in 1 .. Len(t) : h[k] = ExtractPatch(h[k - 1], t[k])
                 /\ ExtractArray(e, t) = h[Len(t)]
    BY PatchPath
  <2>2. 1 \in 1 .. Len(t) /\ 2 \in 1 .. Len(t) /\ (Len(t) = 3 => 3 \in 1 .. Len(t))
    BY <1>1
  <2>3. h[1] = ExtractPatch(h[1 - 1], a) /\ h[2] = ExtractPatch(h[2 - 1], b)
    BY <1>1, <2>1, <2>2
  <2>4. Len(t) = 3 => h[3] = ExtractPatch(h[3 - 1], t[3])
    BY <2>1, <2>2
  <2>5. h[1] = ExtractPatch(Nothing(e), a) /\ h[2] = ExtractPatch(h[1], b)
        /\ (Len(t) = 3 => h[3] = ExtractPatch(h[2], t[3]))
    BY <2>1, <2>3, <2>4
  <2> QED BY <1>1, <2>1, <2>5
<1>2. two \in Seq(Patches) /\ Len(two) = 2 /\ two[1] = a /\ two[2] = b
  OBVIOUS
<1>3. /\ three \in Seq(Patches) /\ Len(three) = 3
      /\ three[1] = a /\ three[2] = b /\ three[3] = c
  OBVIOUS
<1> HIDE DEF two, three
<1>4. ExtractArray(e, two) = ExtractPatch(ExtractPatch(Nothing(e), a), b)
  BY <1>1, <1>2
<1>5. ExtractArray(e, three) = ExtractPatch(ExtractPatch(ExtractPatch(Nothing(e), a), b), c)
  BY <1>1, <1>3
<1> QED BY <1>4, <1>5 DEF two, three

\* What the patches of a frame write: a text, then another text or an
\* overwritten one, then perhaps the status.
LEMMA FirstPatch ==
    ASSUME NEW r \in Extracted, r.out = <<>>,
           NEW a \in Patches, a.p \in Paths, a.o = "append", a.v # Finished
    PROVE  LET x == ExtractPatch(r, a)
           IN  /\ x \in Extracted
               /\ x.ext = [curP |-> a.p, recipient |-> r.ext.recipient]
               /\ x.out = IF Shown(r.ext.recipient, a.p) THEN <<a.v>> ELSE <<>>
               /\ x.final = TRUE => r.final = TRUE
<1> DEFINE x == ExtractPatch(r, a)
           p == a.p
           n == a.v
<1>1. p # "keep" /\ n \in Nat
  BY DEF Paths, Patches
<1>2. /\ x \in Extracted /\ x.ext = [curP |-> p, recipient |-> r.ext.recipient]
      /\ x.out = IF r.ext.recipient = "all" /\ p \in {"", "parts"} THEN Append(<<>>, n) ELSE <<>>
      /\ x.final = TRUE => r.final = TRUE
  BY <1>1, PatchFacts
<1> HIDE DEF x, p, n
<1>3. Append(<<>>, n) = <<n>>
  BY <1>1, OnePiece
<1>4. x.out = IF r.ext.recipient = "all" /\ p \in {"", "parts"} THEN <<n>> ELSE <<>>
  BY ONLY <1>2, <1>3
<1> QED BY ONLY <1>2, <1>4 DEF x, p, n, Shown

LEMMA NextPatch ==
    ASSUME NEW r \in Extracted, NEW p \in Paths, NEW n \in Nat, n # Finished,
           NEW b \in Patches, (b.p = "keep" /\ r.ext.curP = p) \/ b.p = p, b.v = n
    PROVE  LET x == ExtractPatch(r, b)
           IN  /\ x \in Extracted
               /\ x.ext = [curP |-> p, recipient |-> r.ext.recipient]
               /\ x.out = r.out \o IF Shown(r.ext.recipient, p) /\ b.o = "append" THEN <<n>> ELSE <<>>
               /\ x.final = TRUE => r.final = TRUE
<1> DEFINE x == ExtractPatch(r, b)
           old == r.out
           shown == r.ext.recipient = "all" /\ p \in {"", "parts"} /\ b.o = "append"
<1>1. (IF b.p = "keep" THEN r.ext.curP ELSE b.p) = p
  BY DEF Paths
<1>2. /\ x \in Extracted /\ x.ext = [curP |-> p, recipient |-> r.ext.recipient]
      /\ x.out = IF shown THEN Append(old, n) ELSE old
      /\ x.final = TRUE => r.final = TRUE
  BY <1>1, PatchFacts
<1>3. old \in Seq(Nat)
  BY DEF Extracted
<1> HIDE DEF x, old
<1>4. Append(old, n) = old \o <<n>> /\ old = old \o <<>>
  BY <1>3, OnePiece
<1>5. x.out = old \o IF shown THEN <<n>> ELSE <<>>
  <2> HIDE DEF shown
  <2>1. CASE shown
    BY ONLY <1>2, <1>4, <2>1
  <2>2. CASE ~shown
    BY ONLY <1>2, <1>4, <2>2
  <2> QED BY <2>1, <2>2
<1> QED BY ONLY <1>2, <1>5 DEF x, old, Shown

LEMMA LastPatch ==
    ASSUME NEW r \in Extracted, NEW c \in Patches, c.p = "status"
    PROVE  LET x == ExtractPatch(r, c)
           IN  /\ x \in Extracted
               /\ x.ext = [curP |-> "status", recipient |-> r.ext.recipient]
               /\ x.out = r.out
<1> DEFINE p == c.p
<1>1. p = "status" /\ p # "keep" /\ p \notin {"", "parts"}
  OBVIOUS
<1>2. /\ ExtractPatch(r, c) \in Extracted
      /\ ExtractPatch(r, c).ext = [curP |-> p, recipient |-> r.ext.recipient]
      /\ ExtractPatch(r, c).out = r.out
  BY ONLY r \in Extracted, c \in Patches, <1>1, PatchFacts DEF p
<1> QED BY ONLY <1>1, <1>2

\* A frame of several patches.
LEMMA PatchesKeep ==
    ASSUME DeltaInv,
           NEW a \in Patches, a.p \in Paths, a.o = "append", a.v = dSent.pieces + 1,
           NEW b \in Patches, b.v = dSent.pieces + 2, NEW second \in Paths,
           (b.p = "keep" /\ a.p = second) \/ b.p = second,
           NEW c \in Patches, c.p = "status",
           NEW root \in Paths, root # "thoughts", NEW q \in Named(root), NEW t,
           \/ t = <<a, b>> /\ dSent'.path = second
           \/ t = <<a, b, c>> /\ dSent'.path = "status" /\ dSent'.stage # "open",
           Receive([kind |-> "array", p |-> q, v |-> t], dSent.pieces + 2),
           dSent' \in Senders, dSent'.to = dSent.to, dSent'.from = dSent.from,
           dSent'.pieces = dSent.pieces + 2, dSent.stage = "open",
           dSeen' \cup dReplaced' =
               dSeen \cup dReplaced \cup Piece(a.v, Shown(dSent.to, a.p))
                     \cup Piece(b.v, Shown(dSent.to, second) /\ b.o = "append")
    PROVE  DeltaInv'
<1> DEFINE first == a.p
           n1 == a.v
           n2 == b.v
           m == [kind |-> "array", p |-> q, v |-> t]
           x == Extract(dExt, m)
           to == dSent.to
           one == Shown(to, first)
           two == Shown(to, second) /\ b.o = "append"
           u == IF one THEN <<n1>> ELSE <<>>
           w == IF two THEN <<n2>> ELSE <<>>
           S == Piece(n1, one) \cup Piece(n2, two)
           k == dSent.pieces
<1>1. k \in Nat /\ to \in Recipients
  BY DEF DeltaInv, Senders
<1>2. n1 \in Nat /\ n2 \in Nat /\ n1 # Finished /\ n2 # Finished /\ first \in Paths /\ n1 < n2
  BY <1>1 DEF Finished
<1>3. one \in BOOLEAN /\ two \in BOOLEAN
  BY DEF Shown
<1>4. /\ u \in Seq(Nat) /\ Rising(u) /\ ToSet(u) = Piece(n1, one)
      /\ w \in Seq(Nat) /\ Rising(w) /\ ToSet(w) = Piece(n2, two)
  <2> HIDE DEF one, two, n1, n2
  <2> QED BY ONLY <1>2, <1>3, PieceFacts
<1>5. u \o w \in Seq(Nat) /\ Rising(u \o w) /\ ToSet(u \o w) = S
  <2>1. \A i \in ToSet(u), j \in ToSet(w) : i < j
    BY <1>2, <1>4 DEF Piece
  <2> HIDE DEF u, w
  <2> QED BY ONLY <1>4, <2>1, Following
<1>6. S \in SUBSET (k + 1 .. k + 2) /\ k <= k + 2 /\ k + 2 \in Nat
  BY <1>1 DEF Piece
<1>7. ASSUME dFinal = FALSE
      PROVE  /\ x \in Extracted /\ x.out = u \o w
             /\ x.ext = [curP |-> dSent'.path, recipient |-> to]
             /\ x.final = TRUE => dSent'.stage # "open"
  <2> DEFINE e == Keeps(dExt, q)
             g0 == Nothing(e)
             g1 == ExtractPatch(g0, a)
             g2 == ExtractPatch(g1, b)
             g3 == ExtractPatch(g2, c)
  <2>1. e = [curP |-> root, recipient |-> to]
    BY ONLY DeltaInv, <1>7, root \in Paths, q \in Named(root), InStep
  <2> HIDE DEF e, to
  <2>2. e \in Extractors /\ e.curP = root /\ e.recipient = to
    BY ONLY <1>1, <2>1, root \in Paths DEF Extractors
  <2>3. x = ExtractArray(e, t)
    BY ONLY <2>2, root # "thoughts", ArrayFacts DEF e
  <2> HIDE DEF x
  <2>4. \/ x = g2 /\ dSent'.path = second
        \/ x = g3 /\ dSent'.path = "status" /\ dSent'.stage # "open"
    <3>1. ExtractArray(e, <<a, b>>) = g2 /\ ExtractArray(e, <<a, b, c>>) = g3
      BY ONLY <2>2, a \in Patches, b \in Patches, c \in Patches, ArrayPath
    <3> HIDE DEF g2, g3
    <3>2. CASE t = <<a, b>> /\ dSent'.path = second
      BY ONLY <2>3, <3>1, <3>2
    <3>3. CASE t = <<a, b, c>> /\ dSent'.path = "status" /\ dSent'.stage # "open"
      BY ONLY <2>3, <3>1, <3>3
    <3> QED BY <3>2, <3>3
  <2>5. g0 \in Extracted /\ g0.ext = e /\ g0.out = <<>> /\ g0.final = FALSE
    <3>1. g0 = [ext |-> e, out |-> <<>>, final |-> FALSE]
      BY DEF Nothing
    <3>2. <<>> \in Seq(Nat)
      BY OnePiece, 0 \in Nat
    <3> QED BY ONLY <2>2, <3>1, <3>2 DEF Extracted
  <2> HIDE DEF g0
  <2>6. /\ g1 \in Extracted /\ g1.ext = [curP |-> first, recipient |-> to] /\ g1.out = u
        /\ g1.final # TRUE
    <3>1. g0.ext.recipient = to
      BY <2>2, <2>5
    <3>2. a.v # Finished
      BY <1>2
    <3>3. /\ g1 \in Extracted /\ g1.ext = [curP |-> first, recipient |-> g0.ext.recipient]
          /\ g1.out = IF Shown(g0.ext.recipient, first) THEN <<n1>> ELSE <<>>
          /\ g1.final = TRUE => g0.final = TRUE
      BY ONLY <2>5, a \in Patches, a.p \in Paths, a.o = "append", <3>2, FirstPatch
    <3> HIDE DEF g1, to
    <3> QED BY ONLY <2>5, <3>1, <3>3 DEF to
  <2>7. g1.ext.curP = first /\ g1.ext.recipient = to
    BY ONLY <2>6
  <2> HIDE DEF g1, u
  <2>8. /\ g2 \in Extracted /\ g2.ext = [curP |-> second, recipient |-> to] /\ g2.out = u \o w
        /\ g2.final # TRUE
    <3>1. (b.p = "keep" /\ g1.ext.curP = second) \/ b.p = second
      BY <2>7
    <3> HIDE DEF g1
    <3>2. /\ g2 \in Extracted /\ g2.ext = [curP |-> second, recipient |-> g1.ext.recipient]
          /\ g2.out = g1.out \o IF Shown(g1.ext.recipient, second) /\ b.o = "append" THEN <<n2>> ELSE <<>>
          /\ g2.final = TRUE => g1.final = TRUE
      <4>1. b.v = n2 /\ n2 # Finished /\ n2 \in Nat
        BY <1>2
      <4> HIDE DEF n2
      <4>2. g1 \in Extracted
        BY <2>6
      <4> QED BY ONLY <4>2, <3>1, <4>1, b \in Patches, second \in Paths, NextPatch, ZenonT(60)
    <3> HIDE DEF g2
    <3> QED BY ONLY <2>6, <2>7, <3>2 DEF to, w
  <2>9. g2.ext.recipient = to
    BY ONLY <2>8
  <2> HIDE DEF g2, w
  <2>10. g3 \in Extracted /\ g3.ext = [curP |-> "status", recipient |-> to] /\ g3.out = u \o w
    BY ONLY <2>8, <2>9, c \in Patches, c.p = "status", LastPatch DEF g3
  <2> HIDE DEF g3
  <2> QED BY ONLY <2>4, <2>8, <2>10
<1> HIDE DEF u, w, x
<1>8. dFinal = FALSE =>
          /\ x.ext \in Extractors /\ x.final \in BOOLEAN
          /\ x.out \in Seq(Nat) /\ Rising(x.out) /\ ToSet(x.out) = S
          /\ x.final = FALSE => x.ext = [curP |-> dSent'.path, recipient |-> dSent'.to]
          /\ x.final = TRUE => dSent'.stage # "open"
  BY <1>5, <1>7 DEF Extracted
<1>9. dSeen' \cup dReplaced' = dSeen \cup dReplaced \cup S
  OBVIOUS
<1>10. Receive(m, k + 2) /\ dSent'.pieces = k + 2
  OBVIOUS
<1> HIDE DEF m, S
<1> QED BY ONLY DeltaInv, <1>6, <1>8, <1>9, <1>10, dSent' \in Senders, dSent'.from = dSent.from,
                dSent.stage = "open", Received DEF x, k

LEMMA TwoAndOne ==
    ASSUME NEW a, NEW b, NEW c
    PROVE  <<a, b>> \o <<>> = <<a, b>> /\ <<a, b>> \o <<c>> = <<a, b, c>>
<1> DEFINE S == {a, b, c}
           s == <<a, b>>
           t == <<a, b, c>>
<1>1. s \in Seq(S) /\ t \in Seq(S) /\ Len(s) = 2 /\ Len(t) = 3
  OBVIOUS
<1>2. s[1] = a /\ s[2] = b /\ t[1] = a /\ t[2] = b /\ t[3] = c
  OBVIOUS
<1>3. c \in S
  OBVIOUS
<1> HIDE DEF S, s, t
<1>4. s \o <<>> = s
  BY <1>1
<1> DEFINE u == Append(s, c)
<1>5. u \in Seq(S) /\ Len(u) = 3 /\ u[1] = s[1] /\ u[2] = s[2] /\ u[3] = c /\ u = s \o <<c>>
  <2>1. /\ u \in Seq(S) /\ Len(u) = Len(s) + 1 /\ u[Len(s) + 1] = c
        /\ \A i \in 1 .. Len(s) : u[i] = s[i]
    <3>1. s \in Seq(S)
      BY <1>1
    <3> HIDE DEF u
    <3>2. u = Append(s, c)
      BY DEF u
    <3> QED BY ONLY <1>3, <3>1, <3>2, AppendProperties
  <2>2. u = s \o <<c>>
    BY ONLY <1>1, <1>3, AppendIsConcat
  <2> HIDE DEF u
  <2>3. 1 \in 1 .. Len(s) /\ 2 \in 1 .. Len(s) /\ Len(s) + 1 = 3
    BY <1>1
  <2> QED BY ONLY <2>1, <2>2, <2>3
<1> HIDE DEF u
<1>6. u = t
  BY <1>1, <1>2, <1>5
<1> QED BY <1>4, <1>5, <1>6 DEF s, t

LEMMA ArrayKeeps ==
    ASSUME DeltaInv, NEW first \in Paths \ {"status"}, NEW second \in Paths \ {"status"},
           NEW op \in {"append", "replace"}, NEW finished \in BOOLEAN,
           SendArray(first, second, op, finished)
    PROVE  DeltaInv'
<1> DEFINE n1 == Next1
           n2 == Next1 + 1
           a == [p |-> first, o |-> "append", v |-> n1]
           b == [p |-> IF second = first THEN "keep" ELSE second, o |-> op, v |-> n2]
           c == [p |-> "status", o |-> "replace", v |-> Finished]
           t == <<a, b>> \o IF finished THEN <<c>> ELSE <<>>
           last == IF finished THEN "status" ELSE second
           g == Stage(finished)
           root == ""
<1>1. PICK q \in Named(root) : Receive([kind |-> "array", p |-> q, v |-> t], n2)
  BY DEF SendArray
<1>2. dSent \in Senders /\ dSent.pieces \in Nat /\ dSent.stage = "open"
  BY DEF DeltaInv, Senders, SendArray
<1>3. /\ dSent' = [dSent EXCEPT !.path = last, !.stage = g, !.pieces = n2]
      /\ dSeen' \cup dReplaced' =
           dSeen \cup dReplaced \cup Piece(n1, Shown(dSent.to, first))
                 \cup Piece(n2, Shown(dSent.to, second) /\ op = "append")
  BY DEF SendArray
<1>4. /\ n1 = dSent.pieces + 1 /\ n2 = dSent.pieces + 2
      /\ n1 \in Nat /\ n2 \in Nat /\ Finished \in Nat
  <2> DEFINE k == dSent.pieces
  <2>1. k \in Nat
    BY <1>2
  <2> HIDE DEF k
  <2>2. k + 1 \in Nat /\ k + 1 + 1 = k + 2 /\ k + 2 \in Nat
    BY ONLY <2>1, TwoMore
  <2>3. 0 \in Nat
    OBVIOUS
  <2> QED BY ONLY <2>2, <2>3 DEF Next1, Finished, k
<1> HIDE DEF n1, n2
<1>5. /\ a.p = first /\ a.o = "append" /\ a.v = n1
      /\ ((b.p = "keep" /\ first = second) \/ b.p = second)
      /\ b.v = n2 /\ b.o = op /\ c.p = "status"
  OBVIOUS
<1>6. a \in Patches /\ b \in Patches /\ c \in Patches
  BY ONLY <1>4, first \in Paths \ {"status"}, second \in Paths \ {"status"},
          op \in {"append", "replace"} DEF Patches, Paths
<1>7. /\ last \in Paths /\ root \in Paths /\ root # "thoughts"
      /\ g \in {"open", "finished", "over"} /\ (finished => g # "open")
  BY DEF Paths, Stage
<1> HIDE DEF a, b, c, g
<1>8. (t = <<a, b>> /\ last = second) \/ (t = <<a, b, c>> /\ last = "status" /\ g # "open")
  <2>1. <<a, b>> \o <<>> = <<a, b>> /\ <<a, b>> \o <<c>> = <<a, b, c>>
    BY ONLY TwoAndOne
  <2>2. CASE finished
    BY <1>7, <2>1, <2>2
  <2>3. CASE ~finished
    BY <2>1, <2>3
  <2> QED BY <2>2, <2>3
<1> HIDE DEF t, last, root
<1>9. /\ dSent' \in Senders /\ dSent'.path = last /\ dSent'.to = dSent.to
      /\ dSent'.from = dSent.from /\ dSent'.pieces = n2 /\ dSent'.stage = g
  BY ONLY DeltaInv, <1>3, <1>4, <1>7, SentOn
<1>10. /\ a.p \in Paths /\ a.v = dSent.pieces + 1 /\ b.v = dSent.pieces + 2
       /\ second \in Paths /\ ((b.p = "keep" /\ a.p = second) \/ b.p = second)
  BY <1>4, <1>5
<1>11. dSeen' \cup dReplaced' =
           dSeen \cup dReplaced \cup Piece(a.v, Shown(dSent.to, a.p))
                 \cup Piece(b.v, Shown(dSent.to, second) /\ b.o = "append")
  BY ONLY <1>3, <1>5
<1>12. \/ t = <<a, b>> /\ dSent'.path = second
       \/ t = <<a, b, c>> /\ dSent'.path = "status" /\ dSent'.stage # "open"
  BY ONLY <1>8, <1>9
<1>13. /\ Receive([kind |-> "array", p |-> q, v |-> t], dSent.pieces + 2)
       /\ dSent'.pieces = dSent.pieces + 2
  BY ONLY <1>1, <1>4, <1>9
<1> QED BY ONLY DeltaInv, q \in Named(root), <1>2, <1>5, <1>6, <1>7, <1>9, <1>10, <1>11, <1>12, <1>13,
                PatchesKeep

\* Heartbeats, and the end of the stream.
LEMMA OtherKeeps ==
    ASSUME DeltaInv, NEW kind \in {"done", "junk"}, SendOther(kind)
    PROVE  DeltaInv'
<1> DEFINE f == [kind |-> kind, p |-> "keep"]
           x == Extract(dExt, f)
           n == dSent.pieces
           g == IF kind = "done" THEN "over" ELSE dSent.stage
           path == dSent.path
           S == {}
<1>1. /\ Receive(f, n) /\ dSent' = [dSent EXCEPT !.stage = g]
      /\ dSeen' \cup dReplaced' = dSeen \cup dReplaced \cup S
  BY DEF SendOther
<1>2. /\ dSent \in Senders /\ n \in Nat /\ path \in Paths
      /\ g \in {"open", "finished", "over"}
      /\ dSent.stage \in {"open", "finished", "over"}
      /\ g = dSent.stage \/ g # "open"
  BY DEF DeltaInv, Senders
<1>3. dSent' = [dSent EXCEPT !.path = path, !.stage = g, !.pieces = n]
  BY <1>1, <1>2 DEF Senders
<1>4. ASSUME dFinal = FALSE
      PROVE  /\ x.ext = [curP |-> path, recipient |-> dSent.to] /\ x.ext \in Extractors
             /\ x.out = <<>> /\ x.final \in BOOLEAN /\ (x.final = TRUE => g # "open")
  <2>1. dExt \in Extractors /\ Keeps(dExt, "keep") = dExt
    BY DEF DeltaInv, Keeps, Extractors
  <2>2. x.ext = dExt /\ x.out = <<>> /\ x.final \in BOOLEAN /\ (x.final = TRUE => kind = "done")
    BY <2>1 DEF Extract, Ends, Nothing
  <2>3. dExt = [curP |-> path, recipient |-> dSent.to]
    BY ONLY DeltaInv, <1>4, InStep
  <2> HIDE DEF x
  <2> QED BY <2>1, <2>2, <2>3
<1>5. <<>> \in Seq(Nat) /\ Rising(<<>>) /\ ToSet(<<>>) = {}
  BY DEF Rising, ToSet
<1> HIDE DEF f, x, g, n, path
<1>6. /\ dSent' \in Senders /\ dSent'.path = path /\ dSent'.to = dSent.to
      /\ dSent'.from = dSent.from /\ dSent'.pieces = n /\ dSent'.stage = g
  BY ONLY DeltaInv, <1>2, <1>3, SentOn
<1>7. dFinal = FALSE =>
          /\ x.ext \in Extractors /\ x.final \in BOOLEAN
          /\ x.out \in Seq(Nat) /\ Rising(x.out) /\ ToSet(x.out) = S
          /\ x.final = FALSE => x.ext = [curP |-> dSent'.path, recipient |-> dSent'.to]
          /\ x.final = TRUE => dSent'.stage # "open"
  BY <1>4, <1>5, <1>6
<1>8. S \in SUBSET (dSent.pieces + 1 .. n) /\ n = dSent.pieces /\ dSent.pieces <= n
  BY <1>2 DEF n
<1>9. \/ dSent'.from = dSent.from /\ dSent.stage = "open"
      \/ /\ dSent'.from = dSent.from /\ n = dSent.pieces
         /\ dSent'.stage = dSent.stage \/ dSent'.stage # "open"
  BY <1>2, <1>6, <1>8
<1> HIDE DEF S
<1> QED BY ONLY DeltaInv, <1>1, <1>2, <1>6, <1>7, <1>8, <1>9, Received DEF x

\* Every frame keeps the text exact.
LEMMA DeltaStep == DeltaInv /\ [DNext]_dVars => DeltaInv'
<1> SUFFICES ASSUME DeltaInv, [DNext]_dVars PROVE DeltaInv'
  OBVIOUS
<1>1. CASE UNCHANGED dVars
  BY <1>1 DEF dVars, DeltaInv, TextExact
<1>2. CASE DNext
  BY <1>2, MessageKeeps, TextKeeps, StatusKeeps, ArrayKeeps, OtherKeeps DEF DNext, Recipients
<1> QED BY <1>1, <1>2

LEMMA DeltaStart == ASSUME DInit PROVE DeltaInv
<1> DEFINE root == ""
           to == "all"
           open == "open"
<1>1. /\ dSent = [path |-> root, to |-> to, from |-> 0, stage |-> open, pieces |-> 0]
      /\ dExt = [curP |-> root, recipient |-> to]
      /\ dSeen = {} /\ dReplaced = {} /\ dText = <<>> /\ dFinal = FALSE /\ dRead = 0
  BY DEF DInit
<1>2. root \in Paths /\ to \in Recipients /\ open \in {"open", "finished", "over"}
  BY DEF Paths, Recipients
<1>3. <<>> \in Seq(Nat) /\ ToSet(<<>>) = {} /\ \A i, j \in DOMAIN <<>> : i < j => <<>>[i] < <<>>[j]
  BY DEF ToSet
<1> HIDE DEF root, to, open
<1>4. /\ dSent \in Senders /\ dSent.from = 0 /\ dSent.pieces = 0
      /\ dSent.path = root /\ dSent.to = to
  BY ONLY <1>1, <1>2 DEF Senders
<1>5. dExt \in Extractors
  BY ONLY <1>1, <1>2 DEF Extractors
<1>6. TextExact
  BY ONLY <1>1, <1>3, <1>4 DEF TextExact
<1>7. /\ dSent.from <= dSent.pieces /\ dSeen \cup dReplaced \subseteq 1 .. dSent.pieces
      /\ dRead \in 0 .. dSent.pieces
  BY ONLY <1>1, <1>4
<1>8. dExt = [curP |-> dSent.path, recipient |-> dSent.to] /\ dRead = dSent.pieces
  BY ONLY <1>1, <1>4
<1>9. dText \in Seq(Nat) /\ dFinal = FALSE
  BY ONLY <1>1, <1>3
<1> QED BY ONLY <1>4, <1>5, <1>6, <1>7, <1>8, <1>9 DEF DeltaInv

\* The client is shown, in order, exactly what was appended for the user in the
\* frames the handler read, and what a frame of its own sent to replace it,
\* however the sender leaves paths and recipients out and packs patches
\* together; and the text of a message is lost only if it began after the
\* finished status of an earlier one was taken for the end.  For every number
\* of pieces (deltaExtractor.Extract and the loops of streamOpenAI and
\* collectOpenAI).
THEOREM TextStaysExact == DSpec => []TextExact
<1>1. DeltaInv => TextExact
  BY DEF DeltaInv
<1> QED BY <1>1, DeltaStart, DeltaStep, PTL DEF DSpec

-----------------------------------------------------------------------------
(* The answer of an external channel.                                      *)

AnsChunks == [delta : Seq(Nat), finish : {"", "length", "stop"}, usage : Reports, err : BOOLEAN]

AnsSents == [text : Seq(Nat), usage : Reports, reason : FinishReasons, end : {"", "end", "broken"}, events : Nat]
AnsParsers == [pc : {"none", "read", "last", "closed"}, out : Seq(AnsChunks), usage : Reports,
               sawText : BOOLEAN, finish : {"length", "stop"}]
AnsTakers == [pc : {"none", "take", "done"}, text : Seq(Nat), finish : {"", "length", "stop"}, tokens : Nat]

AnswerShape ==
    /\ aSent \in AnsSents /\ aParser \in AnsParsers
    /\ aChan \in Seq(AnsChunks) /\ aTaker \in AnsTakers
    /\ aCall = "none" => aParser.pc = "none" /\ aTaker.pc = "none"
    /\ aParser.pc \in {"none", "closed"} => aParser.out = <<>>

NoErr(s) == \A k \in 1 .. Len(s) : s[k].err = FALSE

\* Behind an error comes one chunk at most, with the rest that is to be pushed.
ErrLate(s, rest) == \A k \in 1 .. Len(s) : s[k].err = TRUE => Len(s) - k + rest <= 1

\* Errors come from the end of the body; a handler that has left at one has
\* left room for what is behind it.
ErrorsLast ==
    /\ aParser.pc \in {"none", "read"} => NoErr(aChan) /\ NoErr(aParser.out) /\ aTaker.pc # "done"
    /\ aTaker.pc # "done" => ErrLate(aChan, Len(aParser.out)) /\ ErrLate(aParser.out, 0)
    /\ aTaker.pc = "done" /\ aParser.pc # "closed" => Len(aChan) + Len(aParser.out) <= 1

\* The calls of ImageGenerate: got has fewer images than were asked for while
\* a call is under way, and a preview that follows a final image says so.
Pictures == {"", "partial", "final"}
Delivered == [img : Pictures, late : BOOLEAN]
ImageCalls == [pc : {"none", "call", "unsupported", "ok", "error"}, wire : ImageWires, n : Nat, refs : BOOLEAN,
               got : Seq(Delivered), best : Pictures, final : BOOLEAN, late : BOOLEAN, events : Nat]

\* An image made for an edit is final, or a late preview.
FinalOrLate(got) == \A k \in 1 .. Len(got) : got[k].img = "final" \/ got[k].late = TRUE

ImageSound(q) ==
    /\ q \in ImageCalls
    /\ q.pc = "call" => /\ q.refs = TRUE => q.wire = "responses"
                        /\ Len(q.got) < q.n
                        /\ q.best = "partial" /\ q.final = TRUE => q.late = TRUE
    /\ q.refs = TRUE => FinalOrLate(q.got)
    /\ q.pc = "ok" /\ q.wire = "responses" => Len(q.got) = q.n

ImageShape == ImageSound(aImg)

AnswerInv == AnswerShape /\ ErrorsLast /\ ImageShape

\* Chunks one after another.
LEMMA ChunksJoin ==
    ASSUME NEW s \in Seq(AnsChunks), NEW t \in Seq(AnsChunks)
    PROVE  /\ s \o t \in Seq(AnsChunks) /\ Len(s \o t) = Len(s) + Len(t)
           /\ Len(s) \in Nat /\ Len(t) \in Nat
           /\ NoErr(s) /\ NoErr(t) => NoErr(s \o t)
           /\ NoErr(s) /\ ErrLate(t, 0) => ErrLate(s \o t, 0)
           /\ ErrLate(s, Len(t)) /\ ErrLate(t, 0) => ErrLate(s \o t, 0)
<1>1. /\ s \o t \in Seq(AnsChunks) /\ Len(s \o t) = Len(s) + Len(t)
      /\ Len(s) \in Nat /\ Len(t) \in Nat
  OBVIOUS
<1>2. \A k \in 1 .. Len(s \o t) :
        \/ k \in 1 .. Len(s) /\ (s \o t)[k] = s[k]
        \/ k - Len(s) \in 1 .. Len(t) /\ (s \o t)[k] = t[k - Len(s)]
  OBVIOUS
<1> DEFINE st == s \o t
<1> HIDE DEF st
<1>0. /\ st \in Seq(AnsChunks) /\ Len(st) = Len(s) + Len(t) /\ Len(s) \in Nat /\ Len(t) \in Nat
      /\ \A k \in 1 .. Len(st) :
           \/ k \in 1 .. Len(s) /\ st[k] = s[k]
           \/ k - Len(s) \in 1 .. Len(t) /\ st[k] = t[k - Len(s)]
  BY <1>1, <1>2 DEF st
<1>3. NoErr(s) /\ NoErr(t) => NoErr(st)
  BY <1>0 DEF NoErr
<1>4. ErrLate(s, Len(t)) /\ ErrLate(t, 0) => ErrLate(st, 0)
  <2> SUFFICES ASSUME ErrLate(s, Len(t)), ErrLate(t, 0), NEW k \in 1 .. Len(st), st[k].err = TRUE
               PROVE  Len(st) - k + 0 <= 1
    BY DEF ErrLate
  <2>1. CASE k \in 1 .. Len(s) /\ st[k] = s[k]
    <3>1. Len(s) - k + Len(t) <= 1
      BY <2>1 DEF ErrLate
    <3> QED BY <1>0, <3>1
  <2>2. CASE k - Len(s) \in 1 .. Len(t) /\ st[k] = t[k - Len(s)]
    <3>1. Len(t) - (k - Len(s)) + 0 <= 1
      BY <2>2 DEF ErrLate
    <3> QED BY <1>0, <3>1
  <2> QED BY <1>0, <2>1, <2>2
<1>5. NoErr(s) => ErrLate(s, Len(t))
  BY DEF NoErr, ErrLate
<1> QED BY <1>0, <1>3, <1>4, <1>5 DEF st

LEMMA OneErrLate == \A t \in Seq(AnsChunks) : Len(t) = 0 \/ Len(t) = 1 => ErrLate(t, 0)
BY DEF ErrLate

\* One chunk, or none.
LEMMA ChunkIf ==
    ASSUME NEW x \in AnsChunks, NEW c \in BOOLEAN
    PROVE  /\ <<x>> \in Seq(AnsChunks) /\ Len(<<x>>) = 1
           /\ If(c, <<x>>) \in Seq(AnsChunks) /\ Len(If(c, <<x>>)) <= 1
           /\ x.err = FALSE => NoErr(<<x>>) /\ NoErr(If(c, <<x>>))
BY DEF If, NoErr

LEMMA OneChunk == \A x \in AnsChunks : <<x>> \in Seq(AnsChunks) /\ Len(<<x>>) = 1
OBVIOUS

LEMMA ChunkTypes ==
    /\ \A d \in Seq(Nat), r \in {"", "length", "stop"}, u \in Reports, b \in BOOLEAN :
          Chunk(d, r, u, b) \in AnsChunks /\ Chunk(d, r, u, b).err = b
    /\ <<>> \in Seq(Nat) /\ <<>> \in Reports
    /\ ErrChunk \in AnsChunks
    /\ \A d \in Seq(Nat) : TextChunk(d) \in AnsChunks /\ TextChunk(d).err = FALSE
    /\ \A u \in Reports : UsageChunk(u) \in AnsChunks /\ UsageChunk(u).err = FALSE
<1>1. /\ \A d \in Seq(Nat), r \in {"", "length", "stop"}, u \in Reports, b \in BOOLEAN :
            Chunk(d, r, u, b) \in AnsChunks /\ Chunk(d, r, u, b).err = b
      /\ <<>> \in Seq(Nat) /\ <<>> \in Reports
  BY DEF Chunk, AnsChunks, Reports
<1> QED BY <1>1 DEF ErrChunk, TextChunk, UsageChunk

\* No event of the body is an error.
LEMMA EventChunks ==
    ASSUME NEW w, NEW e, e.text \in Seq(Nat), e.reason \in FinishReasons, e.usage \in Reports, NEW p
    PROVE  Chunks(w, e, p) \in Seq(AnsChunks) /\ NoErr(Chunks(w, e, p))
<1> DEFINE x1 == Chunk(e.text, e.reason, <<>>, FALSE)
           x2 == Chunk(<<>>, e.reason, <<>>, FALSE)
           x3 == Chunk(<<>>, "stop", <<>>, FALSE)
           x4 == TextChunk(e.text)
           x5 == UsageChunk(e.usage)
<1>1. /\ x1 \in AnsChunks /\ x2 \in AnsChunks /\ x3 \in AnsChunks /\ x4 \in AnsChunks /\ x5 \in AnsChunks
      /\ x1.err = FALSE /\ x2.err = FALSE /\ x3.err = FALSE /\ x4.err = FALSE /\ x5.err = FALSE
  <2>1. e.reason \in {"", "length", "stop"} /\ FALSE \in BOOLEAN
    BY DEF FinishReasons
  <2>2. x1 \in AnsChunks /\ x1.err = FALSE
    BY <2>1, ChunkTypes
  <2>3. x2 \in AnsChunks /\ x2.err = FALSE
    BY <2>1, ChunkTypes
  <2>4. x3 \in AnsChunks /\ x3.err = FALSE
    BY <2>1, ChunkTypes
  <2>5. x4 \in AnsChunks /\ x4.err = FALSE
    BY ChunkTypes
  <2>6. x5 \in AnsChunks /\ x5.err = FALSE
    BY ChunkTypes
  <2> QED BY <2>2, <2>3, <2>4, <2>5, <2>6
<1> HIDE DEF x1, x2, x3, x4, x5
<1>2. OpenAIChunks(e) \in Seq(AnsChunks) /\ NoErr(OpenAIChunks(e))
  <2>1. OpenAIChunks(e) = If(~NoChoices(e), <<x1>>)
    BY DEF OpenAIChunks, x1
  <2> QED BY <1>1, <2>1, ChunkIf DEF NoChoices
<1>3. ResponsesChunks(e, p) \in Seq(AnsChunks) /\ NoErr(ResponsesChunks(e, p))
  <2>1. ResponsesChunks(e, p) = If(e.text # <<>> /\ (e.type = "completed" => ~p.sawText), <<x4>>)
    BY DEF ResponsesChunks, x4
  <2> QED BY <1>1, <2>1, ChunkIf
<1>4. GeminiChunks(e) \in Seq(AnsChunks) /\ NoErr(GeminiChunks(e))
  <2>1. GeminiChunks(e) = If(e.text # <<>>, <<x4>>) \o If(e.reason # "", <<x2>>)
    BY DEF GeminiChunks, x2, x4
  <2>2. /\ If(e.text # <<>>, <<x4>>) \in Seq(AnsChunks) /\ NoErr(If(e.text # <<>>, <<x4>>))
        /\ If(e.reason # "", <<x2>>) \in Seq(AnsChunks) /\ NoErr(If(e.reason # "", <<x2>>))
    BY <1>1, ChunkIf
  <2> QED BY <2>1, <2>2, ChunksJoin
<1>5. DocumentChunks(e) \in Seq(AnsChunks) /\ NoErr(DocumentChunks(e))
  <2>1. DocumentChunks(e) = <<x1>> \o If(e.usage # <<>>, <<x5>>)
    BY DEF DocumentChunks, x1, x5
  <2>2. /\ <<x1>> \in Seq(AnsChunks) /\ NoErr(<<x1>>)
        /\ If(e.usage # <<>>, <<x5>>) \in Seq(AnsChunks) /\ NoErr(If(e.usage # <<>>, <<x5>>))
    BY <1>1, ChunkIf
  <2> QED BY <2>1, <2>2, ChunksJoin
<1>6. <<x3>> \in Seq(AnsChunks) /\ NoErr(<<x3>>)
  BY <1>1, ChunkIf
<1>7. Chunks(w, e, p) \in {OpenAIChunks(e), ResponsesChunks(e, p), GeminiChunks(e), DocumentChunks(e), <<x3>>}
  BY DEF Chunks, x3
<1> QED BY <1>2, <1>3, <1>4, <1>5, <1>6, <1>7

\* At the end an error is followed by a usage report at most.
LEMMA EndChunks ==
    ASSUME NEW w, NEW p, p.usage \in Reports, p.finish \in {"length", "stop"}, NEW end
    PROVE  LastChunks(w, p, end) \in Seq(AnsChunks) /\ ErrLate(LastChunks(w, p, end), 0)
<1> DEFINE u == If(p.usage # <<>>, <<UsageChunk(p.usage)>>)
           b == If(end = "broken", <<ErrChunk>>)
           f == <<Chunk(<<>>, p.finish, p.usage, FALSE)>>
           x == <<ErrChunk>>
<1>1. /\ u \in Seq(AnsChunks) /\ NoErr(u) /\ Len(u) <= 1
      /\ b \in Seq(AnsChunks) /\ (Len(b) = 0 \/ Len(b) = 1)
      /\ f \in Seq(AnsChunks) /\ Len(f) = 1 /\ x \in Seq(AnsChunks) /\ Len(x) = 1
  <2>1. ErrChunk \in AnsChunks /\ UsageChunk(p.usage) \in AnsChunks /\ UsageChunk(p.usage).err = FALSE
    BY ChunkTypes
  <2>2. Chunk(<<>>, p.finish, p.usage, FALSE) \in AnsChunks
    BY ChunkTypes
  <2>3. u \in Seq(AnsChunks) /\ NoErr(u) /\ Len(u) <= 1
    BY <2>1, ChunkIf
  <2>4. b \in Seq(AnsChunks) /\ (Len(b) = 0 \/ Len(b) = 1)
    BY <2>1 DEF If
  <2>5. f \in Seq(AnsChunks) /\ Len(f) = 1
    BY <2>2, OneChunk
  <2>6. x \in Seq(AnsChunks) /\ Len(x) = 1
    BY <2>1, OneChunk
  <2> HIDE DEF u, b, f, x
  <2> QED BY <2>3, <2>4, <2>5, <2>6
<1>2. LastChunks(w, p, end) \in {u \o b, b \o u, x, f, b}
  BY DEF LastChunks
<1> HIDE DEF u, b, f, x
<1>3. ErrLate(b, 0) /\ ErrLate(f, 0) /\ ErrLate(x, 0)
  BY <1>1, OneErrLate
<1>4. u \o b \in Seq(AnsChunks) /\ ErrLate(u \o b, 0)
  BY <1>1, <1>3, ChunksJoin
<1>5. b \o u \in Seq(AnsChunks) /\ ErrLate(b \o u, 0)
  <2>1. ErrLate(b, Len(u)) /\ ErrLate(u, 0)
    <3>1. Len(u) \in Nat /\ Len(b) \in Nat
      BY <1>1
    <3>2. ErrLate(u, 0)
      BY <1>1 DEF ErrLate, NoErr
    <3>3. \A k \in 1 .. Len(b) : Len(b) - k + Len(u) <= 1
      <4> DEFINE m == Len(b)
                 n == Len(u)
      <4>1. m \in {0, 1} /\ n \in Nat /\ n <= 1
        BY <1>1, <3>1
      <4> HIDE DEF m, n
      <4>2. \A k \in 1 .. m : m - k + n <= 1
        BY <4>1
      <4> QED BY <4>2 DEF m, n
    <3> QED BY <3>2, <3>3 DEF ErrLate
  <2> QED BY <1>1, <2>1, ChunksJoin
<1> QED BY <1>1, <1>2, <1>3, <1>4, <1>5

\* What a push and a take do to the chunks.
LEMMA PushFacts ==
    ASSUME NEW c \in Seq(AnsChunks), NEW o \in Seq(AnsChunks), o # <<>>
    PROVE  /\ Append(c, Head(o)) \in Seq(AnsChunks) /\ Tail(o) \in Seq(AnsChunks)
           /\ Len(Append(c, Head(o))) + Len(Tail(o)) = Len(c) + Len(o)
           /\ NoErr(c) /\ NoErr(o) => NoErr(Append(c, Head(o))) /\ NoErr(Tail(o))
           /\ ErrLate(o, 0) => ErrLate(Tail(o), 0)
           /\ ErrLate(c, Len(o)) /\ ErrLate(o, 0) => ErrLate(Append(c, Head(o)), Len(Tail(o)))
<1> DEFINE d == Append(c, Head(o))
           p == Tail(o)
           m == Len(c)
           n == Len(o)
<1>1. /\ m \in Nat /\ n \in Nat /\ n >= 1
      /\ d \in Seq(AnsChunks) /\ Len(d) = m + 1
      /\ p \in Seq(AnsChunks) /\ Len(p) = n - 1
  OBVIOUS
<1>2. \A k \in 1 .. n - 1 : p[k] = o[k + 1]
  OBVIOUS
<1>3. (\A k \in 1 .. m : d[k] = c[k]) /\ d[m + 1] = o[1]
  OBVIOUS
<1> HIDE DEF d, p
<1>4. ASSUME NoErr(c), NoErr(o) PROVE NoErr(d) /\ NoErr(p)
  <2>1. ASSUME NEW k \in 1 .. m + 1 PROVE d[k].err = FALSE
    <3>1. CASE k \in 1 .. m
      BY <1>3, <1>4, <3>1 DEF NoErr
    <3>2. CASE k = m + 1
      BY <1>1, <1>3, <1>4, <3>2 DEF NoErr
    <3>3. k \in 1 .. m \/ k = m + 1
      BY <1>1
    <3> QED BY <3>1, <3>2, <3>3
  <2>2. ASSUME NEW k \in 1 .. n - 1 PROVE p[k].err = FALSE
    <3>1. k + 1 \in 1 .. n /\ p[k] = o[k + 1]
      BY <1>1, <1>2, <2>2
    <3> QED BY <1>4, <3>1 DEF NoErr
  <2> QED BY <1>1, <2>1, <2>2 DEF NoErr
<1>5. ASSUME ErrLate(o, 0) PROVE ErrLate(p, 0)
  <2> SUFFICES ASSUME NEW k \in 1 .. n - 1, p[k].err = TRUE PROVE n - 1 - k + 0 <= 1
    BY <1>1 DEF ErrLate
  <2>1. k + 1 \in 1 .. n /\ o[k + 1].err = TRUE
    BY <1>1, <1>2
  <2>2. n - (k + 1) + 0 <= 1
    BY <1>5, <2>1 DEF ErrLate
  <2> QED BY <1>1, <2>2
<1>6. ASSUME ErrLate(c, n), ErrLate(o, 0) PROVE ErrLate(d, Len(p))
  <2> SUFFICES ASSUME NEW k \in 1 .. m + 1, d[k].err = TRUE PROVE (m + 1) - k + (n - 1) <= 1
    BY <1>1 DEF ErrLate
  <2>1. CASE k \in 1 .. m
    <3>1. m - k + n <= 1
      BY <1>3, <1>6, <2>1 DEF ErrLate
    <3> QED BY <1>1, <2>1, <3>1
  <2>2. CASE k = m + 1
    <3>1. n - 1 + 0 <= 1
      BY <1>1, <1>3, <1>6, <2>2 DEF ErrLate
    <3> QED BY <1>1, <2>2, <3>1
  <2> QED BY <1>1, <2>1, <2>2
<1>7. Len(d) + Len(p) = Len(c) + Len(o)
  BY <1>1
<1> QED BY <1>1, <1>4, <1>5, <1>6, <1>7 DEF d, p

LEMMA TakeFacts ==
    ASSUME NEW c \in Seq(AnsChunks), c # <<>>, NEW rest \in Nat
    PROVE  /\ Head(c) \in AnsChunks /\ Tail(c) \in Seq(AnsChunks)
           /\ NoErr(c) => NoErr(Tail(c)) /\ Head(c).err = FALSE
           /\ ErrLate(c, rest) => ErrLate(Tail(c), rest)
           /\ ErrLate(c, rest) /\ Head(c).err = TRUE => Len(Tail(c)) + rest <= 1
<1> DEFINE p == Tail(c)
           m == Len(c)
           x == Head(c)
<1>1. /\ m \in Nat /\ m >= 1 /\ x \in AnsChunks /\ x = c[1]
      /\ p \in Seq(AnsChunks) /\ Len(p) = m - 1
  OBVIOUS
<1>2. \A k \in 1 .. m - 1 : p[k] = c[k + 1]
  OBVIOUS
<1> HIDE DEF p, x
<1>3. NoErr(c) => NoErr(p) /\ x.err = FALSE
  BY <1>1, <1>2 DEF NoErr
<1>4. ASSUME ErrLate(c, rest) PROVE ErrLate(p, rest)
  <2> SUFFICES ASSUME NEW k \in 1 .. m - 1, p[k].err = TRUE PROVE m - 1 - k + rest <= 1
    BY <1>1 DEF ErrLate
  <2>1. k + 1 \in 1 .. m /\ c[k + 1].err = TRUE
    BY <1>1, <1>2
  <2>2. m - (k + 1) + rest <= 1
    BY <1>4, <2>1 DEF ErrLate
  <2> QED BY <1>1, <2>2
<1>5. ASSUME ErrLate(c, rest), x.err = TRUE PROVE Len(p) + rest <= 1
  <2>1. m - 1 + rest <= 1
    BY <1>1, <1>5 DEF ErrLate
  <2> QED BY <1>1, <2>1
<1> QED BY <1>1, <1>3, <1>4, <1>5 DEF p, x

LEMMA AnswerFields ==
    /\ \A q \in AnsParsers :
          /\ q.pc \in {"none", "read", "last", "closed"} /\ q.out \in Seq(AnsChunks) /\ q.usage \in Reports
          /\ q.sawText \in BOOLEAN /\ q.finish \in {"length", "stop"}
    /\ \A q \in AnsTakers :
          /\ q.pc \in {"none", "take", "done"} /\ q.text \in Seq(Nat)
          /\ q.finish \in {"", "length", "stop"} /\ q.tokens \in Nat
    /\ \A q \in AnsSents :
          /\ q.text \in Seq(Nat) /\ q.usage \in Reports /\ q.reason \in FinishReasons
          /\ q.end \in {"", "end", "broken"} /\ q.events \in Nat
    /\ \A x \in AnsChunks :
          /\ x.delta \in Seq(Nat) /\ x.finish \in {"", "length", "stop"}
          /\ x.usage \in Reports /\ x.err \in BOOLEAN
    /\ \A c \in Seq(AnsChunks) : Len(c) \in Nat
    /\ \A c \in Seq(Nat) : Len(c) \in Nat
<1>1. \A c \in Seq(AnsChunks) : Len(c) \in Nat
  OBVIOUS
<1>2. \A c \in Seq(Nat) : Len(c) \in Nat
  OBVIOUS
<1> QED BY <1>1, <1>2 DEF AnsParsers, AnsTakers, AnsSents, AnsChunks

\* A parser that goes on to another place, or has other chunks.
LEMMA ParserGoesOn ==
    \A q \in AnsParsers, at \in {"read", "last", "closed"} :
        LET n == [q EXCEPT !.pc = at]
        IN n \in AnsParsers /\ n.pc = at /\ n.out = q.out
BY DEF AnsParsers

LEMMA ParserHolds ==
    \A q \in AnsParsers, o \in Seq(AnsChunks) :
        LET n == [q EXCEPT !.out = o]
        IN n \in AnsParsers /\ n.pc = q.pc /\ n.out = o
BY DEF AnsParsers

LEMMA ParserAtEnd ==
    \A q \in AnsParsers, o \in Seq(AnsChunks) :
        LET n == [q EXCEPT !.pc = "last", !.out = o]
        IN n \in AnsParsers /\ n.pc = "last" /\ n.out = o
BY DEF AnsParsers

\* The parser.
LEMMA ParserStartsKeeps ==
    ASSUME AnswerShape, ErrorsLast, OpenAIChat \/ GeminiChat PROVE (AnswerShape /\ ErrorsLast)'
<1>1. PICK w \in Streamed \cup {"openai_once", "responses_once", "gemini_once"} : Starts(w)
  BY DEF OpenAIChat, GeminiChat, Streamed
<1>2. /\ aCall = "none" /\ aCall' # "none"
      /\ aParser' = [aParser EXCEPT !.pc = "read"] /\ aTaker' = [aTaker EXCEPT !.pc = "take"]
      /\ aChan' = aChan /\ aSent' = aSent
  BY <1>1 DEF Starts, Streamed
<1>3. aParser \in AnsParsers /\ aTaker \in AnsTakers /\ aParser.pc = "none" /\ aTaker.pc = "none"
  BY <1>2 DEF AnswerShape
<1>4. aParser' \in AnsParsers /\ aParser'.pc = "read" /\ aParser'.out = aParser.out
  BY <1>2, <1>3, ParserGoesOn
<1>5. aTaker' \in AnsTakers /\ aTaker'.pc = "take"
  BY <1>2, <1>3 DEF AnsTakers
<1>6. AnswerShape'
  BY <1>2, <1>4, <1>5 DEF AnswerShape
<1>7. ErrorsLast'
  BY <1>2, <1>3, <1>4, <1>5 DEF ErrorsLast
<1> QED BY <1>6, <1>7

LEMMA ParseEventKeeps ==
    ASSUME AnswerShape, ErrorsLast, NEW e0 \in Event, ParseEvent(e0) PROVE (AnswerShape /\ ErrorsLast)'
<1>0. /\ aSent \in AnsSents /\ aParser \in AnsParsers /\ aChan \in Seq(AnsChunks) /\ aTaker \in AnsTakers
      /\ aParser.pc = "read" /\ aCall # "none" /\ aTaker.pc # "done" /\ NoErr(aChan)
      /\ UNCHANGED <<aCall, aChan, aTaker>>
  BY DEF ParseEvent, AnswerShape, ErrorsLast
<1>1. /\ aSent.text \in Seq(Nat) /\ aSent.usage \in Reports /\ aSent.reason \in FinishReasons
      /\ aSent.events \in Nat /\ aSent.end \in {"", "end", "broken"} /\ Len(aSent.text) \in Nat
      /\ aParser.usage \in Reports /\ aParser.sawText \in BOOLEAN /\ aParser.finish \in {"length", "stop"}
  BY <1>0, AnswerFields
<1> DEFINE e == Carried(e0)
           more == Chunks(aCall, e, aParser)
<1>2. e.text \in Seq(Nat) /\ e.reason \in FinishReasons /\ e.usage \in Reports
  <2>1. /\ e0 \in [type : {"data", "completed", "whole"}, text : {<<>>, <<Len(aSent.text) + 1>>},
                    reason : FinishReasons, usage : Reports]
    BY DEF Event
  <2>2. <<Len(aSent.text) + 1>> \in Seq(Nat) /\ <<>> \in Seq(Nat)
    <3> DEFINE m == Len(aSent.text)
    <3>1. m \in Nat
      BY <1>1
    <3> HIDE DEF m
    <3>2. <<m + 1>> \in Seq(Nat) /\ <<>> \in Seq(Nat)
      BY <3>1
    <3> QED BY <3>2 DEF m
  <2>3. e0.text \in {<<>>, <<Len(aSent.text) + 1>>} /\ e0.reason \in FinishReasons /\ e0.usage \in Reports
    BY <2>1
  <2>4. e.text \in {e0.text, aSent.text} /\ e.reason = e0.reason /\ e.usage = e0.usage
    BY <2>1 DEF Carried
  <2> QED BY <1>1, <2>2, <2>3, <2>4
<1> HIDE DEF e
<1>3. more \in Seq(AnsChunks) /\ NoErr(more)
  BY <1>2, EventChunks
<1> HIDE DEF more
<1> DEFINE full == e.type = "completed"
           t == IF full /\ aSent.text # <<>> THEN aSent.text ELSE aSent.text \o e.text
           u == IF e.usage # <<>> \/ full THEN e.usage ELSE aSent.usage
           r == IF e.reason # "" \/ full THEN e.reason ELSE aSent.reason
           pu == IF e.usage # <<>> \/ full THEN e.usage ELSE aParser.usage
           b == aParser.sawText \/ e.text # <<>>
           f == IF ~full THEN aParser.finish ELSE IF e.reason = "" THEN "stop" ELSE e.reason
           n == aSent.events + 1
<1>4. aSent' = [aSent EXCEPT !.events = n, !.text = t, !.usage = u, !.reason = r]
  BY DEF ParseEvent, e
<1>5. aParser' = [aParser EXCEPT !.out = more, !.usage = pu, !.sawText = b, !.finish = f]
  BY DEF ParseEvent, e, more
<1>6. t \in Seq(Nat)
  <2>1. aSent.text \o e.text \in Seq(Nat)
    BY <1>1, <1>2, ConcatProperties
  <2> QED BY <1>1, <2>1
<1>7. u \in Reports /\ r \in FinishReasons /\ n \in Nat /\ pu \in Reports /\ b \in BOOLEAN
  <2>1. u \in Reports /\ pu \in Reports
    BY <1>1, <1>2
  <2>2. r \in FinishReasons
    BY <1>1, <1>2
  <2>3. n \in Nat
    <3> DEFINE m == aSent.events
    <3>1. m \in Nat
      BY <1>1
    <3> HIDE DEF m
    <3>2. m + 1 \in Nat
      BY <3>1
    <3> QED BY <3>2 DEF m
  <2> HIDE DEF u, r, pu, n
  <2> QED BY <1>1, <2>1, <2>2, <2>3
<1>8. f \in {"length", "stop"}
  BY <1>1, <1>2 DEF FinishReasons
<1> HIDE DEF t, u, r, pu, b, f, n
<1>9. aSent' \in AnsSents
  BY <1>0, <1>4, <1>6, <1>7 DEF AnsSents
<1>10. aParser' \in AnsParsers /\ aParser'.pc = "read" /\ aParser'.out = more
  BY <1>0, <1>3, <1>5, <1>7, <1>8 DEF AnsParsers
<1>11. AnswerShape'
  BY <1>0, <1>9, <1>10 DEF AnswerShape
<1>12. ErrorsLast'
  BY <1>0, <1>3, <1>10 DEF ErrorsLast, NoErr, ErrLate
<1> QED BY <1>11, <1>12

LEMMA ParserEndsKeeps ==
    ASSUME AnswerShape, ErrorsLast,
           (\E end \in {"end", "broken"} : ParseEnd(end)) \/ PushChunk \/ Close
    PROVE  (AnswerShape /\ ErrorsLast)'
<1>0. /\ aSent \in AnsSents /\ aParser \in AnsParsers /\ aChan \in Seq(AnsChunks) /\ aTaker \in AnsTakers
      /\ UNCHANGED <<aCall, aTaker>>
  BY DEF ParseEnd, PushChunk, Close, AnswerShape
<1>1. CASE \E end \in {"end", "broken"} : ParseEnd(end)
  <2>1. PICK end \in {"end", "broken"} : ParseEnd(end)
    BY <1>1
  <2> DEFINE more == LastChunks(aCall, aParser, end)
  <2>2. more \in Seq(AnsChunks) /\ ErrLate(more, 0)
    BY <1>0, AnswerFields, EndChunks
  <2> HIDE DEF more
  <2>3. /\ aParser.pc = "read" /\ aChan' = aChan
        /\ aSent' = [aSent EXCEPT !.end = end]
        /\ aParser' = [aParser EXCEPT !.pc = "last", !.out = more]
    BY <2>1 DEF ParseEnd, more
  <2>4. aSent' \in AnsSents
    BY <1>0, <2>3 DEF AnsSents
  <2>5. aParser' \in AnsParsers /\ aParser'.pc = "last" /\ aParser'.out = more
    BY <1>0, <2>2, <2>3, ParserAtEnd
  <2>6. aCall # "none" /\ aTaker.pc # "done" /\ NoErr(aChan)
    BY <2>3 DEF AnswerShape, ErrorsLast
  <2>7. AnswerShape'
    BY <1>0, <2>3, <2>4, <2>5, <2>6 DEF AnswerShape
  <2>8. ErrorsLast'
    BY <1>0, <2>2, <2>3, <2>5, <2>6 DEF ErrorsLast, NoErr, ErrLate
  <2> QED BY <2>7, <2>8
<1>2. CASE PushChunk
  <2> DEFINE o == aParser.out
             chan == Append(aChan, Head(o))
             rest == Tail(o)
  <2>1. /\ o # <<>> /\ aChan' = chan /\ aParser' = [aParser EXCEPT !.out = rest] /\ aSent' = aSent
    BY <1>2 DEF PushChunk
  <2>2. o \in Seq(AnsChunks) /\ aParser.pc \in {"read", "last"}
    BY <1>0, <2>1, AnswerFields DEF AnswerShape
  <2> HIDE DEF o
  <2>3. /\ chan \in Seq(AnsChunks) /\ rest \in Seq(AnsChunks)
        /\ Len(chan) + Len(rest) = Len(aChan) + Len(o)
        /\ NoErr(aChan) /\ NoErr(o) => NoErr(chan) /\ NoErr(rest)
        /\ ErrLate(o, 0) => ErrLate(rest, 0)
        /\ ErrLate(aChan, Len(o)) /\ ErrLate(o, 0) => ErrLate(chan, Len(rest))
    BY <1>0, <2>1, <2>2, PushFacts
  <2> HIDE DEF chan, rest
  <2>4. aParser' \in AnsParsers /\ aParser'.pc = aParser.pc /\ aParser'.out = rest
    BY <1>0, <2>1, <2>3, ParserHolds
  <2>5. aCall # "none"
    BY <2>2 DEF AnswerShape
  <2>6. AnswerShape'
    BY <1>0, <2>1, <2>2, <2>3, <2>4, <2>5 DEF AnswerShape
  <2>7. /\ aParser.pc \in {"none", "read"} => NoErr(aChan) /\ NoErr(o) /\ aTaker.pc # "done"
        /\ aTaker.pc # "done" => ErrLate(aChan, Len(o)) /\ ErrLate(o, 0)
        /\ aTaker.pc = "done" /\ aParser.pc # "closed" => Len(aChan) + Len(o) <= 1
    BY DEF ErrorsLast, o
  <2>8. ErrorsLast'
    BY <1>0, <2>1, <2>3, <2>4, <2>7 DEF ErrorsLast
  <2> QED BY <2>6, <2>8
<1>3. CASE Close
  <2>1. /\ aParser.pc = "last" /\ aParser' = [aParser EXCEPT !.pc = "closed"] /\ aParser.out = <<>>
        /\ UNCHANGED <<aSent, aChan>>
    BY <1>3 DEF Close
  <2>2. aParser' \in AnsParsers /\ aParser'.pc = "closed" /\ aParser'.out = aParser.out
    BY <1>0, <2>1, ParserGoesOn
  <2>3. aCall # "none"
    BY <2>1 DEF AnswerShape
  <2>4. AnswerShape'
    BY <1>0, <2>1, <2>2, <2>3 DEF AnswerShape
  <2>5. ErrorsLast'
    BY <1>0, <2>1, <2>2 DEF ErrorsLast
  <2> QED BY <2>4, <2>5
<1> QED BY <1>1, <1>2, <1>3

\* The handler.
LEMMA LeaveTypes == \A q \in AnsTakers : Leave(q) \in AnsTakers /\ Leave(q).pc = "done"
<1> SUFFICES ASSUME NEW q \in AnsTakers PROVE Leave(q) \in AnsTakers /\ Leave(q).pc = "done"
  OBVIOUS
<1> DEFINE l == Len(q.text)
           n == IF q.tokens = 0 THEN Estimate(q.text) ELSE q.tokens
<1>1. q.tokens \in Nat /\ q.text \in Seq(Nat) /\ l \in Nat
  BY AnswerFields
<1>2. Estimate(q.text) = (l + 3) \div 4
  BY DEF Estimate
<1> HIDE DEF l
<1>3. (l + 3) \div 4 \in Nat
  BY <1>1
<1>4. n \in Nat
  BY <1>1, <1>2, <1>3
<1>5. Leave(q) = [q EXCEPT !.pc = "done", !.tokens = n]
  BY DEF Leave
<1> HIDE DEF n
<1> QED BY <1>4, <1>5 DEF AnsTakers

LEMMA TakerKeeps ==
    ASSUME AnswerShape, ErrorsLast, TakeChunk \/ TakeClosed PROVE (AnswerShape /\ ErrorsLast)'
<1>0. /\ aTaker \in AnsTakers /\ aTaker.pc = "take" /\ aCall # "none"
      /\ aParser \in AnsParsers /\ aChan \in Seq(AnsChunks)
      /\ UNCHANGED <<aCall, aSent, aParser>>
  BY DEF AnswerShape, TakeChunk, TakeClosed
<1>1. Leave(aTaker) \in AnsTakers /\ Leave(aTaker).pc = "done"
  BY <1>0, LeaveTypes
<1>2. CASE TakeChunk
  <2> DEFINE x == Head(aChan)
             chan == Tail(aChan)
             rest == Len(aParser.out)
  <2>1. /\ aChan # <<>> /\ aChan' = chan
        /\ aTaker' = IF x.err THEN Leave(aTaker)
                     ELSE [aTaker EXCEPT !.tokens = IF x.usage # <<>> THEN x.usage[1] ELSE @,
                                         !.text = @ \o x.delta,
                                         !.finish = IF x.finish # "" THEN x.finish ELSE @]
    BY <1>2 DEF TakeChunk
  <2>2. rest \in Nat
    BY <1>0, AnswerFields
  <2>3. /\ ErrLate(aChan, rest) /\ ErrLate(aParser.out, 0)
        /\ aParser.pc \in {"none", "read"} => NoErr(aChan) /\ NoErr(aParser.out)
    BY <1>0 DEF ErrorsLast
  <2> HIDE DEF rest
  <2>4. /\ x \in AnsChunks /\ chan \in Seq(AnsChunks)
        /\ NoErr(aChan) => NoErr(chan) /\ x.err = FALSE
        /\ ErrLate(chan, rest)
        /\ x.err = TRUE => Len(chan) + rest <= 1
    BY <1>0, <2>1, <2>2, <2>3, TakeFacts
  <2> HIDE DEF x, chan
  <2>5. CASE x.err = TRUE
    <3>1. aTaker' = Leave(aTaker)
      BY <2>1, <2>5
    <3>2. aParser.pc \notin {"none", "read"}
      BY <2>3, <2>4, <2>5
    <3>3. AnswerShape'
      BY <1>0, <1>1, <2>1, <2>4, <3>1 DEF AnswerShape
    <3>4. ErrorsLast'
      BY <1>0, <1>1, <2>1, <2>4, <2>5, <3>1, <3>2 DEF ErrorsLast, rest
    <3> QED BY <3>3, <3>4
  <2>6. CASE x.err = FALSE
    <3> DEFINE y == aTaker.text
               z == x.delta
               t == y \o z
               f == IF x.finish # "" THEN x.finish ELSE aTaker.finish
               n == IF x.usage # <<>> THEN x.usage[1] ELSE aTaker.tokens
    <3>1. aTaker' = [aTaker EXCEPT !.tokens = n, !.text = t, !.finish = f]
      BY <2>1, <2>6
    <3>2. /\ y \in Seq(Nat) /\ z \in Seq(Nat) /\ f \in {"", "length", "stop"}
          /\ x.usage \in Reports /\ aTaker.tokens \in Nat
      BY <1>0, <2>4, AnswerFields
    <3> HIDE DEF y, z
    <3>3. t \in Seq(Nat)
      BY <3>2, ConcatProperties
    <3>4. n \in Nat
      <4>1. CASE x.usage = <<>>
        BY <3>2, <4>1
      <4>2. CASE x.usage # <<>>
        <5>1. PICK c \in AnsCounts : x.usage = <<c>>
          BY <3>2, <4>2 DEF Reports
        <5>2. x.usage[1] = c
          BY <5>1
        <5> QED BY <4>2, <5>2, ChannelAnswerAssumption
      <4> QED BY <4>1, <4>2
    <3> HIDE DEF t, f, n
    <3>5. aTaker' \in AnsTakers /\ aTaker'.pc = "take"
      BY <1>0, <3>1, <3>2, <3>3, <3>4 DEF AnsTakers
    <3>6. AnswerShape'
      BY <1>0, <2>1, <2>4, <3>5 DEF AnswerShape
    <3>7. ErrorsLast'
      BY <1>0, <2>1, <2>3, <2>4, <3>5 DEF ErrorsLast, rest
    <3> QED BY <3>6, <3>7
  <2>7. x.err \in BOOLEAN
    BY <2>4, AnswerFields
  <2> QED BY <2>5, <2>6, <2>7
<1>3. CASE TakeClosed
  <2>1. aTaker' = Leave(aTaker) /\ aChan' = aChan /\ aParser.pc = "closed"
    BY <1>3 DEF TakeClosed
  <2>2. AnswerShape'
    BY <1>0, <1>1, <2>1 DEF AnswerShape
  <2>3. ErrorsLast'
    BY <1>0, <1>1, <2>1 DEF ErrorsLast
  <2> QED BY <2>2, <2>3
<1> QED BY <1>2, <1>3

\* ImageGenerate and the answers to its calls.
LEMMA CallFields ==
    /\ \A q \in ImageCalls :
          /\ q.pc \in {"none", "call", "unsupported", "ok", "error"} /\ q.wire \in ImageWires /\ q.n \in Nat
          /\ q.refs \in BOOLEAN /\ q.got \in Seq(Delivered) /\ q.best \in Pictures
          /\ q.final \in BOOLEAN /\ q.late \in BOOLEAN /\ q.events \in Nat
    /\ <<>> \in Seq(Delivered) /\ Len(<<>>) = 0 /\ FinalOrLate(<<>>)
    /\ NoImage \in ImageCalls /\ NoImage.got = <<>> /\ NoImage.best = "" /\ NoImage.pc = "none"
<1>1. <<>> \in Seq(Delivered) /\ Len(<<>>) = 0 /\ FinalOrLate(<<>>)
  BY DEF FinalOrLate
<1>2. NoImage \in ImageCalls /\ NoImage.got = <<>> /\ NoImage.best = "" /\ NoImage.pc = "none"
  BY <1>1 DEF NoImage, ImageCalls, ImageWires, Pictures
<1> QED BY <1>1, <1>2 DEF ImageCalls

LEMMA CallStarts ==
    ASSUME NEW w \in ImageWires, NEW n \in 1 .. AnsMaxImages, NEW edit \in BOOLEAN, ImageGenerate(w, n, edit)
    PROVE  ImageShape'
<1> DEFINE at == IF edit /\ w # "responses" THEN "unsupported" ELSE "call"
           q == [NoImage EXCEPT !.pc = at, !.wire = w, !.n = n, !.refs = edit]
<1>1. aImg' = q
  BY DEF ImageGenerate
<1>2. n \in Nat /\ n > 0
  BY ChannelAnswerAssumption
<1>3. at \in {"unsupported", "call"} /\ (at = "call" /\ edit = TRUE => w = "responses")
  OBVIOUS
<1> HIDE DEF at
<1>4. /\ q \in ImageCalls /\ q.pc = at /\ q.wire = w /\ q.n = n /\ q.refs = edit
      /\ q.got = <<>> /\ q.best = ""
  BY <1>2, <1>3, CallFields DEF ImageCalls
<1> HIDE DEF q
<1>5. ImageSound(q)
  BY <1>2, <1>3, <1>4, CallFields DEF ImageSound
<1> QED BY <1>1, <1>5 DEF ImageShape

LEMMA CallFails ==
    ASSUME ImageShape, aImg' = Failed(aImg) PROVE ImageShape'
<1>1. aImg \in ImageCalls
  BY DEF ImageShape, ImageSound
<1>2. Failed(aImg) \in ImageCalls /\ Failed(aImg).pc = "error" /\ Failed(aImg).got = <<>>
  BY <1>1, CallFields DEF Failed, ImageCalls
<1> QED BY <1>2, CallFields DEF ImageShape, ImageSound

LEMMA DocumentKeeps ==
    ASSUME ImageShape, NEW w \in ImageWires \ {"responses"}, NEW k \in Nat, ImageDocument(w, k)
    PROVE  ImageShape'
<1>1. CASE k = 0
  BY <1>1, CallFails DEF ImageDocument
<1>2. CASE k # 0
  <2> DEFINE q == [aImg EXCEPT !.pc = "ok", !.got = WholeImages(k)]
  <2>1. aImg' = q /\ aImg.pc = "call" /\ aImg.wire = w
    BY <1>2 DEF ImageDocument
  <2>2. aImg \in ImageCalls /\ aImg.refs # TRUE
    BY <2>1 DEF ImageShape, ImageSound
  <2>3. WholeImages(k) \in Seq(Delivered)
    BY DEF WholeImages, Delivered, Pictures
  <2>4. q \in ImageCalls /\ q.pc = "ok" /\ q.wire = w /\ q.refs = aImg.refs
    BY <2>1, <2>2, <2>3 DEF ImageCalls
  <2> HIDE DEF q
  <2>5. ImageSound(q)
    BY <2>2, <2>4 DEF ImageSound
  <2> QED BY <2>1, <2>5 DEF ImageShape
<1> QED BY <1>1, <1>2

LEMMA ImageEventKeeps ==
    ASSUME ImageShape, NEW what \in {"partial", "final"}, ImageEvent(what) PROVE ImageShape'
<1> DEFINE f == aImg.final \/ what = "final"
           l == aImg.final /\ what = "partial"
           m == aImg.events
           q == [aImg EXCEPT !.best = what, !.final = f, !.late = l, !.events = m + 1]
<1>1. aImg' = q /\ aImg.pc = "call" /\ aImg \in ImageCalls
  BY DEF ImageEvent, ImageShape, ImageSound
<1>2. f \in BOOLEAN /\ l \in BOOLEAN /\ m \in Nat /\ (what = "partial" /\ f = TRUE => l = TRUE)
  BY <1>1, CallFields
<1> HIDE DEF f, l, m
<1>3. m + 1 \in Nat
  BY <1>2
<1>4. /\ q \in ImageCalls /\ q.pc = "call" /\ q.best = what /\ q.final = f /\ q.late = l
      /\ q.wire = aImg.wire /\ q.n = aImg.n /\ q.refs = aImg.refs /\ q.got = aImg.got
  BY <1>1, <1>2, <1>3 DEF ImageCalls, Pictures
<1> HIDE DEF q
<1>5. ImageSound(q)
  BY <1>1, <1>2, <1>4 DEF ImageShape, ImageSound
<1> QED BY <1>1, <1>5 DEF ImageShape

\* One more image, the best of the call that has ended.
LEMMA DeliverFacts ==
    ASSUME NEW got \in Seq(Delivered), NEW x \in Delivered
    PROVE  /\ Append(got, x) \in Seq(Delivered) /\ Len(Append(got, x)) = Len(got) + 1 /\ Len(got) \in Nat
           /\ FinalOrLate(got) /\ (x.img = "final" \/ x.late = TRUE) => FinalOrLate(Append(got, x))
<1> DEFINE d == Append(got, x)
           m == Len(got)
<1>1. m \in Nat /\ d \in Seq(Delivered) /\ Len(d) = m + 1 /\ d[m + 1] = x /\ \A k \in 1 .. m : d[k] = got[k]
  OBVIOUS
<1> HIDE DEF d
<1>2. ASSUME FinalOrLate(got), x.img = "final" \/ x.late = TRUE PROVE FinalOrLate(d)
  <2> SUFFICES ASSUME NEW k \in 1 .. m + 1 PROVE d[k].img = "final" \/ d[k].late = TRUE
    BY <1>1 DEF FinalOrLate
  <2>1. CASE k \in 1 .. m
    BY <1>1, <1>2, <2>1 DEF FinalOrLate
  <2>2. CASE k = m + 1
    BY <1>1, <1>2, <2>2
  <2>3. k \in 1 .. m \/ k = m + 1
    BY <1>1
  <2> QED BY <2>1, <2>2, <2>3
<1> QED BY <1>1, <1>2 DEF d

LEMMA ImageEndsKeeps ==
    ASSUME ImageShape, NEW end \in {"end", "timeout", "broken"}, ImageEnds(end) PROVE ImageShape'
<1> DEFINE x == [img |-> aImg.best, late |-> aImg.late]
           got == aImg.got
           d == Append(got, x)
           at == IF Len(d) = aImg.n THEN "ok" ELSE "call"
           q == [aImg EXCEPT !.got = d, !.best = "", !.final = FALSE, !.late = FALSE, !.events = 0, !.pc = at]
<1>1. /\ aImg.pc = "call" /\ aImg.wire = "responses" /\ aImg \in ImageCalls /\ Len(got) < aImg.n
      /\ aImg.best = "partial" /\ aImg.final = TRUE => aImg.late = TRUE
      /\ aImg.refs = TRUE => FinalOrLate(got)
  BY DEF ImageEnds, ImageShape, ImageSound
<1>2. CASE ~KeepsBest(aImg, end)
  BY <1>2, CallFails DEF ImageEnds
<1>3. CASE KeepsBest(aImg, end)
  <2>1. aImg' = q
    BY <1>3 DEF ImageEnds
  <2>2. /\ aImg.best \in Pictures /\ aImg.late \in BOOLEAN /\ aImg.final \in BOOLEAN /\ aImg.n \in Nat
        /\ got \in Seq(Delivered) /\ aImg.refs \in BOOLEAN
    BY <1>1, CallFields
  <2>3. x \in Delivered /\ x.img = aImg.best /\ x.late = aImg.late
    BY <2>2 DEF Delivered
  <2>4. aImg.refs = TRUE => x.img = "final" \/ x.late = TRUE
    BY <1>1, <1>3, <2>2, <2>3 DEF KeepsBest, Pictures
  <2> HIDE DEF x, got
  <2>5. /\ d \in Seq(Delivered) /\ Len(d) = Len(got) + 1 /\ Len(got) \in Nat
        /\ aImg.refs = TRUE => FinalOrLate(d)
    BY <1>1, <2>2, <2>3, <2>4, DeliverFacts
  <2> HIDE DEF d
  <2>6. at \in {"ok", "call"} /\ (at = "ok" => Len(d) = aImg.n) /\ (at = "call" => Len(d) < aImg.n)
    <3> DEFINE m == aImg.n
               c == Len(got)
    <3>1. m \in Nat /\ c \in Nat /\ c < m /\ Len(d) = c + 1
      BY <1>1, <2>2, <2>5
    <3> HIDE DEF m, c
    <3>2. Len(d) = m \/ Len(d) < m
      BY <3>1
    <3> QED BY <3>2 DEF m
  <2> HIDE DEF at
  <2>7. /\ q \in ImageCalls /\ q.pc = at /\ q.wire = "responses" /\ q.n = aImg.n /\ q.refs = aImg.refs
        /\ q.got = d /\ q.best = ""
    BY <1>1, <2>5, <2>6 DEF ImageCalls, Pictures
  <2> HIDE DEF q
  <2>8. ImageSound(q)
    BY <2>5, <2>6, <2>7 DEF ImageSound
  <2> QED BY <2>1, <2>8 DEF ImageShape
<1> QED BY <1>2, <1>3

\* Every step of an answer keeps the invariant.
LEMMA AnswerStep == AnswerInv /\ [ANext]_aVars => AnswerInv'
<1> SUFFICES ASSUME AnswerInv, [ANext]_aVars PROVE AnswerInv'
  OBVIOUS
<1>0. AnswerShape /\ ErrorsLast /\ ImageShape /\ AnsMaxImages \in Nat
  BY ChannelAnswerAssumption DEF AnswerInv
<1> DEFINE Parses == \/ OpenAIChat \/ GeminiChat \/ \E e \in Event : ParseEvent(e)
                     \/ \E end \in {"end", "broken"} : ParseEnd(end)
                     \/ PushChunk \/ Close
           Draws == \/ \E w \in ImageWires, n \in 1 .. AnsMaxImages, edit \in BOOLEAN : ImageGenerate(w, n, edit)
                    \/ \E k \in 0 .. (AnsMaxImages + 1) : ImagesEndpoint(k) \/ Imagen(k) \/ GeminiImage(k)
                    \/ ImageRefused
                    \/ \E what \in {"partial", "final"} : ImageEvent(what)
                    \/ \E end \in {"end", "timeout", "broken"} : ImageEnds(end)
<1>1. CASE Parses \/ TakeChunk \/ TakeClosed
  <2>1. (AnswerShape /\ ErrorsLast)'
    BY <1>0, <1>1, ParserStartsKeeps, ParseEventKeeps, ParserEndsKeeps, TakerKeeps
  <2>2. aImg' = aImg
    BY <1>1 DEF OpenAIChat, GeminiChat, Starts, ParseEvent, ParseEnd, PushChunk, Close, TakeChunk, TakeClosed
  <2> QED BY <1>0, <2>1, <2>2 DEF AnswerInv, ImageShape
<1>2. CASE Draws
  <2>1. ImageShape'
    <3>1. CASE \E k \in 0 .. (AnsMaxImages + 1) : ImagesEndpoint(k) \/ Imagen(k) \/ GeminiImage(k)
      <4>1. PICK k \in 0 .. (AnsMaxImages + 1) : ImagesEndpoint(k) \/ Imagen(k) \/ GeminiImage(k)
        BY <3>1
      <4>2. k \in Nat /\ \E w \in ImageWires \ {"responses"} : ImageDocument(w, k)
        BY <4>1 DEF ImagesEndpoint, Imagen, GeminiImage, ImageWires
      <4> QED BY <1>0, <4>2, DocumentKeeps
    <3>2. CASE ImageRefused
      BY <1>0, <3>2, CallFails DEF ImageRefused
    <3> QED BY <1>0, <1>2, <3>1, <3>2, CallStarts, ImageEventKeeps, ImageEndsKeeps
  <2>2. UNCHANGED <<aCall, aSent, aParser, aChan, aTaker>>
    BY <1>2 DEF ImageGenerate, ImagesEndpoint, Imagen, GeminiImage, ImageDocument, ImageRefused, ImageEvent, ImageEnds
  <2> QED BY <1>0, <2>1, <2>2 DEF AnswerInv, AnswerShape, ErrorsLast
<1>3. CASE UNCHANGED aVars
  BY <1>0, <1>3 DEF aVars, AnswerInv, AnswerShape, ErrorsLast, ImageShape
<1> QED BY <1>1, <1>2, <1>3 DEF ANext

\* Nothing has been asked, nothing sent.
LEMMA AnswerStart == ASSUME AInit PROVE AnswerInv
<1>0. /\ <<>> \in Seq(AnsChunks) /\ <<>> \in Seq(Nat) /\ <<>> \in Reports
      /\ "" \in FinishReasons
  BY DEF Reports, FinishReasons
<1>1. aParser \in AnsParsers /\ aParser.pc = "none" /\ aParser.out = <<>>
  BY <1>0 DEF AInit, AnsParsers
<1>2. aTaker \in AnsTakers /\ aTaker.pc = "none"
  BY <1>0 DEF AInit, AnsTakers
<1>3. aSent \in AnsSents
  BY <1>0 DEF AInit, AnsSents
<1>4. aChan = <<>> /\ aCall = "none" /\ aImg = NoImage
  BY DEF AInit
<1>5. AnswerShape
  BY <1>1, <1>2, <1>3, <1>4 DEF AnswerShape
<1>6. ErrorsLast
  BY <1>1, <1>2, <1>4 DEF ErrorsLast, NoErr, ErrLate
<1>7. ImageShape
  BY <1>4, CallFields DEF ImageShape, ImageSound
<1> QED BY <1>5, <1>6, <1>7 DEF AnswerInv

\* The invariant says that no parser is stuck and no edit delivers a preview.
LEMMA AnswerInvSound == ASSUME AnswerInv PROVE ParserNotStuck /\ EditsFinal
<1>1. ParserNotStuck
  <2> SUFFICES ASSUME aTaker.pc = "done", aParser.pc # "closed" PROVE Len(aChan) + Len(aParser.out) <= AnsCap
    BY DEF ParserNotStuck
  <2> DEFINE n == Len(aChan)
             m == Len(aParser.out)
  <2>1. n + m <= 1
    BY DEF AnswerInv, ErrorsLast
  <2>2. n \in Nat /\ m \in Nat
    BY AnswerFields DEF AnswerInv, AnswerShape
  <2> HIDE DEF n, m
  <2>3. n + m <= AnsCap
    BY <2>1, <2>2, ChannelAnswerAssumption
  <2> QED BY <2>3 DEF n, m
<1>2. EditsFinal
  <2>1. aImg.got \in Seq(Delivered)
    BY CallFields DEF AnswerInv, ImageShape, ImageSound
  <2>2. DOMAIN aImg.got = 1 .. Len(aImg.got)
    BY <2>1
  <2>3. aImg.refs \in BOOLEAN /\ (aImg.refs = TRUE => FinalOrLate(aImg.got))
    BY CallFields DEF AnswerInv, ImageShape, ImageSound
  <2>4. aImg.pc = "ok" /\ aImg.wire = "responses" => Len(aImg.got) = aImg.n
    BY DEF AnswerInv, ImageShape, ImageSound
  <2> QED BY <2>2, <2>3, <2>4 DEF EditsFinal, FinalOrLate
<1> QED BY <1>1, <1>2

\* A parser whose handler has left at an error finds room for what it still
\* has to push, and an edit delivers final images, as many as were asked for,
\* for every capacity, number of events and number of images.
THEOREM ParsersEnd == ASpec => [](ParserNotStuck /\ EditsFinal)
BY AnswerStart, AnswerStep, AnswerInvSound, PTL DEF ASpec

\* What the handler has told the user after the chunks it took: the text and
\* the tokens, and whether it has left at an error.
At(t, n) == [text |-> t, tokens |-> n, over |-> 0]
Stopped(t, n) == [text |-> t, tokens |-> n, over |-> 1]

Count(u, n) == IF u # <<>> THEN u[1] ELSE n

Told(r, c) ==
    IF r.over = 1 \/ c.err = TRUE THEN Stopped(r.text, r.tokens)
    ELSE At(r.text \o c.delta, Count(c.usage, r.tokens))

\* Taking the chunks of q one by one leads from x to y.
Leads(q, x, y) ==
    \E h : h[0] = x /\ h[Len(q)] = y /\ \A k \in 1 .. Len(q) : h[k] = Told(h[k - 1], q[k])

\* What is still to come for the handler, and what it has to charge for.
Pending == aChan \o aParser.out
Due(s, w) == IF (s.end = "broken" /\ w # "openai") \/ (w = "openai_once" /\ NoChoices(s)) THEN 0
             ELSE Count(s.usage, 0)
Now == At(aTaker.text, aTaker.tokens)

\* The chunks that are under way say what the handler has not heard yet of what
\* the upstream sent.
AnswerTold ==
    /\ aParser.pc = "read" => /\ aParser.usage = aSent.usage /\ aSent.end = ""
                              /\ aParser.sawText = TRUE <=> aSent.text # <<>>
    /\ aParser.pc = "none" \/ aSent.events = 0 =>
           aSent.text = <<>> /\ aSent.usage = <<>> /\ aSent.reason = ""
    /\ aParser.pc = "none" =>
           /\ aSent.events = 0 /\ aSent.end = "" /\ aParser.usage = <<>> /\ aParser.sawText = FALSE
           /\ aChan = <<>> /\ aTaker.text = <<>> /\ aTaker.tokens = 0 /\ aTaker.pc = "none"
    /\ aTaker.pc = "take" /\ aParser.pc = "read" =>
           Leads(Pending, Now, At(aSent.text, IF aCall \in Streamed THEN 0 ELSE Due(aSent, aCall)))
    /\ aTaker.pc = "take" /\ aParser.pc # "read" =>
           \/ Leads(Pending, Now, At(aSent.text, Due(aSent, aCall)))
           \/ Leads(Pending, Now, Stopped(aSent.text, Due(aSent, aCall)))
    /\ aTaker.pc = "done" => aParser.pc \in {"last", "closed"} /\ WholeText /\ CountedTokens

\* Different states are different.
LEMMA Apart ==
    /\ \A t, n, s, m : (At(t, n) = At(s, m) => t = s /\ n = m) /\ At(t, n) # Stopped(s, m)
    /\ \A t, n, s, m : Stopped(t, n) = Stopped(s, m) => t = s /\ n = m
<1>1. \A t, n : At(t, n).text = t /\ At(t, n).tokens = n /\ At(t, n).over = 0
  BY DEF At
<1>2. \A t, n : Stopped(t, n).text = t /\ Stopped(t, n).tokens = n /\ Stopped(t, n).over = 1
  BY DEF Stopped
<1>3. 0 # 1
  OBVIOUS
<1>4. \A t, n, s, m : (At(t, n) = At(s, m) => t = s /\ n = m) /\ At(t, n) # Stopped(s, m)
  BY <1>1, <1>2, <1>3
<1>5. \A t, n, s, m : Stopped(t, n) = Stopped(s, m) => t = s /\ n = m
  BY <1>2
<1> QED BY <1>4, <1>5

\* What each chunk tells.
LEMMA ToldMore ==
    ASSUME NEW t, NEW n, NEW c, c.err = FALSE
    PROVE  Told(At(t, n), c) = At(t \o c.delta, Count(c.usage, n))
<1> DEFINE x == At(t, n)
<1>1. x.text = t /\ x.tokens = n /\ x.over = 0
  BY DEF At
<1> HIDE DEF x
<1>2. x.over # 1
  <2>1. 0 # 1
    OBVIOUS
  <2> QED BY <1>1, <2>1
<1>4. c.err # TRUE
  BY Zenon
<1>3. Told(x, c) = At(x.text \o c.delta, Count(c.usage, x.tokens))
  BY <1>2, <1>4 DEF Told
<1> QED BY <1>1, <1>3 DEF x

LEMMA ToldErr == \A t, n : Told(At(t, n), ErrChunk) = Stopped(t, n)
<1> SUFFICES ASSUME NEW t, NEW n PROVE Told(At(t, n), ErrChunk) = Stopped(t, n)
  OBVIOUS
<1> DEFINE x == At(t, n)
<1>1. x.text = t /\ x.tokens = n
  BY DEF At
<1>2. ErrChunk.err = TRUE
  BY DEF ErrChunk, Chunk
<1> HIDE DEF x
<1>3. Told(x, ErrChunk) = Stopped(x.text, x.tokens)
  BY <1>2 DEF Told
<1> QED BY <1>1, <1>3 DEF x

LEMMA ToldErrors == \A t, n, c : c.err = TRUE => Told(At(t, n), c) = Stopped(t, n)
<1> SUFFICES ASSUME NEW t, NEW n, NEW c, c.err = TRUE PROVE Told(At(t, n), c) = Stopped(t, n)
  OBVIOUS
<1> DEFINE x == At(t, n)
<1>1. x.text = t /\ x.tokens = n
  BY DEF At
<1> HIDE DEF x
<1>2. Told(x, c) = Stopped(x.text, x.tokens)
  BY DEF Told
<1> QED BY <1>1, <1>2 DEF x

LEMMA ToldStopped == \A t, n, c : Told(Stopped(t, n), c) = Stopped(t, n)
<1> SUFFICES ASSUME NEW t, NEW n, NEW c PROVE Told(Stopped(t, n), c) = Stopped(t, n)
  OBVIOUS
<1> DEFINE x == Stopped(t, n)
<1>1. x.text = t /\ x.tokens = n /\ x.over = 1
  BY DEF Stopped
<1> HIDE DEF x
<1>2. Told(x, c) = Stopped(x.text, x.tokens)
  BY <1>1 DEF Told
<1> QED BY <1>1, <1>2 DEF x

LEMMA ToldChunk ==
    \A t, n, d, why, u : Told(At(t, n), Chunk(d, why, u, FALSE)) = At(t \o d, Count(u, n))
<1> SUFFICES ASSUME NEW t, NEW n, NEW d, NEW why, NEW u
             PROVE  Told(At(t, n), Chunk(d, why, u, FALSE)) = At(t \o d, Count(u, n))
  OBVIOUS
<1> DEFINE c == Chunk(d, why, u, FALSE)
<1>1. c.delta = d /\ c.usage = u /\ c.err = FALSE
  BY DEF Chunk
<1> HIDE DEF c
<1>2. Told(At(t, n), c) = At(t \o c.delta, Count(c.usage, n))
  BY <1>1, ToldMore
<1> QED BY <1>1, <1>2 DEF c

LEMMA ToldWords ==
    ASSUME NEW t, NEW n, NEW d
    PROVE  /\ \A why : Told(At(t, n), Chunk(d, why, <<>>, FALSE)) = At(t \o d, n)
           /\ Told(At(t, n), TextChunk(d)) = At(t \o d, n)
<1>1. Count(<<>>, n) = n
  BY DEF Count
<1>2. ASSUME NEW why PROVE Told(At(t, n), Chunk(d, why, <<>>, FALSE)) = At(t \o d, n)
  <2> DEFINE c == Chunk(d, why, <<>>, FALSE)
  <2>1. c.delta = d /\ c.usage = <<>> /\ c.err = FALSE
    BY DEF Chunk
  <2> HIDE DEF c
  <2>2. Told(At(t, n), c) = At(t \o c.delta, Count(c.usage, n))
    BY <2>1, ToldMore
  <2> QED BY <1>1, <2>1, <2>2 DEF c
<1>3. Told(At(t, n), TextChunk(d)) = At(t \o d, n)
  BY <1>2 DEF TextChunk
<1> QED BY <1>1, <1>2, <1>3

LEMMA ToldNoWords ==
    ASSUME NEW t \in Seq(Nat), NEW n
    PROVE  /\ \A why, u : Told(At(t, n), Chunk(<<>>, why, u, FALSE)) = At(t, Count(u, n))
           /\ \A why : Told(At(t, n), Chunk(<<>>, why, <<>>, FALSE)) = At(t, n)
           /\ \A u : Told(At(t, n), UsageChunk(u)) = At(t, Count(u, n))
<1>1. t \o <<>> = t
  OBVIOUS
<1>2. \A why, u : Told(At(t, n), Chunk(<<>>, why, u, FALSE)) = At(t \o <<>>, Count(u, n))
  BY ToldChunk
<1>3. Count(<<>>, n) = n
  BY DEF Count
<1>4. \A u : Told(At(t, n), UsageChunk(u)) = At(t, Count(u, n))
  BY <1>1, <1>2 DEF UsageChunk
<1> QED BY <1>1, <1>2, <1>3, <1>4

\* No chunk, one chunk.
LEMMA LeadsNowhere ==
    ASSUME NEW x, NEW y
    PROVE  Leads(<<>>, x, y) <=> x = y
<1>1. Len(<<>>) = 0 /\ 1 .. 0 = {}
  OBVIOUS
<1>2. ASSUME Leads(<<>>, x, y) PROVE x = y
  BY <1>1, <1>2 DEF Leads
<1>3. ASSUME x = y PROVE Leads(<<>>, x, y)
  <2> DEFINE h == [k \in {0} |-> x]
  <2>1. h[0] = x
    OBVIOUS
  <2> HIDE DEF h
  <2> QED BY <1>1, <1>3, <2>1 DEF Leads
<1> QED BY <1>2, <1>3

\* The first chunk is taken.
LEMMA LeadsOn ==
    ASSUME NEW S, NEW q \in Seq(S), q # <<>>, NEW x, NEW y, Leads(q, x, y)
    PROVE  Leads(Tail(q), Told(x, Head(q)), y)
<1> DEFINE n == Len(q)
           t == Tail(q)
<1>1. PICK h : h[0] = x /\ h[n] = y /\ \A k \in 1 .. n : h[k] = Told(h[k - 1], q[k])
  BY DEF Leads
<1>2. /\ n \in Nat /\ n >= 1 /\ Len(t) = n - 1 /\ Head(q) = q[1]
      /\ \A k \in 1 .. n - 1 : t[k] = q[k + 1]
  OBVIOUS
<1> HIDE DEF n, t
<1> DEFINE g == [k \in 0 .. n - 1 |-> h[k + 1]]
<1>3. h[1] = Told(x, q[1])
  BY <1>1, <1>2
<1>4. g[0] = h[1] /\ g[n - 1] = h[n]
  BY <1>2
<1>5. ASSUME NEW k \in 1 .. n - 1 PROVE g[k] = Told(g[k - 1], t[k])
  <2>1. /\ k + 1 \in 1 .. n /\ k \in 0 .. n - 1 /\ k - 1 \in 0 .. n - 1
        /\ (k + 1) - 1 = k /\ (k - 1) + 1 = k
    BY <1>2
  <2>2. g[k] = h[k + 1] /\ g[k - 1] = h[k]
    BY <2>1
  <2>3. h[k + 1] = Told(h[(k + 1) - 1], q[k + 1])
    BY <1>1, <2>1
  <2> QED BY <1>2, <2>1, <2>2, <2>3
<1> HIDE DEF g
<1>6. g[0] = Told(x, Head(q)) /\ g[Len(t)] = y /\ \A k \in 1 .. Len(t) : g[k] = Told(g[k - 1], t[k])
  BY <1>1, <1>2, <1>3, <1>4, <1>5
<1> QED BY <1>6 DEF Leads, t

\* One chunk more.
LEMMA LeadsFurther ==
    ASSUME NEW S, NEW q \in Seq(S), NEW c \in S, NEW x, NEW y, Leads(q, x, y)
    PROVE  Leads(q \o <<c>>, x, Told(y, c))
<1> DEFINE n == Len(q)
           t == q \o <<c>>
<1>1. PICK h : h[0] = x /\ h[n] = y /\ \A k \in 1 .. n : h[k] = Told(h[k - 1], q[k])
  BY DEF Leads
<1>2. /\ n \in Nat /\ Len(t) = n + 1 /\ t[n + 1] = c
      /\ \A k \in 1 .. n : t[k] = q[k]
  OBVIOUS
<1> HIDE DEF n, t
<1> DEFINE g == [k \in 0 .. n + 1 |-> IF k = n + 1 THEN Told(y, c) ELSE h[k]]
<1>3. /\ g[0] = x /\ g[n + 1] = Told(y, c) /\ \A k \in 0 .. n : g[k] = h[k]
  BY <1>1, <1>2
<1>4. ASSUME NEW k \in 1 .. n + 1 PROVE g[k] = Told(g[k - 1], t[k])
  <2>1. CASE k \in 1 .. n
    <3>1. k \in 0 .. n /\ k - 1 \in 0 .. n
      BY <1>2, <2>1
    <3> HIDE DEF g
    <3> QED BY <1>1, <1>2, <1>3, <2>1, <3>1
  <2>2. CASE k = n + 1
    <3>1. k - 1 = n /\ n \in 0 .. n
      BY <1>2, <2>2
    <3> HIDE DEF g
    <3> QED BY <1>1, <1>2, <1>3, <2>2, <3>1
  <2>3. k \in 1 .. n \/ k = n + 1
    BY <1>2
  <2> QED BY <2>1, <2>2, <2>3
<1> HIDE DEF g
<1>5. g[0] = x /\ g[Len(t)] = Told(y, c) /\ \A k \in 1 .. Len(t) : g[k] = Told(g[k - 1], t[k])
  BY <1>2, <1>3, <1>4
<1> QED BY <1>5 DEF Leads, t

\* Up to two chunks more.
LEMMA LeadsTwo ==
    ASSUME NEW S, NEW q \in Seq(S), NEW a \in S, NEW b \in S, NEW x, NEW y, Leads(q, x, y)
    PROVE  /\ Leads(q \o <<>>, x, y)
           /\ Leads(q \o <<a>>, x, Told(y, a))
           /\ Leads(q \o <<a, b>>, x, Told(Told(y, a), b))
<1>1. q \o <<>> = q /\ q \o <<a>> \in Seq(S)
  OBVIOUS
<1>2. q \o <<a, b>> = (q \o <<a>>) \o <<b>>
  <2>1. Append(q, a) = q \o <<a>> /\ Append(q, a) \in Seq(S)
    OBVIOUS
  <2>2. Append(Append(q, a), b) = q \o <<a, b>>
    OBVIOUS
  <2>3. \A s \in Seq(S) : Append(s, b) = s \o <<b>>
    OBVIOUS
  <2> QED BY <2>1, <2>2, <2>3
<1>3. Leads(q \o <<a>>, x, Told(y, a))
  BY LeadsFurther
<1> DEFINE t == q \o <<a>>
<1> HIDE DEF t
<1>4. t \in Seq(S) /\ Leads(t, x, Told(y, a))
  BY <1>1, <1>3 DEF t
<1>5. Leads(t \o <<b>>, x, Told(Told(y, a), b))
  BY <1>4, LeadsFurther
<1> QED BY <1>1, <1>2, <1>3, <1>5 DEF t

\* A handler that has left stays where it was, for the chunk that may come.
LEMMA LeadsStopped ==
    ASSUME NEW S, NEW q \in Seq(S), Len(q) <= 1, NEW t, NEW n, NEW y, Leads(q, Stopped(t, n), y)
    PROVE  y = Stopped(t, n)
<1>1. PICK h : /\ h[0] = Stopped(t, n) /\ h[Len(q)] = y
               /\ \A k \in 1 .. Len(q) : h[k] = Told(h[k - 1], q[k])
  BY DEF Leads
<1>2. Len(q) = 0 \/ Len(q) = 1
  <2> DEFINE l == Len(q)
  <2>1. l \in Nat /\ l <= 1
    OBVIOUS
  <2> HIDE DEF l
  <2>2. l = 0 \/ l = 1
    BY <2>1
  <2> QED BY <2>2 DEF l
<1>3. CASE Len(q) = 0
  BY <1>1, <1>3
<1>4. CASE Len(q) = 1
  <2>1. h[1] = Told(h[1 - 1], q[1])
    BY <1>1, <1>4
  <2>2. h[1] = Told(Stopped(t, n), q[1])
    BY <1>1, <2>1
  <2> QED BY <1>1, <1>4, <2>2, ToldStopped
<1> QED BY <1>2, <1>3, <1>4

\* Two chunks one after the other.
LEMMA PairOfChunks ==
    ASSUME NEW S, NEW a \in S, NEW b \in S
    PROVE  /\ <<a>> \o <<b>> = <<a, b>> /\ <<a>> \o <<>> = <<a>>
           /\ <<>> \o <<b>> = <<b>> /\ <<>> \o <<>> = <<>>
<1>2. \A t \in Seq(S) : t \o <<>> = t /\ <<>> \o t = t
  OBVIOUS
<1>3. <<b>> \in Seq(S) /\ <<a>> \in Seq(S) /\ <<>> \in Seq(S) /\ <<a, b>> \in Seq(S)
  OBVIOUS
<1>4. \A t \in Seq(S) : Append(Append(t, a), b) = t \o <<a, b>>
  OBVIOUS
<1>5. \A t \in Seq(S) : Append(t, a) = t \o <<a>>
  OBVIOUS
<1>9. \A t \in Seq(S) : Append(t, b) = t \o <<b>>
  OBVIOUS
<1>6. Append(Append(<<>>, a), b) = <<a, b>>
  BY <1>2, <1>3, <1>4
<1>7. Append(<<>>, a) = <<a>>
  BY <1>2, <1>3, <1>5
<1>8. Append(<<a>>, b) = <<a>> \o <<b>>
  BY <1>3, <1>9
<1> QED BY <1>2, <1>3, <1>6, <1>7, <1>8

\* The events of a stream: a piece of text that is new is told once.
LEMMA StreamTells ==
    ASSUME NEW w \in {"openai", "gemini"}, NEW p,
           NEW e, e.text \in Seq(Nat), e.reason \in FinishReasons,
           NEW q \in Seq(AnsChunks), NEW x, NEW s \in Seq(Nat), NEW n, Leads(q, x, At(s, n))
    PROVE  Leads(q \o Chunks(w, e, p), x, At(s \o e.text, n))
<1> DEFINE d == e.text
           a == Chunk(d, e.reason, <<>>, FALSE)
           b == TextChunk(d)
           c == Chunk(<<>>, e.reason, <<>>, FALSE)
<1>1. a \in AnsChunks /\ b \in AnsChunks /\ c \in AnsChunks
  BY ChunkTypes DEF FinishReasons
<1>2. s \o d \in Seq(Nat) /\ (\A t \in Seq(Nat) : t \o <<>> = t)
  <2> HIDE DEF d
  <2>1. d \in Seq(Nat)
    BY DEF d
  <2> QED BY <2>1
<1>3. /\ Told(At(s, n), a) = At(s \o d, n) /\ Told(At(s, n), b) = At(s \o d, n)
      /\ Told(At(s, n), c) = At(s, n) /\ Told(At(s \o d, n), c) = At(s \o d, n)
  <2> DEFINE sd == s \o d
             why == e.reason
  <2>1. d \in Seq(Nat) /\ sd \in Seq(Nat)
    BY <1>2
  <2> HIDE DEF d, sd, why
  <2>2. /\ Told(At(s, n), Chunk(d, why, <<>>, FALSE)) = At(s \o d, n)
        /\ Told(At(s, n), TextChunk(d)) = At(s \o d, n)
    BY ONLY ToldWords
  <2>3. Told(At(sd, n), Chunk(<<>>, why, <<>>, FALSE)) = At(sd, n)
    BY ONLY <2>1, ToldNoWords
  <2>4. Told(At(s, n), Chunk(<<>>, why, <<>>, FALSE)) = At(s, n)
    BY ONLY s \in Seq(Nat), ToldNoWords
  <2> QED BY <2>2, <2>3, <2>4 DEF sd, why
<1>4. d = <<>> => s \o d = s
  BY <1>2
<1> HIDE DEF a, b, c
<1>5. /\ Leads(q \o <<>>, x, At(s, n)) /\ Leads(q \o <<a>>, x, At(s \o d, n))
      /\ Leads(q \o <<b>>, x, At(s \o d, n)) /\ Leads(q \o <<c>>, x, At(s, n))
      /\ Leads(q \o <<b, c>>, x, At(s \o d, n))
  <2>1. Leads(q \o <<>>, x, At(s, n)) /\ Leads(q \o <<a>>, x, At(s \o d, n))
    BY <1>1, <1>3, LeadsTwo
  <2>2. /\ Leads(q \o <<b>>, x, At(s \o d, n)) /\ Leads(q \o <<c>>, x, At(s, n))
        /\ Leads(q \o <<b, c>>, x, At(s \o d, n))
    BY <1>1, <1>3, LeadsTwo
  <2> QED BY <2>1, <2>2
<1>6. \/ Chunks(w, e, p) = <<>> /\ d = <<>>
      \/ Chunks(w, e, p) = <<a>>
      \/ Chunks(w, e, p) = <<b>>
      \/ Chunks(w, e, p) = <<c>> /\ d = <<>>
      \/ Chunks(w, e, p) = <<b, c>>
  <2>1. CASE w = "openai"
    <3>1. Chunks(w, e, p) = IF NoChoices(e) THEN <<>> ELSE <<a>>
      BY <2>1 DEF Chunks, OpenAIChunks, If, a
    <3>2. NoChoices(e) => d = <<>>
      BY DEF NoChoices
    <3> QED BY <3>1, <3>2
  <2>2. CASE w = "gemini"
    <3>1. Chunks(w, e, p) = (IF d # <<>> THEN <<b>> ELSE <<>>) \o (IF e.reason # "" THEN <<c>> ELSE <<>>)
      BY <2>2 DEF Chunks, GeminiChunks, If, b, c
    <3>2. <<b>> \o <<c>> = <<b, c>> /\ <<b>> \o <<>> = <<b>> /\ <<>> \o <<c>> = <<c>> /\ <<>> \o <<>> = <<>>
      BY <1>1, PairOfChunks
    <3> HIDE DEF d
    <3> QED BY <3>1, <3>2
  <2> QED BY <2>1, <2>2
<1> HIDE DEF d
<1>7. Leads(q \o Chunks(w, e, p), x, At(s \o d, n))
  BY <1>4, <1>5, <1>6
<1> QED BY <1>7 DEF d

LEMMA ResponsesTell ==
    ASSUME NEW p, NEW e, e.text \in Seq(Nat),
           NEW q \in Seq(AnsChunks), NEW x, NEW s \in Seq(Nat), NEW n, Leads(q, x, At(s, n)),
           p.sawText = TRUE <=> s # <<>>
    PROVE  Leads(q \o Chunks("responses", e, p), x,
                 At(IF e.type = "completed" /\ s # <<>> THEN s ELSE s \o e.text, n))
<1> DEFINE d == e.text
           b == TextChunk(d)
<1>1. b \in AnsChunks
  BY ChunkTypes
<1>2. d \in Seq(Nat) /\ (d = <<>> => s \o d = s)
  <2> HIDE DEF d
  <2>1. d \in Seq(Nat)
    BY DEF d
  <2> QED BY <2>1
<1>3. Chunks("responses", e, p) = IF d # <<>> /\ (e.type = "completed" => ~p.sawText) THEN <<b>> ELSE <<>>
  BY DEF Chunks, ResponsesChunks, If
<1>4. Told(At(s, n), b) = At(s \o d, n)
  BY ToldWords
<1> HIDE DEF b, d
<1>5. Leads(q \o <<>>, x, At(s, n)) /\ Leads(q \o <<b>>, x, At(s \o d, n))
  BY <1>1, <1>4, LeadsTwo
<1>6. CASE e.type = "completed" /\ s # <<>>
  <2>1. Chunks("responses", e, p) = <<>>
    BY <1>3, <1>6
  <2> QED BY <1>5, <1>6, <2>1
<1>7. CASE ~(e.type = "completed" /\ s # <<>>)
  <2>1. Chunks("responses", e, p) = IF d # <<>> THEN <<b>> ELSE <<>>
    BY <1>3, <1>7
  <2>2. Leads(q \o Chunks("responses", e, p), x, At(s \o d, n))
    BY <1>2, <1>5, <2>1
  <2> QED BY <1>7, <2>2 DEF d
<1> QED BY <1>6, <1>7

LEMMA DocumentTells ==
    ASSUME NEW w, w \notin Streamed, NEW p,
           NEW e, e.text \in Seq(Nat), e.reason \in FinishReasons, e.usage \in Reports,
           NEW q \in Seq(AnsChunks), NEW x, NEW s \in Seq(Nat), NEW n, Leads(q, x, At(s, n))
    PROVE  Leads(q \o Chunks(w, e, p), x,
                 At(s \o e.text, IF w = "openai_once" /\ NoChoices(e) THEN n ELSE Count(e.usage, n)))
<1> DEFINE d == e.text
           u == e.usage
           a == Chunk(d, e.reason, <<>>, FALSE)
           b == UsageChunk(u)
           c == Chunk(<<>>, "stop", <<>>, FALSE)
<1>1. a \in AnsChunks /\ b \in AnsChunks /\ c \in AnsChunks
  BY ChunkTypes DEF FinishReasons
<1>2. s \o d \in Seq(Nat) /\ s \o <<>> = s
  <2> HIDE DEF d
  <2>1. d \in Seq(Nat)
    BY DEF d
  <2> QED BY <2>1
<1>3. /\ Told(At(s, n), a) = At(s \o d, n) /\ Told(At(s, n), c) = At(s, n)
      /\ Told(At(s \o d, n), b) = At(s \o d, Count(u, n))
  <2> DEFINE sd == s \o d
             why == e.reason
             stop == "stop"
  <2>1. d \in Seq(Nat) /\ sd \in Seq(Nat)
    BY <1>2
  <2> HIDE DEF d, u, sd, why, stop
  <2>2. Told(At(s, n), Chunk(d, why, <<>>, FALSE)) = At(s \o d, n)
    BY ONLY ToldWords
  <2>3. Told(At(sd, n), UsageChunk(u)) = At(sd, Count(u, n))
    BY ONLY <2>1, ToldNoWords
  <2>4. Told(At(s, n), Chunk(<<>>, stop, <<>>, FALSE)) = At(s, n)
    BY ONLY s \in Seq(Nat), ToldNoWords
  <2> QED BY <2>2, <2>3, <2>4 DEF sd, why, stop
<1> HIDE DEF a, b, c
<1>4. /\ Leads(q \o <<c>>, x, At(s, n)) /\ Leads(q \o <<a>>, x, At(s \o d, n))
      /\ Leads(q \o <<a, b>>, x, At(s \o d, Count(u, n)))
  BY <1>1, <1>2, <1>3, LeadsTwo
<1>5. CASE w = "openai_once" /\ NoChoices(e)
  <2>1. Chunks(w, e, p) = <<c>>
    BY <1>5 DEF Chunks, c
  <2>2. d = <<>> /\ s \o d = s
    BY <1>2, <1>5 DEF NoChoices
  <2> HIDE DEF d
  <2> QED BY <1>4, <1>5, <2>1, <2>2 DEF d
<1>6. CASE ~(w = "openai_once" /\ NoChoices(e))
  <2>1. Chunks(w, e, p) = <<a>> \o (IF u # <<>> THEN <<b>> ELSE <<>>)
    BY <1>6 DEF Chunks, Streamed, DocumentChunks, If, a, b
  <2>2. <<a>> \o <<b>> = <<a, b>> /\ <<a>> \o <<>> = <<a>>
    BY <1>1, PairOfChunks
  <2> HIDE DEF d, u
  <2>3. CASE u # <<>>
    <3>1. Leads(q \o Chunks(w, e, p), x, At(s \o d, Count(u, n)))
      BY <1>4, <2>1, <2>2, <2>3
    <3> QED BY <1>6, <2>3, <3>1 DEF d, u
  <2>4. CASE u = <<>>
    <3>1. Leads(q \o Chunks(w, e, p), x, At(s \o d, Count(u, n)))
      BY <1>4, <2>1, <2>2, <2>4 DEF Count
    <3> QED BY <1>6, <2>4, <3>1 DEF d, u
  <2> QED BY <2>3, <2>4
<1> QED BY <1>5, <1>6

\* The end of the body: what the parser still has to say.
LEMMA LastTells ==
    ASSUME NEW w \in Streamed, NEW p, p.usage \in Reports, p.finish \in {"length", "stop"},
           NEW end \in {"end", "broken"},
           NEW q \in Seq(AnsChunks), NEW x, NEW s \in Seq(Nat), Leads(q, x, At(s, 0))
    PROVE  LET due == IF end = "broken" /\ w # "openai" THEN 0 ELSE Count(p.usage, 0)
               all == q \o LastChunks(w, p, end)
           IN Leads(all, x, At(s, due)) \/ Leads(all, x, Stopped(s, due))
<1> DEFINE m == Count(p.usage, 0)
           u == UsageChunk(p.usage)
           f == Chunk(<<>>, p.finish, p.usage, FALSE)
           k == ErrChunk
           due == IF end = "broken" /\ w # "openai" THEN 0 ELSE m
           last == LastChunks(w, p, end)
           Reaches(y) == Leads(q \o last, x, y)
<1>1. u \in AnsChunks /\ f \in AnsChunks /\ k \in AnsChunks
  BY ChunkTypes
<1>2. Told(At(s, 0), u) = At(s, m) /\ Told(At(s, 0), f) = At(s, m)
  <2> DEFINE v == p.usage
             why == p.finish
             n == 0
  <2> HIDE DEF v, why, n
  <2>1. Told(At(s, n), UsageChunk(v)) = At(s, Count(v, n))
    BY ONLY s \in Seq(Nat), ToldNoWords
  <2>2. Told(At(s, n), Chunk(<<>>, why, v, FALSE)) = At(s, Count(v, n))
    <3> DEFINE c == Chunk(<<>>, why, v, FALSE)
    <3>1. c.delta = <<>> /\ c.usage = v /\ c.err = FALSE
      BY DEF Chunk
    <3>2. s \o <<>> = s
      OBVIOUS
    <3> HIDE DEF c
    <3>3. Told(At(s, n), c) = At(s \o c.delta, Count(c.usage, n))
      BY <3>1, ToldMore
    <3> QED BY <3>1, <3>2, <3>3 DEF c
  <2> QED BY <2>1, <2>2 DEF v, why, n
<1>3. /\ Told(At(s, m), k) = Stopped(s, m) /\ Told(At(s, 0), k) = Stopped(s, 0)
      /\ Told(Stopped(s, 0), u) = Stopped(s, 0)
  BY ToldErr, ToldStopped
<1>4. p.usage = <<>> => m = 0
  BY DEF Count
<1> HIDE DEF m, u, f, k
<1>5. /\ Leads(q \o <<>>, x, At(s, 0)) /\ Leads(q \o <<u>>, x, At(s, m)) /\ Leads(q \o <<f>>, x, At(s, m))
      /\ Leads(q \o <<k>>, x, Stopped(s, 0))
      /\ Leads(q \o <<u, k>>, x, Stopped(s, m)) /\ Leads(q \o <<k, u>>, x, Stopped(s, 0))
  <2>1. /\ Leads(q \o <<>>, x, At(s, 0)) /\ Leads(q \o <<u>>, x, At(s, m))
        /\ Leads(q \o <<u, k>>, x, Stopped(s, m))
    BY <1>1, <1>2, <1>3, LeadsTwo
  <2>2. Leads(q \o <<k>>, x, Stopped(s, 0)) /\ Leads(q \o <<k, u>>, x, Stopped(s, 0))
    BY <1>1, <1>2, <1>3, LeadsTwo
  <2>3. Leads(q \o <<f>>, x, At(s, m))
    BY <1>1, <1>2, LeadsTwo
  <2> QED BY <2>1, <2>2, <2>3
<1>6. /\ <<u>> \o <<k>> = <<u, k>> /\ <<u>> \o <<>> = <<u>> /\ <<>> \o <<k>> = <<k>> /\ <<>> \o <<>> = <<>>
      /\ <<k>> \o <<u>> = <<k, u>> /\ <<k>> \o <<>> = <<k>> /\ <<>> \o <<u>> = <<u>>
  BY <1>1, PairOfChunks
<1>7. CASE w = "openai"
  <2>1. last = (IF p.usage # <<>> THEN <<u>> ELSE <<>>) \o (IF end = "broken" THEN <<k>> ELSE <<>>)
    BY <1>7 DEF LastChunks, If, u, k
  <2>2. due = m
    BY <1>7
  <2> HIDE DEF last, due
  <2>3. Reaches(At(s, due)) \/ Reaches(Stopped(s, due))
    BY <1>4, <1>5, <1>6, <2>1, <2>2
  <2> QED BY <2>3 DEF last, due, m
<1>8. CASE w = "gemini"
  <2>1. last = (IF end = "broken" THEN <<k>> ELSE <<>>) \o (IF p.usage # <<>> THEN <<u>> ELSE <<>>)
    BY <1>8 DEF LastChunks, If, u, k
  <2>2. due = IF end = "broken" THEN 0 ELSE m
    BY <1>8
  <2> HIDE DEF last, due
  <2>3. Reaches(At(s, due)) \/ Reaches(Stopped(s, due))
    BY <1>4, <1>5, <1>6, <2>1, <2>2
  <2> QED BY <2>3 DEF last, due, m
<1>9. CASE w = "responses"
  <2>1. last = IF end = "broken" THEN <<k>> ELSE <<f>>
    BY <1>9 DEF LastChunks, f, k
  <2>2. due = IF end = "broken" THEN 0 ELSE m
    BY <1>9
  <2> HIDE DEF last, due
  <2>3. Reaches(At(s, due)) \/ Reaches(Stopped(s, due))
    BY <1>5, <2>1, <2>2
  <2> QED BY <2>3 DEF last, due, m
<1> QED BY <1>7, <1>8, <1>9 DEF Streamed

LEMMA DocumentEnds ==
    ASSUME NEW w, w \notin Streamed, NEW p, NEW end,
           NEW q \in Seq(AnsChunks), NEW x, NEW s, NEW n, Leads(q, x, At(s, n))
    PROVE  LET all == q \o LastChunks(w, p, end)
           IN Leads(all, x, At(s, n)) \/ Leads(all, x, Stopped(s, n))
<1> DEFINE k == ErrChunk
<1>1. k \in AnsChunks
  BY ChunkTypes
<1>2. Told(At(s, n), k) = Stopped(s, n)
  BY ToldErr
<1>3. LastChunks(w, p, end) = IF end = "broken" THEN <<k>> ELSE <<>>
  BY DEF LastChunks, If, Streamed
<1> HIDE DEF k
<1>4. Leads(q \o <<>>, x, At(s, n)) /\ Leads(q \o <<k>>, x, Stopped(s, n))
  BY <1>1, <1>2, LeadsTwo
<1> QED BY <1>3, <1>4

\* A push and a take leave what is still to come in its order.
LEMMA PendingMoves ==
    ASSUME NEW c \in Seq(AnsChunks), NEW o \in Seq(AnsChunks)
    PROVE  /\ c \o o \in Seq(AnsChunks)
           /\ o # <<>> => Append(c, Head(o)) \o Tail(o) = c \o o
           /\ c # <<>> => /\ c \o o # <<>> /\ Head(c \o o) = Head(c)
                          /\ Tail(c \o o) = Tail(c) \o o /\ Len(Tail(c \o o)) = Len(Tail(c)) + Len(o)
           /\ o = <<>> => c \o o = c
<1>1. c \o o \in Seq(AnsChunks) /\ (o = <<>> => c \o o = c)
  OBVIOUS
<1>2. c # <<>> => c \o o # <<>> /\ Head(c \o o) = Head(c) /\ Tail(c \o o) = Tail(c) \o o
  OBVIOUS
<1>3. c # <<>> => Len(Tail(c \o o)) = Len(Tail(c)) + Len(o)
  OBVIOUS
<1>4. o # <<>> => Append(c, Head(o)) \o Tail(o) = c \o o
  OBVIOUS
<1> QED BY <1>1, <1>2, <1>3, <1>4

\* What is due is what CountedTokens names.
LEMMA DueCounted ==
    ASSUME aSent \in AnsSents
    PROVE  /\ Due(aSent, aCall) \in Nat
           /\ Reported => Due(aSent, aCall) # 0 /\ Due(aSent, aCall) = aSent.usage[1]
           /\ ~Reported => Due(aSent, aCall) = 0
<1>1. aSent.usage = <<>> \/ \E c \in Nat : aSent.usage = <<c>>
  BY AnswerFields, ChannelAnswerAssumption DEF Reports
<1>2. aSent.usage # <<>> => aSent.usage[1] \in Nat
  BY <1>1
<1> QED BY <1>2 DEF Due, Reported, Count

LEMMA Leaving ==
    ASSUME AnswerShape, aTaker.text = aSent.text, aTaker.tokens = Due(aSent, aCall),
           aTaker' = Leave(aTaker), aSent' = aSent, aCall' = aCall
    PROVE  (WholeText /\ CountedTokens)'
<1>1. aTaker \in AnsTakers /\ aSent \in AnsSents
  BY DEF AnswerShape
<1> DEFINE n == IF aTaker.tokens = 0 THEN Estimate(aTaker.text) ELSE aTaker.tokens
<1>2. aTaker' = [aTaker EXCEPT !.pc = "done", !.tokens = n]
  BY DEF Leave
<1> HIDE DEF n
<1>3. aTaker'.text = aTaker.text /\ aTaker'.tokens = n
  BY <1>1, <1>2 DEF AnsTakers
<1>4. n = IF Reported THEN aSent.usage[1] ELSE Estimate(aSent.text)
  BY <1>1, DueCounted DEF n
<1>5. WholeText'
  BY <1>3 DEF WholeText
<1>6. CountedTokens'
  BY <1>3, <1>4 DEF CountedTokens, Reported
<1> QED BY <1>5, <1>6

LEMMA ToldStarts ==
    ASSUME AnswerInv, AnswerTold, OpenAIChat \/ GeminiChat PROVE AnswerTold'
<1>1. PICK w \in Streamed \cup {"openai_once", "responses_once", "gemini_once"} : Starts(w)
  BY DEF OpenAIChat, GeminiChat, Streamed
<1>2. /\ aCall = "none"
      /\ aParser' = [aParser EXCEPT !.pc = "read"] /\ aTaker' = [aTaker EXCEPT !.pc = "take"]
      /\ aChan' = aChan /\ aSent' = aSent
  BY <1>1 DEF Starts
<1>3. aParser \in AnsParsers /\ aTaker \in AnsTakers /\ aParser.pc = "none" /\ aParser.out = <<>>
  BY <1>2 DEF AnswerInv, AnswerShape
<1>4. /\ aParser'.pc = "read" /\ aParser'.out = aParser.out
      /\ aParser'.usage = aParser.usage /\ aParser'.sawText = aParser.sawText
  BY <1>2, <1>3 DEF AnsParsers
<1>5. aTaker'.pc = "take" /\ aTaker'.text = aTaker.text /\ aTaker'.tokens = aTaker.tokens
  BY <1>2, <1>3 DEF AnsTakers
<1>6. /\ aSent.events = 0 /\ aSent.end = "" /\ aParser.usage = <<>> /\ aParser.sawText = FALSE
      /\ aChan = <<>> /\ aTaker.text = <<>> /\ aTaker.tokens = 0
      /\ aSent.text = <<>> /\ aSent.usage = <<>> /\ aSent.reason = ""
  BY <1>3 DEF AnswerTold
<1>7. Pending' = <<>>
  <2>1. <<>> \o <<>> = <<>>
    OBVIOUS
  <2>2. Pending' = aChan' \o aParser'.out
    BY DEF Pending
  <2>3. aChan' = <<>> /\ aParser'.out = <<>>
    BY <1>2, <1>3, <1>4, <1>6
  <2> QED BY ONLY <2>1, <2>2, <2>3
<1>8. Now' = At(<<>>, 0)
  BY <1>5, <1>6 DEF Now
<1>9. Due(aSent, aCall)' = 0
  BY <1>2, <1>6 DEF Due, Count
<1>10. Leads(Pending', Now', At(<<>>, 0))
  BY <1>7, <1>8, LeadsNowhere
<1> QED BY <1>2, <1>4, <1>5, <1>6, <1>9, <1>10 DEF AnswerTold

LEMMA ToldParses ==
    ASSUME AnswerInv, AnswerTold, NEW e0 \in Event, ParseEvent(e0) PROVE AnswerTold'
<1>0. /\ aSent \in AnsSents /\ aParser \in AnsParsers /\ aChan \in Seq(AnsChunks) /\ aTaker \in AnsTakers
      /\ aParser.pc = "read" /\ aTaker.pc # "done"
      /\ UNCHANGED <<aCall, aChan, aTaker>>
      /\ aParser.out = <<>>
  BY DEF ParseEvent, AnswerInv, AnswerShape, ErrorsLast
<1>1. /\ aSent.text \in Seq(Nat) /\ aSent.usage \in Reports /\ aSent.reason \in FinishReasons
      /\ aSent.events \in Nat /\ Len(aSent.text) \in Nat
  BY <1>0, AnswerFields
<1>2. /\ aParser.usage = aSent.usage /\ aSent.end = ""
      /\ aParser.sawText = TRUE <=> aSent.text # <<>>
  BY <1>0 DEF AnswerTold
<1> DEFINE e == Carried(e0)
           more == Chunks(aCall, e, aParser)
           full == e.type = "completed"
           t == IF full /\ aSent.text # <<>> THEN aSent.text ELSE aSent.text \o e.text
           u == IF e.usage # <<>> \/ full THEN e.usage ELSE aSent.usage
           r == IF e.reason # "" \/ full THEN e.reason ELSE aSent.reason
           pu == IF e.usage # <<>> \/ full THEN e.usage ELSE aParser.usage
           b == aParser.sawText \/ e.text # <<>>
           f == IF ~full THEN aParser.finish ELSE IF e.reason = "" THEN "stop" ELSE e.reason
           n == aSent.events + 1
<1>3. /\ e0 \in [type : {"data", "completed", "whole"}, text : {<<>>, <<Len(aSent.text) + 1>>},
                 reason : FinishReasons, usage : Reports]
  BY DEF Event
<1>4. /\ e.text = IF e0.type = "completed" /\ aSent.text # <<>> THEN aSent.text ELSE e0.text
      /\ e.reason = e0.reason /\ e.usage = e0.usage /\ e.type = e0.type
  BY <1>3 DEF Carried
<1>5. e0.text \in Seq(Nat) /\ e0.reason \in FinishReasons /\ e0.usage \in Reports
  <2> DEFINE m == Len(aSent.text)
  <2>1. m \in Nat
    BY <1>1
  <2> HIDE DEF m
  <2>2. <<m + 1>> \in Seq(Nat) /\ <<>> \in Seq(Nat)
    BY <2>1
  <2>3. e0.text \in {<<>>, <<m + 1>>}
    BY <1>3 DEF m
  <2> QED BY <1>3, <2>2, <2>3
<1>6. e.text \in Seq(Nat) /\ e.reason \in FinishReasons /\ e.usage \in Reports
  BY <1>1, <1>4, <1>5
<1>7. Sends(aCall, e0)
  BY DEF ParseEvent
<1>8. aSent' = [aSent EXCEPT !.events = n, !.text = t, !.usage = u, !.reason = r]
  BY DEF ParseEvent, e
<1>9. aParser' = [aParser EXCEPT !.out = more, !.usage = pu, !.sawText = b, !.finish = f]
  BY DEF ParseEvent, e, more
<1> HIDE DEF e, more, n, f
<1>10. /\ aSent'.events = n /\ aSent'.text = t /\ aSent'.usage = u /\ aSent'.reason = r
       /\ aSent'.end = ""
  <2> HIDE DEF t, u, r
  <2> QED BY <1>0, <1>2, <1>8 DEF AnsSents
<1>11. /\ aParser'.pc = "read" /\ aParser'.out = more /\ aParser'.usage = pu
       /\ aParser'.sawText = b
  <2> HIDE DEF pu, b
  <2> QED BY <1>0, <1>9 DEF AnsParsers
<1>12. n # 0
  <2> DEFINE m == aSent.events
  <2>1. m \in Nat
    BY <1>1
  <2> HIDE DEF m
  <2>2. m + 1 # 0
    BY <2>1
  <2> QED BY <2>2 DEF m, n
<1>13. u = pu /\ (b = TRUE <=> t # <<>>)
  <2>1. b = TRUE <=> aSent.text # <<>> \/ e.text # <<>>
    BY <1>2
  <2>2. aSent.text \o e.text = <<>> <=> aSent.text = <<>> /\ e.text = <<>>
    <3> DEFINE had == aSent.text
               new == e.text
    <3>1. had \in Seq(Nat) /\ new \in Seq(Nat)
      BY <1>1, <1>6
    <3> HIDE DEF had, new
    <3>2. had \o new = <<>> <=> had = <<>> /\ new = <<>>
      BY <3>1
    <3> QED BY <3>2 DEF had, new
  <2> HIDE DEF b
  <2> QED BY <1>2, <2>1, <2>2
<1>14. ASSUME aTaker.pc = "take"
       PROVE  Leads(aChan \o more, Now, At(t, IF aCall \in Streamed THEN 0 ELSE Due(aSent', aCall)))
  <2>1. Leads(aChan, Now, At(aSent.text, IF aCall \in Streamed THEN 0 ELSE Due(aSent, aCall)))
    <3>1. Pending = aChan
      BY <1>0, PendingMoves DEF Pending
    <3> QED BY <1>0, <1>14, <3>1 DEF AnswerTold
  <2>2. CASE aCall \in {"openai", "gemini"}
    <3>1. e.type # "completed" /\ aCall \in Streamed
      BY <1>4, <1>7, <2>2 DEF Sends, Streamed
    <3>2. t = aSent.text \o e.text
      BY <3>1
    <3>3. Leads(aChan \o more, Now, At(aSent.text \o e.text, 0))
      BY <1>0, <1>1, <1>6, <2>1, <2>2, <3>1, StreamTells DEF more
    <3> QED BY <3>1, <3>2, <3>3
  <2>3. CASE aCall = "responses"
    <3>1. aCall \in Streamed
      BY <2>3 DEF Streamed
    <3>2. Leads(aChan \o Chunks("responses", e, aParser), Now, At(t, 0))
      BY <1>0, <1>1, <1>2, <1>6, <2>1, <3>1, ResponsesTell
    <3> QED BY <2>3, <3>1, <3>2 DEF more
  <2>4. CASE aCall \notin Streamed
    <3>1. e.type = "whole" /\ aSent.events = 0
      BY <1>4, <1>7, <2>4 DEF Sends, Streamed
    <3>2. aSent.text = <<>> /\ aSent.usage = <<>> /\ aSent.reason = ""
      BY <3>1 DEF AnswerTold
    <3>3. t = aSent.text \o e.text /\ u = e.usage /\ r = e.reason
      BY <3>1, <3>2
    <3>4. aSent.text \o e.text = e.text
      <4>1. \A s \in Seq(Nat) : <<>> \o s = s
        OBVIOUS
      <4> QED BY <1>6, <3>2, <4>1
    <3>5. Due(aSent, aCall) = 0
      BY <3>2 DEF Due, Count
    <3>6. Due(aSent', aCall) = IF aCall = "openai_once" /\ NoChoices(e) THEN 0 ELSE Count(e.usage, 0)
      <4>1. aSent'.text = e.text /\ aSent'.usage = e.usage /\ aSent'.reason = e.reason /\ aSent'.end = ""
        BY <1>10, <3>3, <3>4
      <4> QED BY <4>1 DEF Due, NoChoices
    <3>7. Leads(aChan, Now, At(aSent.text, 0))
      BY <2>1, <2>4, <3>5
    <3>8. Leads(aChan \o more, Now,
                At(aSent.text \o e.text, IF aCall = "openai_once" /\ NoChoices(e) THEN 0 ELSE Count(e.usage, 0)))
      BY <1>0, <1>1, <1>6, <2>4, <3>7, DocumentTells DEF more
    <3> QED BY <2>4, <3>3, <3>6, <3>8
  <2> QED BY <2>2, <2>3, <2>4 DEF Streamed
<1>15. Pending' = aChan \o more /\ Now' = Now
  BY <1>0, <1>11 DEF Pending, Now
<1> HIDE DEF t, u, r, pu, b
<1> QED BY <1>0, <1>10, <1>11, <1>12, <1>13, <1>14, <1>15 DEF AnswerTold

LEMMA ToldEnds ==
    ASSUME AnswerInv, AnswerTold, NEW end \in {"end", "broken"}, ParseEnd(end) PROVE AnswerTold'
<1> DEFINE more == LastChunks(aCall, aParser, end)
<1>0. /\ aSent \in AnsSents /\ aParser \in AnsParsers /\ aChan \in Seq(AnsChunks) /\ aTaker \in AnsTakers
      /\ aParser.pc = "read" /\ aTaker.pc # "done" /\ aParser.out = <<>>
      /\ aCall \in Streamed \/ (end = "broken" <=> aSent.events = 0)
      /\ aSent' = [aSent EXCEPT !.end = end]
      /\ aParser' = [aParser EXCEPT !.pc = "last", !.out = more]
      /\ UNCHANGED <<aCall, aChan, aTaker>>
  BY DEF ParseEnd, AnswerInv, AnswerShape, ErrorsLast
<1>1. /\ aSent.text \in Seq(Nat) /\ aSent.usage \in Reports
      /\ aParser.usage \in Reports /\ aParser.finish \in {"length", "stop"}
  BY <1>0, AnswerFields
<1>2. /\ aParser.usage = aSent.usage /\ aSent.end = ""
      /\ aSent.events = 0 => aSent.text = <<>> /\ aSent.usage = <<>> /\ aSent.reason = ""
  BY <1>0 DEF AnswerTold
<1>3. /\ aSent'.events = aSent.events /\ aSent'.text = aSent.text /\ aSent'.usage = aSent.usage
      /\ aSent'.reason = aSent.reason /\ aSent'.end = end
  BY <1>0 DEF AnsSents
<1> HIDE DEF more
<1>4. aParser'.pc = "last" /\ aParser'.out = more
  BY <1>0 DEF AnsParsers
<1>5. ASSUME aTaker.pc = "take"
      PROVE  \/ Leads(aChan \o more, Now, At(aSent.text, Due(aSent', aCall)))
             \/ Leads(aChan \o more, Now, Stopped(aSent.text, Due(aSent', aCall)))
  <2>1. Leads(aChan, Now, At(aSent.text, IF aCall \in Streamed THEN 0 ELSE Due(aSent, aCall)))
    <3>1. Pending = aChan
      BY <1>0, PendingMoves DEF Pending
    <3> QED BY <1>0, <1>5, <3>1 DEF AnswerTold
  <2>2. CASE aCall \in Streamed
    <3>1. Due(aSent', aCall) = IF end = "broken" /\ aCall # "openai" THEN 0 ELSE Count(aParser.usage, 0)
      BY <1>2, <1>3, <2>2 DEF Due, Streamed
    <3>2. Leads(aChan, Now, At(aSent.text, 0))
      BY <2>1, <2>2
    <3> QED BY <1>0, <1>1, <2>2, <3>1, <3>2, LastTells DEF more
  <2>3. CASE aCall \notin Streamed
    <3>1. Due(aSent', aCall) = Due(aSent, aCall)
      <4>1. CASE end = "broken"
        <5>1. aSent.usage = <<>> /\ aSent'.usage = <<>>
          BY <1>0, <1>2, <1>3, <2>3, <4>1
        <5> QED BY <5>1 DEF Due, Count
      <4>2. CASE end = "end"
        BY <1>2, <1>3, <4>2 DEF Due, NoChoices
      <4> QED BY <4>1, <4>2
    <3>2. Leads(aChan, Now, At(aSent.text, Due(aSent, aCall)))
      BY <2>1, <2>3
    <3> QED BY <1>0, <2>3, <3>1, <3>2, DocumentEnds DEF more
  <2> QED BY <2>2, <2>3
<1>6. Pending' = aChan \o more /\ Now' = Now
  BY <1>0, <1>4 DEF Pending, Now
<1> QED BY <1>0, <1>2, <1>3, <1>4, <1>5, <1>6 DEF AnswerTold

LEMMA ToldPushes ==
    ASSUME AnswerInv, AnswerTold, PushChunk \/ Close PROVE AnswerTold'
<1>0. /\ aParser \in AnsParsers /\ aChan \in Seq(AnsChunks) /\ UNCHANGED <<aCall, aSent, aTaker>>
      /\ aParser.out \in Seq(AnsChunks) /\ (aParser.pc \in {"none", "closed"} => aParser.out = <<>>)
  BY AnswerFields DEF PushChunk, Close, AnswerInv, AnswerShape
<1>1. Now' = Now /\ (WholeText /\ CountedTokens <=> (WholeText /\ CountedTokens)')
  BY <1>0 DEF Now, WholeText, CountedTokens, Reported
<1>2. CASE PushChunk
  <2> DEFINE o == aParser.out
             chan == Append(aChan, Head(o))
             rest == Tail(o)
  <2>1. /\ o # <<>> /\ aChan' = chan /\ aParser' = [aParser EXCEPT !.out = rest]
    BY <1>2 DEF PushChunk
  <2>2. chan \o rest = aChan \o o
    BY <1>0, <2>1, PendingMoves
  <2> HIDE DEF chan, rest
  <2>3. /\ aParser'.pc = aParser.pc /\ aParser'.out = rest
        /\ aParser'.usage = aParser.usage /\ aParser'.sawText = aParser.sawText
    BY <1>0, <2>1 DEF AnsParsers
  <2>4. Pending' = Pending
    BY <2>1, <2>2, <2>3 DEF Pending
  <2>5. aParser.pc # "none"
    BY <1>0, <2>1
  <2> QED BY <1>0, <1>1, <2>3, <2>4, <2>5 DEF AnswerTold
<1>3. CASE Close
  <2>1. aParser.pc = "last" /\ aParser' = [aParser EXCEPT !.pc = "closed"] /\ aChan' = aChan
    BY <1>3 DEF Close
  <2>2. aParser'.pc = "closed" /\ aParser'.out = aParser.out
    BY <1>0, <2>1 DEF AnsParsers
  <2>3. Pending' = Pending
    BY <2>1, <2>2 DEF Pending
  <2> QED BY <1>0, <1>1, <2>1, <2>2, <2>3 DEF AnswerTold
<1> QED BY <1>2, <1>3

LEMMA ToldTakes ==
    ASSUME AnswerInv, AnswerTold, TakeChunk \/ TakeClosed PROVE AnswerTold'
<1>0. /\ aTaker \in AnsTakers /\ aTaker.pc = "take" /\ aChan \in Seq(AnsChunks)
      /\ UNCHANGED <<aCall, aSent, aParser>>
      /\ aParser.out \in Seq(AnsChunks) /\ aParser.pc \in {"none", "read", "last", "closed"}
      /\ AnswerShape
  BY AnswerFields DEF AnswerInv, AnswerShape, TakeChunk, TakeClosed
<1>1. aParser.pc # "none"
  BY <1>0 DEF AnswerTold
<1>2. Leave(aTaker).pc = "done"
  BY <1>0, LeaveTypes
<1> DEFINE t == aSent.text
           n == Due(aSent, aCall)
           Reaches(p, y) == Leads(p, y, At(t, n)) \/ Leads(p, y, Stopped(t, n))
           Early(p, y) == Leads(p, y, At(t, IF aCall \in Streamed THEN 0 ELSE n))
<1>3. /\ aParser.pc = "read" => Early(Pending, Now)
      /\ aParser.pc # "read" => Reaches(Pending, Now)
  BY <1>0, <1>1 DEF AnswerTold
\* At an error, or when the channel is closed, everything has been told.
<1>4. ASSUME aTaker' = Leave(aTaker), aTaker.text = t, aTaker.tokens = n, aParser.pc \in {"last", "closed"}
      PROVE  AnswerTold'
  <2>1. (WholeText /\ CountedTokens)'
    BY <1>0, <1>4, Leaving
  <2>2. aTaker'.pc = "done"
    BY <1>2, <1>4
  <2> QED BY <1>0, <1>1, <1>4, <2>1, <2>2 DEF AnswerTold
<1>5. CASE TakeChunk
  <2> DEFINE k == Head(aChan)
             o == aParser.out
  <2>1. /\ aChan # <<>> /\ aChan' = Tail(aChan)
        /\ aTaker' = IF k.err THEN Leave(aTaker)
                     ELSE [aTaker EXCEPT !.tokens = IF k.usage # <<>> THEN k.usage[1] ELSE @,
                                         !.text = @ \o k.delta,
                                         !.finish = IF k.finish # "" THEN k.finish ELSE @]
    BY <1>5 DEF TakeChunk
  <2>2. /\ Pending \in Seq(AnsChunks) /\ Pending # <<>> /\ Head(Pending) = k
        /\ Tail(Pending) = Tail(aChan) \o o /\ Len(Tail(Pending)) = Len(Tail(aChan)) + Len(o)
        /\ Tail(Pending) \in Seq(AnsChunks)
    <3>1. Tail(aChan) \in Seq(AnsChunks)
      BY <1>0, <2>1
    <3> QED BY <1>0, <2>1, <3>1, PendingMoves DEF Pending
  <2>3. k \in AnsChunks /\ k.err \in BOOLEAN
    <3>1. k \in AnsChunks
      BY <1>0, <2>1, TakeFacts, 0 \in Nat
    <3> QED BY <3>1, AnswerFields
  <2>4. k.err = TRUE => aParser.pc \notin {"none", "read"} /\ Len(Tail(Pending)) <= 1
    <3> DEFINE rest == Len(o)
    <3>1. rest \in Nat
      BY <1>0, AnswerFields
    <3>2. /\ ErrLate(aChan, rest)
          /\ aParser.pc \in {"none", "read"} => NoErr(aChan)
      BY <1>0 DEF AnswerInv, ErrorsLast
    <3> HIDE DEF rest
    <3>3. k.err = TRUE => aParser.pc \notin {"none", "read"} /\ Len(Tail(aChan)) + rest <= 1
      BY <1>0, <2>1, <3>1, <3>2, TakeFacts
    <3> QED BY <2>2, <3>3 DEF rest
  <2> DEFINE y == Told(Now, k)
  <2>5. /\ aParser.pc = "read" => Early(Tail(Pending), y)
        /\ aParser.pc # "read" => Reaches(Tail(Pending), y)
    BY <1>3, <2>2, LeadsOn
  <2>6. CASE k.err = TRUE
    <3>1. y = Stopped(aTaker.text, aTaker.tokens)
      BY <2>6, ToldErrors DEF Now
    <3>2. Reaches(Tail(Pending), Stopped(aTaker.text, aTaker.tokens))
      BY <2>4, <2>5, <2>6, <3>1
    <3>3. At(t, n) = Stopped(aTaker.text, aTaker.tokens) \/ Stopped(t, n) = Stopped(aTaker.text, aTaker.tokens)
      <4> DEFINE p == Tail(Pending)
                 a == aTaker.text
                 b == aTaker.tokens
                 y1 == At(t, n)
                 y2 == Stopped(t, n)
      <4>1. p \in Seq(AnsChunks) /\ Len(p) <= 1
        BY <2>2, <2>4, <2>6
      <4>2. Leads(p, Stopped(a, b), y1) \/ Leads(p, Stopped(a, b), y2)
        BY <3>2
      <4> HIDE DEF p, a, b, y1, y2
      <4>3. y1 = Stopped(a, b) \/ y2 = Stopped(a, b)
        BY ONLY <4>1, <4>2, LeadsStopped
      <4> QED BY <4>3 DEF a, b, y1, y2
    <3>4. aTaker.text = t /\ aTaker.tokens = n
      BY <3>3, Apart
    <3> QED BY <1>0, <1>4, <2>1, <2>4, <2>6, <3>4
  <2>7. CASE k.err = FALSE
    <3> DEFINE x == aTaker.text
               z == k.delta
               s == x \o z
               f == IF k.finish # "" THEN k.finish ELSE aTaker.finish
               m == IF k.usage # <<>> THEN k.usage[1] ELSE aTaker.tokens
    <3>1. aTaker' = [aTaker EXCEPT !.tokens = m, !.text = s, !.finish = f]
      BY <2>1, <2>7
    <3>2. y = At(s, Count(k.usage, aTaker.tokens))
      BY <2>7, ToldMore DEF Now
    <3>3. Count(k.usage, aTaker.tokens) = m
      BY DEF Count
    <3> HIDE DEF s, f, m
    <3>4. aTaker'.pc = "take" /\ aTaker'.text = s /\ aTaker'.tokens = m
      BY <1>0, <3>1 DEF AnsTakers
    <3>5. Now' = y
      BY <3>2, <3>3, <3>4 DEF Now
    <3>6. Pending' = Tail(Pending)
      BY <1>0, <2>1, <2>2 DEF Pending
    <3> HIDE DEF y
    <3> QED BY <1>0, <1>1, <2>5, <3>4, <3>5, <3>6 DEF AnswerTold
  <2> QED BY <2>3, <2>6, <2>7
<1>6. CASE TakeClosed
  <2>1. aTaker' = Leave(aTaker) /\ aChan' = aChan /\ aChan = <<>> /\ aParser.pc = "closed"
    BY <1>6 DEF TakeClosed
  <2>2. aParser.out = <<>>
    BY <1>0, <2>1 DEF AnswerShape
  <2>3. Pending = <<>>
    BY <1>0, <2>1, <2>2, PendingMoves DEF Pending
  <2>4. Reaches(<<>>, Now)
    BY <1>3, <2>1, <2>3
  <2>5. Now = At(t, n) \/ Now = Stopped(t, n)
    BY <2>4, LeadsNowhere
  <2>6. aTaker.text = t /\ aTaker.tokens = n
    BY <2>5, Apart DEF Now
  <2> QED BY <1>4, <2>1, <2>6
<1> QED BY <1>5, <1>6

LEMMA ToldStart == ASSUME AInit PROVE AnswerTold
BY DEF AInit, AnswerTold

LEMMA ToldStep == AnswerInv /\ AnswerTold /\ [ANext]_aVars => AnswerTold'
<1> SUFFICES ASSUME AnswerInv, AnswerTold, [ANext]_aVars PROVE AnswerTold'
  OBVIOUS
<1>1. CASE UNCHANGED <<aCall, aSent, aParser, aChan, aTaker>>
  BY <1>1 DEF AnswerTold, Pending, Now, WholeText, CountedTokens, Reported
<1>2. CASE ANext
  <2>1. \/ OpenAIChat \/ GeminiChat
        \/ (\E e \in Event : ParseEvent(e))
        \/ (\E end \in {"end", "broken"} : ParseEnd(end))
        \/ PushChunk \/ Close
        \/ TakeChunk \/ TakeClosed
        \/ UNCHANGED <<aCall, aSent, aParser, aChan, aTaker>>
    BY <1>2 DEF ANext, ImageGenerate, ImagesEndpoint, Imagen, GeminiImage, ImageDocument, ImageRefused,
                ImageEvent, ImageEnds
  <2> QED BY <1>1, <2>1, ToldStarts, ToldParses, ToldEnds, ToldPushes, ToldTakes
<1> QED BY <1>1, <1>2 DEF aVars

LEMMA AnswerToldSound == AnswerInv /\ AnswerTold => AnswerExact
<1> SUFFICES ASSUME AnswerInv, AnswerTold PROVE AnswerExact
  OBVIOUS
<1>1. WholeText /\ CountedTokens
  BY DEF AnswerTold, WholeText, CountedTokens
<1> QED BY <1>1, AnswerInvSound DEF AnswerExact

\* The user gets every piece the channel sent, once and in order, and is
\* charged the count it reported, or an estimate: the chunks under way, taken
\* one by one, always lead from what the handler has to what was sent.
THEOREM AnswerStaysExact == ASpec => []AnswerExact
<1>1. AInit => AnswerInv /\ AnswerTold
  BY AnswerStart, ToldStart
<1>2. AnswerInv /\ AnswerTold /\ [ANext]_aVars => (AnswerInv /\ AnswerTold)'
  BY AnswerStep, ToldStep
<1>3. AnswerInv /\ AnswerTold => AnswerExact
  BY AnswerToldSound
<1> QED BY <1>1, <1>2, <1>3, PTL DEF ASpec

-----------------------------------------------------------------------------
(* All of these, as the run of MCDelivery takes them.                      *)

\* What is said above of a conversation, a chat, its text and a channel's
\* answer holds of every behaviour of MCDelivery: a step of another component
\* leaves them alone.
THEOREM DeliveryAnswers == DeliverySpec => [](AnswerSound /\ PollSound)
<1> DEFINE Inv == PollInv /\ RefsOwn /\ ChatInv /\ DeltaInv /\ AnswerInv /\ AnswerTold
<1>1. DeliveryInit => Inv
  BY ChatStart, PollStart, RefsStart, DeltaStart, AnswerStart, ToldStart DEF DeliveryInit
<1>2. Inv /\ [DeliveryNext]_deliveryVars => Inv'
  <2>1. [DeliveryNext]_deliveryVars => [SNext]_sVars /\ [PollNext]_iVars /\ [DNext]_dVars /\ [ANext]_aVars
    BY DEF DeliveryNext, deliveryVars, Drawing, Chatting, Patching, Polling, Adapting, Storing, BackingUp,
           Setting, Reading
  <2> QED BY <2>1, ChatStep, PollStep, RefsStep, DeltaStep, AnswerStep, ToldStep
<1>3. Inv => AnswerSound /\ PollSound
  <2>1. PollInv /\ RefsOwn => PollSound
    BY RefsOwnSound DEF PollInv, PollSound
  <2>2. DeltaInv => TextExact
    BY DEF DeltaInv
  <2>3. ChatInv => ChatSound
    BY DEF ChatInv
  <2>4. AnswerInv /\ AnswerTold => AnswerExact
    BY AnswerToldSound
  <2> QED BY <2>1, <2>2, <2>3, <2>4 DEF AnswerSound
<1> HIDE DEF Inv
<1> QED BY <1>1, <1>2, <1>3, PTL DEF DeliverySpec
=============================================================================
