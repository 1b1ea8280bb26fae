-------------------------- MODULE NpuServer_proofs --------------------------
(***************************************************************************)
(* What holds of npu-server for any number of requests and permits: the    *)
(* types of its control, that no permit is lost or given twice, that its   *)
(* queue is exactly who waits, and that it runs no more engines for those  *)
(* who wait than it has permits.  And for every tokenizer, prompt and      *)
(* length: that an answer is what the request's own engine generated, and  *)
(* that what an engine is given says what is known of its prompt.          *)
(***************************************************************************)
EXTENDS NpuServer, DataInduction, SequenceTheorems, TLAPS

(* WaitersInQueue by positions, which the steps of the proofs go along.    *)
QueueInv ==
  /\ queue # <<>> => permits = 0
  /\ \A i \in 1 .. Len(queue) : phase[queue[i]] = "queued"
  /\ \A r \in Requests : phase[r] = "queued" => \E i \in 1 .. Len(queue) : queue[i] = r
  /\ \A i, j \in 1 .. Len(queue) : queue[i] = queue[j] => i = j

(* An engine runs only for a request that runs, or that was dropped.       *)
EngineInv == \A r \in Requests : engine[r] => phase[r] \in {"running", "left"}

(* The inductive invariant.                                                *)
ControlInv == NpuTypeOK /\ PermitsConserved /\ QueueInv /\ EngineInv

(* Over well-typed states the two ways to say it agree.                    *)
LEMMA QueueInvSays ==
  ASSUME NpuTypeOK PROVE QueueInv <=> WaitersInQueue
<1> USE DEF NpuTypeOK, QueueInv, WaitersInQueue, Range
<1>1. DOMAIN queue = 1 .. Len(queue) /\ \A i \in 1 .. Len(queue) : queue[i] \in Requests
  OBVIOUS
<1> QED BY <1>1

(* The permits that are held, if one request begins or ceases to hold one. *)
LEMMA HoldersCount ==
  /\ IsFiniteSet(Holders) /\ Cardinality(Holders) \in Nat
  /\ \A r \in Requests \ Holders :
       Cardinality(Holders \cup {r}) = Cardinality(Holders) + 1
  /\ \A r \in Holders :
       Cardinality(Holders \ {r}) = Cardinality(Holders) - 1
  /\ \A r \in Holders, q \in Requests \ Holders :
       Cardinality((Holders \ {r}) \cup {q}) = Cardinality(Holders)
<1>1. IsFiniteSet(Holders) /\ Cardinality(Holders) \in Nat
  BY FS_Subset, FS_CardinalityType, NpuAssumption DEF Holders
<1>2. ASSUME NEW r \in Requests \ Holders
      PROVE  Cardinality(Holders \cup {r}) = Cardinality(Holders) + 1
  BY <1>1, FS_AddElement
<1>3. ASSUME NEW r \in Holders
      PROVE  /\ IsFiniteSet(Holders \ {r})
             /\ Cardinality(Holders \ {r}) = Cardinality(Holders) - 1
  BY <1>1, FS_RemoveElement
<1>4. ASSUME NEW r \in Holders, NEW q \in Requests \ Holders
      PROVE  Cardinality((Holders \ {r}) \cup {q}) = Cardinality(Holders)
  <2>0. q \notin Holders \ {r}
    OBVIOUS
  <2>1. Cardinality((Holders \ {r}) \cup {q}) = Cardinality(Holders \ {r}) + 1
    BY <1>3, <2>0, FS_AddElement
  <2>2. Cardinality(Holders \ {r}) = Cardinality(Holders) - 1
    BY <1>3
  <2> HIDE DEF Holders
  <2>3. (Cardinality(Holders) - 1) + 1 = Cardinality(Holders)
    BY <1>1
  <2> QED BY <2>1, <2>2, <2>3
<1> QED BY <1>1, <1>2, <1>3, <1>4

(* Asking for a permit takes a free one or joins the queue at its end.     *)
LEMMA AcquireKeeps ==
  ASSUME ControlInv, NEW r \in Requests, phase[r] = "idle", Acquire(r), engine' = engine
  PROVE  ControlInv'
<1> USE NpuAssumption DEF ControlInv, NpuTypeOK, PermitsConserved
<1>0. r \notin Holders
  BY DEF Holders, Holds
<1>1. CASE /\ permits > 0 /\ permits' = permits - 1 /\ queue' = queue
           /\ phase' = [phase EXCEPT ![r] = "granted"]
  <2>1. Holders' = Holders \cup {r}
    BY <1>1 DEF Holders, Holds
  <2>2. PermitsConserved'
    BY <1>0, <1>1, <2>1, HoldersCount
  <2>3. NpuTypeOK'
    BY <1>1 DEF Phases
  <2>4. queue = <<>> /\ QueueInv' /\ EngineInv'
    BY <1>1 DEF QueueInv, EngineInv
  <2> QED BY <2>2, <2>3, <2>4
<1>2. CASE /\ permits = 0 /\ queue' = Append(queue, r) /\ permits' = permits
           /\ phase' = [phase EXCEPT ![r] = "queued"]
  <2>1. Holders' = Holders
    BY <1>0, <1>2 DEF Holders, Holds
  <2>2. PermitsConserved'
    BY <1>2, <2>1
  <2>3. NpuTypeOK'
    BY <1>2 DEF Phases
  <2>4. /\ Len(queue') = Len(queue) + 1 /\ Len(queue) \in Nat
        /\ \A i \in 1 .. Len(queue) : queue'[i] = queue[i] /\ queue[i] \in Requests
        /\ queue'[Len(queue) + 1] = r
    BY <1>2
  <2>5. \A i \in 1 .. Len(queue) : queue[i] # r
    <3>1. phase[r] # "queued"
      OBVIOUS
    <3> QED BY <3>1 DEF QueueInv
  <2>6. \A i \in 1 .. Len(queue') : i \in 1 .. Len(queue) \/ i = Len(queue) + 1
    BY <2>4
  <2>7. \A i \in 1 .. Len(queue') : phase'[queue'[i]] = "queued"
    BY <1>2, <2>4, <2>5, <2>6 DEF QueueInv
  <2>8. \A s \in Requests : phase'[s] = "queued" => \E i \in 1 .. Len(queue') : queue'[i] = s
    <3> SUFFICES ASSUME NEW s \in Requests, phase'[s] = "queued"
                 PROVE  \E i \in 1 .. Len(queue') : queue'[i] = s
      OBVIOUS
    <3>1. CASE s = r
      <4>1. Len(queue) + 1 \in 1 .. Len(queue')
        BY <2>4
      <4> QED BY <2>4, <3>1, <4>1
    <3>2. CASE s # r
      <4>1. PICK i \in 1 .. Len(queue) : queue[i] = s
        BY <1>2, <3>2 DEF QueueInv
      <4>2. i \in 1 .. Len(queue')
        BY <2>4
      <4> QED BY <2>4, <4>1, <4>2
    <3> QED BY <3>1, <3>2
  <2>9. \A i, j \in 1 .. Len(queue') : queue'[i] = queue'[j] => i = j
    BY <2>4, <2>5, <2>6 DEF QueueInv
  <2>10. QueueInv' /\ EngineInv'
    BY <1>2, <2>7, <2>8, <2>9 DEF QueueInv, EngineInv
  <2> QED BY <2>2, <2>3, <2>10
<1> QED BY <1>1, <1>2 DEF Acquire

(* A permit that is dropped goes to the first that waits, or becomes free. *)
LEMMA ReleaseKeeps ==
  ASSUME ControlInv, NEW r \in Requests, Holds(r),
         NEW to \in {"answered", "failed", "left"}, Release(r, to),
         engine' = engine, to = "left" \/ ~engine[r]
  PROVE  ControlInv'
<1> USE NpuAssumption DEF ControlInv, NpuTypeOK, PermitsConserved
<1>0. r \in Holders /\ phase[r] # "queued"
  BY DEF Holders, Holds
<1>1. CASE /\ queue = <<>> /\ permits' = permits + 1 /\ queue' = queue
           /\ phase' = [phase EXCEPT ![r] = to]
  <2>1. Holders' = Holders \ {r}
    BY <1>1 DEF Holders, Holds
  <2>2. Cardinality(Holders \ {r}) = Cardinality(Holders) - 1 /\ Cardinality(Holders) \in Nat
    BY <1>0, HoldersCount
  <2>3. PermitsConserved'
    BY <1>1, <2>1, <2>2
  <2>4. Cardinality(Holders') \in Nat
    BY <2>1, <1>0, FS_RemoveElement, FS_CardinalityType, HoldersCount
  <2>5. permits' <= MaxConcurrent
    BY <1>1, <2>3, <2>4
  <2>6. NpuTypeOK'
    BY <1>1, <2>5 DEF Phases
  <2>7. QueueInv' /\ EngineInv'
    BY <1>1 DEF QueueInv, EngineInv
  <2> QED BY <2>3, <2>6, <2>7
<1>2. CASE /\ queue # <<>> /\ queue' = Tail(queue) /\ permits' = permits
           /\ phase' = [phase EXCEPT ![r] = to, ![Head(queue)] = "granted"]
  <2> DEFINE q == Head(queue)
  <2>1. /\ q \in Requests /\ q = queue[1] /\ queue' \in Seq(Requests)
        /\ Len(queue') = Len(queue) - 1 /\ Len(queue) \in Nat /\ Len(queue) > 0
        /\ \A i \in 1 .. Len(queue') : queue'[i] = queue[i + 1] /\ i + 1 \in 1 .. Len(queue)
    BY <1>2, HeadTailProperties
  <2>2. phase[q] = "queued" /\ q # r /\ q \notin Holders
    BY <1>0, <2>1 DEF QueueInv, Holders, Holds
  <2>3. /\ phase'[r] = to /\ phase'[q] = "granted"
        /\ \A s \in Requests \ {r, q} : phase'[s] = phase[s]
    BY <1>2, <2>1, <2>2
  <2>4. Holders' = (Holders \ {r}) \cup {q}
    BY <2>1, <2>2, <2>3 DEF Holders, Holds
  <2>5. Cardinality(Holders') = Cardinality(Holders)
    BY <1>0, <2>1, <2>2, <2>4, HoldersCount
  <2>6. PermitsConserved'
    BY <1>2, <2>5
  <2>7. NpuTypeOK'
    BY <1>2, <2>1 DEF Phases
  <2>8. \A i \in 1 .. Len(queue') : queue'[i] # q /\ queue'[i] # r
    <3> SUFFICES ASSUME NEW i \in 1 .. Len(queue') PROVE queue'[i] # q /\ queue'[i] # r
      OBVIOUS
    <3>1. queue'[i] = queue[i + 1] /\ i + 1 \in 1 .. Len(queue) /\ i + 1 # 1
      BY <2>1
    <3>2. 1 \in 1 .. Len(queue)
      BY <2>1
    <3> QED BY <1>0, <2>1, <3>1, <3>2 DEF QueueInv
  <2>9. ASSUME NEW i \in 1 .. Len(queue') PROVE phase'[queue'[i]] = "queued"
    <3>1. queue'[i] = queue[i + 1] /\ i + 1 \in 1 .. Len(queue)
      BY <2>1
    <3>2. phase[queue'[i]] = "queued"
      BY <3>1 DEF QueueInv
    <3>3. queue'[i] \in Requests \ {r, q}
      BY <2>1, <2>8, <3>1
    <3> QED BY <2>3, <3>2, <3>3
  <2>10. \A s \in Requests : phase'[s] = "queued" => \E i \in 1 .. Len(queue') : queue'[i] = s
    <3> SUFFICES ASSUME NEW s \in Requests, phase'[s] = "queued"
                 PROVE  \E i \in 1 .. Len(queue') : queue'[i] = s
      OBVIOUS
    <3>1. s # r /\ s # q /\ phase[s] = "queued"
      BY <2>3
    <3>2. PICK i \in 1 .. Len(queue) : queue[i] = s
      BY <3>1 DEF QueueInv
    <3>3. i # 1
      BY <2>1, <3>1, <3>2
    <3>4. i - 1 \in 1 .. Len(queue') /\ (i - 1) + 1 = i
      BY <2>1, <3>2, <3>3
    <3> QED BY <2>1, <3>2, <3>4
  <2>11. \A i, j \in 1 .. Len(queue') : queue'[i] = queue'[j] => i = j
    BY <2>1 DEF QueueInv
  <2>12. queue' # <<>> => permits' = 0
    BY <1>2 DEF QueueInv
  <2>13. EngineInv'
    BY <2>2, <2>3 DEF EngineInv
  <2>14. QueueInv'
    BY <2>9, <2>10, <2>11, <2>12 DEF QueueInv
  <2> QED BY <2>6, <2>7, <2>13, <2>14
<1> QED BY <1>1, <1>2 DEF Release

(* A request that waits and is dropped leaves the queue, and no other does. *)
LEMMA DequeueKeeps ==
  ASSUME ControlInv, NEW r \in Requests, phase[r] = "queued",
         phase' = [phase EXCEPT ![r] = "left"], permits' = permits, engine' = engine,
         NEW k \in DOMAIN queue, queue[k] = r, queue' = RemoveAt(queue, k)
  PROVE  ControlInv'
<1> USE NpuAssumption DEF ControlInv, NpuTypeOK, PermitsConserved
<1>1. /\ queue' \in Seq(Requests) /\ Len(queue') = Len(queue) - 1
      /\ Len(queue) \in Nat /\ k \in 1 .. Len(queue)
      /\ \A i \in 1 .. Len(queue') : queue'[i] = IF i < k THEN queue[i] ELSE queue[i + 1]
  <2> DEFINE front == SubSeq(queue, 1, k - 1)
             back == SubSeq(queue, k + 1, Len(queue))
  <2>0. Len(queue) \in Nat /\ k \in 1 .. Len(queue)
    OBVIOUS
  <2>1. /\ front \in Seq(Requests) /\ Len(front) = k - 1
        /\ \A i \in 1 .. k - 1 : front[i] = queue[i]
    <3>1. \A i \in 1 .. k - 1 : queue[i] \in Requests
      BY <2>0
    <3> QED BY <2>0, <3>1, SubSeqProperties
  <2>2. /\ back \in Seq(Requests) /\ Len(back) = Len(queue) - k
        /\ \A i \in 1 .. Len(queue) - k : back[i] = queue[k + i]
    <3>1. \A i \in k + 1 .. Len(queue) : queue[i] \in Requests
      BY <2>0
    <3>2. /\ SubSeq(queue, k + 1, Len(queue)) \in Seq(Requests)
          /\ Len(SubSeq(queue, k + 1, Len(queue))) =
               IF k + 1 <= Len(queue) THEN Len(queue) - (k + 1) + 1 ELSE 0
          /\ \A i \in 1 .. Len(queue) - (k + 1) + 1 :
               SubSeq(queue, k + 1, Len(queue))[i] = queue[(k + 1) + i - 1]
      BY <2>0, <3>1, SubSeqProperties
    <3>3. Len(queue) - (k + 1) + 1 = Len(queue) - k
      BY <2>0
    <3>4. Len(back) = Len(queue) - k
      BY <2>0, <3>2
    <3>5. ASSUME NEW i \in 1 .. Len(queue) - k PROVE back[i] = queue[k + i]
      <4>1. (k + 1) + i - 1 = k + i
        BY <2>0
      <4> QED BY <3>2, <3>3, <4>1
    <3> QED BY <3>2, <3>4, <3>5
  <2>3. queue' = front \o back
    BY DEF RemoveAt
  <2> HIDE DEF front, back
  <2>4. /\ queue' \in Seq(Requests) /\ Len(queue') = (k - 1) + (Len(queue) - k)
        /\ \A i \in 1 .. (k - 1) + (Len(queue) - k) :
             queue'[i] = IF i <= k - 1 THEN front[i] ELSE back[i - (k - 1)]
    <3>1. /\ front \o back \in Seq(Requests)
          /\ Len(front \o back) = Len(front) + Len(back)
          /\ \A i \in 1 .. Len(front) + Len(back) :
               (front \o back)[i] = IF i <= Len(front) THEN front[i] ELSE back[i - Len(front)]
      BY <2>1, <2>2, ConcatProperties, ZenonT(60)
    <3> QED BY <2>1, <2>2, <2>3, <3>1
  <2>5. ASSUME NEW i \in 1 .. Len(queue')
        PROVE  queue'[i] = IF i < k THEN queue[i] ELSE queue[i + 1]
    <3>1. CASE i < k
      BY <2>0, <2>1, <2>4, <3>1
    <3>2. CASE ~(i < k)
      <4>1. i - (k - 1) \in 1 .. Len(queue) - k /\ k + (i - (k - 1)) = i + 1
        BY <2>0, <2>4, <3>2
      <4>2. queue'[i] = back[i - (k - 1)]
        BY <2>0, <2>4, <3>2
      <4> QED BY <2>2, <3>2, <4>1, <4>2
    <3> QED BY <3>1, <3>2
  <2> QED BY <2>0, <2>4, <2>5
<1>2. Holders' = Holders
  BY DEF Holders, Holds
<1>3. PermitsConserved'
  BY <1>2
<1>4. NpuTypeOK'
  BY <1>1 DEF Phases
<1>5. \A i \in 1 .. Len(queue') : queue'[i] # r /\ phase'[queue'[i]] = "queued"
  <2> SUFFICES ASSUME NEW i \in 1 .. Len(queue')
               PROVE  queue'[i] # r /\ phase'[queue'[i]] = "queued"
    OBVIOUS
  <2>1. PICK j \in 1 .. Len(queue) : j # k /\ queue'[i] = queue[j]
    <3>1. CASE i < k
      <4>1. i \in 1 .. Len(queue) /\ i # k
        BY <1>1, <3>1
      <4>2. queue'[i] = queue[i]
        BY <1>1, <3>1
      <4> QED BY <4>1, <4>2
    <3>2. CASE ~(i < k)
      <4>1. i + 1 \in 1 .. Len(queue) /\ i + 1 # k
        BY <1>1, <3>2
      <4>2. queue'[i] = queue[i + 1]
        BY <1>1, <3>2
      <4> QED BY <4>1, <4>2
    <3> QED BY <3>1, <3>2
  <2>2. queue[j] # r /\ queue[j] \in Requests /\ phase[queue[j]] = "queued"
    BY <1>1, <2>1 DEF QueueInv
  <2> QED BY <2>1, <2>2
<1>6. \A s \in Requests : phase'[s] = "queued" => \E i \in 1 .. Len(queue') : queue'[i] = s
  <2> SUFFICES ASSUME NEW s \in Requests, phase'[s] = "queued"
               PROVE  \E i \in 1 .. Len(queue') : queue'[i] = s
    OBVIOUS
  <2>1. s # r /\ phase[s] = "queued"
    OBVIOUS
  <2>2. PICK j \in 1 .. Len(queue) : queue[j] = s
    BY <2>1 DEF QueueInv
  <2>3. CASE j < k
    <3>1. j \in 1 .. Len(queue')
      BY <1>1, <2>3
    <3> QED BY <1>1, <2>2, <2>3, <3>1
  <2>4. CASE ~(j < k)
    <3>1. j # k
      BY <2>1, <2>2
    <3>2. j - 1 \in 1 .. Len(queue') /\ ~(j - 1 < k) /\ (j - 1) + 1 = j
      BY <1>1, <2>4, <3>1
    <3> QED BY <1>1, <2>2, <3>2
  <2> QED BY <2>3, <2>4
<1>7. \A i, j \in 1 .. Len(queue') : queue'[i] = queue'[j] => i = j
  <2> SUFFICES ASSUME NEW i \in 1 .. Len(queue'), NEW j \in 1 .. Len(queue'),
                      queue'[i] = queue'[j]
               PROVE  i = j
    OBVIOUS
  <2> DEFINE old(n) == IF n < k THEN n ELSE n + 1
  <2>1. /\ old(i) \in 1 .. Len(queue) /\ old(j) \in 1 .. Len(queue)
        /\ queue[old(i)] = queue'[i] /\ queue[old(j)] = queue'[j]
    BY <1>1
  <2>2. old(i) = old(j)
    <3> HIDE DEF old
    <3> QED BY <2>1 DEF QueueInv
  <2> QED BY <1>1, <2>2
<1>8. queue' # <<>> => permits' = 0
  BY <1>1 DEF QueueInv
<1>9. QueueInv' /\ EngineInv'
  BY <1>5, <1>6, <1>7, <1>8 DEF QueueInv, EngineInv
<1> QED BY <1>3, <1>4, <1>9

(* Every step of npu-server keeps the invariant.                           *)
LEMMA ControlStep == ControlInv /\ [NpuNext]_npuVars => ControlInv'
<1> SUFFICES ASSUME ControlInv, [NpuNext]_npuVars PROVE ControlInv'
  OBVIOUS
<1>1. CASE UNCHANGED npuVars
  BY <1>1 DEF npuVars, ControlInv, NpuTypeOK, PermitsConserved, Holders, Holds, QueueInv, EngineInv
<1>2. ASSUME NEW r \in Requests, Refuse(r) PROVE ControlInv'
  <2>1. phase' = [phase EXCEPT ![r] = "refused"] /\ phase[r] = "idle"
    BY <1>2 DEF Refuse
  <2>2. Holders' = Holders
    BY <2>1 DEF Holders, Holds, ControlInv, NpuTypeOK
  <2>3. permits' = permits /\ queue' = queue /\ engine' = engine
    BY <1>2 DEF Refuse
  <2>4. phase' \in [Requests -> Phases]
    BY <2>1 DEF ControlInv, NpuTypeOK, Phases
  <2>5. \A s \in Requests : /\ phase'[s] = "queued" <=> phase[s] = "queued"
                            /\ phase[s] \in {"running", "left"} => phase'[s] = phase[s]
    BY <2>1 DEF ControlInv, NpuTypeOK
  <2>6. \A i \in 1 .. Len(queue) : queue[i] \in Requests
    BY DEF ControlInv, NpuTypeOK
  <2>7. QueueInv'
    BY <2>3, <2>5, <2>6 DEF ControlInv, QueueInv
  <2> QED BY <2>2, <2>3, <2>4, <2>5, <2>7
     DEF ControlInv, NpuTypeOK, PermitsConserved, EngineInv
<1>3. ASSUME NEW r \in Requests, Arrive(r) PROVE ControlInv'
  BY <1>3, AcquireKeeps DEF Arrive
<1>4. ASSUME NEW r \in Requests, Spawn(r) PROVE ControlInv'
  <2>1. CASE Release(r, "failed") /\ engine' = engine
    <3>1. Holds(r) /\ ~engine[r]
      BY <1>4 DEF Spawn, Holds, ControlInv, EngineInv
    <3> QED BY <2>1, <3>1, ReleaseKeeps
  <2>2. CASE /\ phase' = [phase EXCEPT ![r] = "running"]
             /\ engine' = [engine EXCEPT ![r] = TRUE]
             /\ permits' = permits /\ queue' = queue
    <3>1. phase[r] = "granted"
      BY <1>4 DEF Spawn
    <3>2. Holders' = Holders
      BY <2>2, <3>1 DEF Holders, Holds, ControlInv, NpuTypeOK
    <3> QED BY <2>2, <3>1, <3>2
       DEF ControlInv, NpuTypeOK, PermitsConserved, QueueInv, EngineInv, Phases
  <2> QED BY <1>4, <2>1, <2>2 DEF Spawn
<1>5. ASSUME NEW r \in Requests, EngineExits(r) PROVE ControlInv'
  <2>1. /\ engine' = [engine EXCEPT ![r] = FALSE] /\ permits' = permits /\ queue' = queue
        /\ \/ phase[r] = "running" /\ phase' = [phase EXCEPT ![r] = "done"]
           \/ phase' = phase
    BY <1>5 DEF EngineExits
  <2>2. Holders' = Holders
    BY <2>1 DEF Holders, Holds, ControlInv, NpuTypeOK
  <2> QED BY <2>1, <2>2
     DEF ControlInv, NpuTypeOK, PermitsConserved, QueueInv, EngineInv, Phases
<1>6. ASSUME NEW r \in Requests, Cancel(r) PROVE ControlInv'
  <2>1. CASE Holds(r) /\ Release(r, "left")
    BY <1>6, <2>1, ReleaseKeeps DEF Cancel
  <2>2. CASE phase[r] = "queued"
    <3>1. ~Holds(r)
      BY <2>2 DEF Holds
    <3>2. PICK k \in DOMAIN queue : queue[k] = r /\ queue' = RemoveAt(queue, k)
      BY <1>6, <3>1 DEF Cancel
    <3> QED BY <1>6, <2>2, <3>1, <3>2, DequeueKeeps DEF Cancel
  <2> QED BY <1>6, <2>1, <2>2 DEF Cancel
<1>7. ASSUME NEW r \in Requests, NEW stream \in BOOLEAN, Respond(r, stream)
      PROVE  ControlInv'
  <2>1. Holds(r) /\ ~engine[r] /\ engine' = engine
    BY <1>7 DEF Respond, Holds, ControlInv, EngineInv
  <2>2. Release(r, "failed") \/ Release(r, "answered")
    BY <1>7 DEF Respond
  <2> QED BY <2>1, <2>2, ReleaseKeeps
<1> QED BY <1>1, <1>2, <1>3, <1>4, <1>5, <1>6, <1>7 DEF NpuNext

(* It holds when the server begins to serve.                               *)
LEMMA ControlInit == NpuInit => ControlInv
<1> SUFFICES ASSUME NpuInit PROVE ControlInv
  OBVIOUS
<1>1. Holders = {}
  BY DEF NpuInit, Holders, Holds
<1>2. PermitsConserved
  BY <1>1, FS_EmptySet, NpuAssumption DEF NpuInit, PermitsConserved
<1> QED BY <1>2, NpuAssumption
   DEF NpuInit, ControlInv, NpuTypeOK, QueueInv, EngineInv, Phases

(* So it holds for ever.                                                   *)
LEMMA ControlHolds == NpuSpec => []ControlInv
BY ControlInit, ControlStep, PTL DEF NpuSpec

(* The control of npu-server has its types.                                *)
THEOREM NpuTypeCorrect == NpuSpec => []NpuTypeOK
BY ControlHolds, PTL DEF ControlInv

(* No permit of the engine is ever lost or given twice, whatever fails and *)
(* whenever clients leave.                                                 *)
THEOREM PermitsConservedHolds == NpuSpec => []PermitsConserved
BY ControlHolds, PTL DEF ControlInv

(* The queue holds exactly the requests that wait, each once, and only     *)
(* while no permit is free.                                                *)
THEOREM WaitersInQueueHolds == NpuSpec => []WaitersInQueue
<1>1. ControlInv => WaitersInQueue
  BY QueueInvSays DEF ControlInv
<1> QED BY <1>1, ControlHolds, PTL

(* There are never more engines for those who wait than permits, and every *)
(* other engine is the orphan of a request that was dropped.               *)
THEOREM EnginesBoundedHolds == NpuSpec => []EnginesBounded
<1>1. ControlInv => EnginesBounded
  <2> SUFFICES ASSUME ControlInv PROVE EnginesBounded
    OBVIOUS
  <2> DEFINE busy == {r \in Requests : engine[r] /\ phase[r] # "left"}
  <2>1. busy \subseteq Holders
    BY DEF ControlInv, EngineInv, Holders, Holds
  <2>2. IsFiniteSet(Holders) /\ Cardinality(Holders) \in Nat
    BY HoldersCount
  <2>3. Cardinality(busy) \in Nat /\ Cardinality(busy) <= Cardinality(Holders)
    BY <2>1, <2>2, FS_Subset, FS_CardinalityType
  <2>4. permits + Cardinality(Holders) = MaxConcurrent /\ permits \in 0 .. MaxConcurrent
    BY DEF ControlInv, PermitsConserved, NpuTypeOK
  <2> HIDE DEF busy
  <2>5. Cardinality(busy) <= MaxConcurrent
    BY <2>2, <2>3, <2>4, NpuAssumption
  <2> QED BY <2>5 DEF busy, EnginesBounded, ControlInv, EngineInv
<1> QED BY <1>1, ControlHolds, PTL

-----------------------------------------------------------------------------
(* What the tokenizer does, by the values its recursions go through.       *)

(* A loaded tokenizer: ids are numbers, tokens are texts.                  *)
Loaded(tok) ==
  /\ \A t \in DOMAIN tok.vocab : t \in Texts /\ tok.vocab[t] \in Nat
  /\ \A id \in DOMAIN tok.id_to_token : tok.id_to_token[id] \in Texts

(* Decode, with the texts of the beginnings of ids it goes through.        *)
IsDecoding(tok, ids, text) ==
  text = [i \in 0 .. Len(ids) |->
            IF i = 0 THEN <<>>
            ELSE IF ids[i] \in DOMAIN tok.id_to_token
            THEN text[i - 1] \o tok.id_to_token[ids[i]]
            ELSE text[i - 1]]
Decoding(tok, ids) == CHOOSE text : IsDecoding(tok, ids, text)

(* There are such texts, and decode gives the last of them.                *)
LEMMA DecodingSays ==
  ASSUME NEW tok, Loaded(tok), NEW ids, Len(ids) \in Nat
  PROVE  /\ Decode(tok, ids) = Decoding(tok, ids)[Len(ids)]
         /\ IsDecoding(tok, ids, Decoding(tok, ids))
         /\ Decoding(tok, ids) \in [0 .. Len(ids) -> Texts]
<1> DEFINE n == Len(ids)
           Step(i, s) == IF ids[i] \in DOMAIN tok.id_to_token
                         THEN s \o tok.id_to_token[ids[i]] ELSE s
           step == [i \in 1 .. n |-> [s \in Texts |-> Step(i, s)]]
<1>0. n \in Nat
  OBVIOUS
<1>1. Decode(tok, ids) = Decoding(tok, ids)[Len(ids)]
  BY DEF Decode, Decoding, IsDecoding
<1>2. \A i \in 1 .. n, s \in Texts : Step(i, s) \in Texts
  BY ConcatProperties DEF Loaded, Texts
<1>3. step \in [1 .. n -> [Texts -> Texts]]
  BY <1>2
<1>4. \A i \in 1 .. n, s \in Texts : step[i][s] = Step(i, s)
  OBVIOUS
<1>5. <<>> \in Texts
  BY DEF Texts
<1> HIDE DEF step, Step, n
<1>6. PICK h : GoesThrough(h, n, Texts, <<>>, step)
  BY <1>0, <1>3, <1>5, StepByStep
<1>7. \A i \in 0 .. n : i # 0 => i \in 1 .. n /\ i - 1 \in 0 .. n
  BY <1>0
<1>8. h[0] = <<>> /\ h \in [0 .. n -> Texts] /\ \A i \in 0 .. n : i # 0 => h[i] = Step(i, h[i - 1])
  BY <1>4, <1>6, <1>7 DEF GoesThrough
<1>9. IsDecoding(tok, ids, h)
  BY <1>8 DEF IsDecoding, Step, n
<1>10. IsDecoding(tok, ids, Decoding(tok, ids))
  BY <1>9 DEF Decoding
<1>11. ASSUME NEW g, IsDecoding(tok, ids, g) PROVE g \in [0 .. n -> Texts]
  <2>1. g = [i \in 0 .. n |-> g[i]] /\ g[0] = <<>>
    BY <1>0, <1>11 DEF IsDecoding, n
  <2>2. \A i \in 0 .. n : i # 0 => g[i] = Step(i, g[i - 1])
    BY <1>11 DEF IsDecoding, Step, n
  <2>3. \A i \in 1 .. n : i \in 0 .. n /\ i # 0
    BY <1>0
  <2>4. \A i \in 1 .. n : g[i - 1] \in Texts => g[i] \in Texts
    BY <1>2, <2>2, <2>3
  <2>5. \A i \in 0 .. n : g[i] \in Texts
    BY <1>0, <1>5, <2>1, <2>4, StaysIn
  <2> QED BY <2>1, <2>5
<1> QED BY <1>1, <1>10, <1>11 DEF n

(* The same of KnownCharacters.                                            *)
IsKnowing(tok, text, known) ==
  known = [i \in 0 .. Len(text) |->
             IF i = 0 THEN <<>>
             ELSE IF <<text[i]>> \in DOMAIN tok.vocab THEN Append(known[i - 1], text[i])
             ELSE known[i - 1]]
Knowing(tok, text) == CHOOSE known : IsKnowing(tok, text, known)

(* What is known of the beginnings of a text is defined.                   *)
LEMMA KnowingSays ==
  ASSUME NEW tok, NEW text \in Texts
  PROVE  /\ KnownCharacters(tok, text) = Knowing(tok, text)[Len(text)]
         /\ IsKnowing(tok, text, Knowing(tok, text))
         /\ Knowing(tok, text) \in [0 .. Len(text) -> Texts]
<1> DEFINE n == Len(text)
           Step(i, s) == IF <<text[i]>> \in DOMAIN tok.vocab THEN Append(s, text[i]) ELSE s
           step == [i \in 1 .. n |-> [s \in Texts |-> Step(i, s)]]
<1>0. n \in Nat /\ \A i \in 1 .. n : text[i] \in Characters
  BY DEF Texts
<1>1. KnownCharacters(tok, text) = Knowing(tok, text)[Len(text)]
  BY DEF KnownCharacters, Knowing, IsKnowing
<1>2. \A i \in 1 .. n, s \in Texts : Step(i, s) \in Texts
  BY <1>0, AppendProperties DEF Texts
<1>3. step \in [1 .. n -> [Texts -> Texts]]
  BY <1>2
<1>4. \A i \in 1 .. n, s \in Texts : step[i][s] = Step(i, s)
  OBVIOUS
<1>5. <<>> \in Texts
  BY DEF Texts
<1> HIDE DEF step, Step, n
<1>6. PICK h : GoesThrough(h, n, Texts, <<>>, step)
  BY <1>0, <1>3, <1>5, StepByStep
<1>7. \A i \in 0 .. n : i # 0 => i \in 1 .. n /\ i - 1 \in 0 .. n
  BY <1>0
<1>8. h[0] = <<>> /\ h \in [0 .. n -> Texts] /\ \A i \in 0 .. n : i # 0 => h[i] = Step(i, h[i - 1])
  BY <1>4, <1>6, <1>7 DEF GoesThrough
<1>9. IsKnowing(tok, text, h)
  BY <1>8 DEF IsKnowing, Step, n
<1>10. IsKnowing(tok, text, Knowing(tok, text))
  BY <1>9 DEF Knowing
<1>11. ASSUME NEW g, IsKnowing(tok, text, g) PROVE g \in [0 .. n -> Texts]
  <2>1. g = [i \in 0 .. n |-> g[i]] /\ g[0] = <<>>
    BY <1>0, <1>11 DEF IsKnowing, n
  <2>2. \A i \in 0 .. n : i # 0 => g[i] = Step(i, g[i - 1])
    BY <1>11 DEF IsKnowing, Step, n
  <2>3. \A i \in 1 .. n : i \in 0 .. n /\ i # 0
    BY <1>0
  <2>4. \A i \in 1 .. n : g[i - 1] \in Texts => g[i] \in Texts
    BY <1>2, <2>2, <2>3
  <2>5. \A i \in 0 .. n : g[i] \in Texts
    BY <1>0, <1>5, <2>1, <2>4, StaysIn
  <2> QED BY <2>1, <2>5
<1> QED BY <1>1, <1>10, <1>11 DEF n

(* And of the prompt, which is a text.                                     *)
Messages == Seq([role : Characters, content : Texts])
IsSaying(messages, said) ==
  said = [i \in 0 .. Len(messages) |->
            IF i = 0 THEN <<>>
            ELSE IF messages[i].role \in {"system", "user", "assistant"}
            THEN said[i - 1] \o Header(messages[i].role) \o messages[i].content
                   \o <<"<|im_end|>", "\n">>
            ELSE said[i - 1]]
Saying(messages) == CHOOSE said : IsSaying(messages, said)

(* What is built of any messages is a text.                                *)
LEMMA PromptType ==
  ASSUME NEW messages \in Messages PROVE Prompt(messages) \in Texts
<1> DEFINE n == Len(messages)
           Step(i, s) == IF messages[i].role \in {"system", "user", "assistant"}
                         THEN s \o Header(messages[i].role) \o messages[i].content
                                \o <<"<|im_end|>", "\n">>
                         ELSE s
           step == [i \in 1 .. n |-> [s \in Texts |-> Step(i, s)]]
<1>0. n \in Nat /\ \A i \in 1 .. n : messages[i].content \in Texts
  <2>1. n \in Nat
    BY DEF Messages
  <2>2. \A i \in 1 .. n : messages[i] \in [role : Characters, content : Texts]
    BY ElementOfSeq DEF Messages
  <2> QED BY <2>1, <2>2
<1>1. Prompt(messages) = Saying(messages)[n] \o Header("assistant")
  BY DEF Prompt, IsSaying, Saying
<1>a. \A role \in Characters : Header(role) \in Texts
  BY TokenizerAssumption DEF Header, Texts
<1>b. <<"<|im_end|>", "\n">> \in Texts
  BY TokenizerAssumption DEF Texts
<1>c. {"system", "user", "assistant"} \subseteq Characters
  BY TokenizerAssumption
<1>2. \A i \in 1 .. n, s \in Texts : Step(i, s) \in Texts
  BY <1>0, <1>a, <1>b, <1>c, ConcatProperties DEF Texts
<1>3. step \in [1 .. n -> [Texts -> Texts]]
  BY <1>2
<1>4. \A i \in 1 .. n, s \in Texts : step[i][s] = Step(i, s)
  OBVIOUS
<1>5. <<>> \in Texts
  BY DEF Texts
<1> HIDE DEF step, Step, n
<1>6. PICK h : GoesThrough(h, n, Texts, <<>>, step)
  BY <1>0, <1>3, <1>5, StepByStep
<1>7. \A i \in 0 .. n : i # 0 => i \in 1 .. n /\ i - 1 \in 0 .. n
  BY <1>0
<1>8. h[0] = <<>> /\ h \in [0 .. n -> Texts] /\ \A i \in 0 .. n : i # 0 => h[i] = Step(i, h[i - 1])
  BY <1>4, <1>6, <1>7 DEF GoesThrough
<1>9. IsSaying(messages, h)
  BY <1>8 DEF IsSaying, Step, n
<1>10. IsSaying(messages, Saying(messages))
  BY <1>9 DEF Saying
<1>11. ASSUME NEW g, IsSaying(messages, g) PROVE g \in [0 .. n -> Texts]
  <2>1. g = [i \in 0 .. n |-> g[i]] /\ g[0] = <<>>
    BY <1>0, <1>11 DEF IsSaying, n
  <2>2. \A i \in 0 .. n : i # 0 => g[i] = Step(i, g[i - 1])
    BY <1>11 DEF IsSaying, Step, n
  <2>3. \A i \in 1 .. n : i \in 0 .. n /\ i # 0
    BY <1>0
  <2>4. \A i \in 1 .. n : g[i - 1] \in Texts => g[i] \in Texts
    BY <1>2, <2>2, <2>3
  <2>5. \A i \in 0 .. n : g[i] \in Texts
    BY <1>0, <1>5, <2>1, <2>4, StaysIn
  <2> QED BY <2>1, <2>5
<1>12. Saying(messages)[n] \in Texts
  BY <1>0, <1>10, <1>11
<1> QED BY <1>1, <1>12, <1>a, <1>c, ConcatProperties DEF Texts

(* The least of two numbers is one of them.                                *)
LEMMA MinOfTwo ==
  ASSUME NEW a \in Nat, NEW b \in Nat
  PROVE  Min({a, b}) \in Nat /\ Min({a, b}) <= a /\ Min({a, b}) <= b
             /\ (Min({a, b}) = a \/ Min({a, b}) = b)
<1>1. \E x \in {a, b} : \A y \in {a, b} : x <= y
  <2>1. CASE a <= b
    BY <2>1
  <2>2. CASE b <= a
    BY <2>2
  <2> QED BY <2>1, <2>2
<1>2. Min({a, b}) \in {a, b} /\ \A y \in {a, b} : Min({a, b}) <= y
  BY <1>1 DEF Min
<1> QED BY <1>2

(* How many characters of a token begin here, how many are taken at this   *)
(* place, and the ids that they give.                                      *)
Matched(tok, text, i) ==
  {n \in 1 .. Min({MaxMatch, Len(text) - i + 1}) : SubSeq(text, i, i + n - 1) \in DOMAIN tok.vocab}
Taken(tok, text, i) ==
  IF Matched(tok, text, i) = {} THEN 1 ELSE Max(Matched(tok, text, i))
IdsAt(tok, text, i) ==
  IF Matched(tok, text, i) = {} THEN <<>>
  ELSE <<tok.vocab[SubSeq(text, i, i + Taken(tok, text, i) - 1)]>>

(* A character that is a token is never dropped, and what is taken is a    *)
(* token in the text.                                                      *)
LEMMA MatchSays ==
  ASSUME NEW tok, Loaded(tok), NEW text \in Texts, NEW i \in 1 .. Len(text)
  PROVE  /\ Taken(tok, text, i) \in 1 .. Len(text) - i + 1
         /\ IdsAt(tok, text, i) \in Seq(Nat)
         /\ Matched(tok, text, i) = {} => <<text[i]>> \notin DOMAIN tok.vocab
         /\ Matched(tok, text, i) # {} =>
              SubSeq(text, i, i + Taken(tok, text, i) - 1) \in DOMAIN tok.vocab
<1> DEFINE M == Matched(tok, text, i)
           most == Min({MaxMatch, Len(text) - i + 1})
<1>1. Len(text) \in Nat /\ Len(text) - i + 1 \in Nat /\ Len(text) - i + 1 >= 1
  BY DEF Texts
<1>2. most \in Nat /\ most >= 1 /\ most <= Len(text) - i + 1
  BY <1>1, MinOfTwo, TokenizerAssumption
<1>3. M \subseteq 1 .. most /\ \A n \in M : SubSeq(text, i, i + n - 1) \in DOMAIN tok.vocab
  BY DEF Matched
<1>4. M = {} => <<text[i]>> \notin DOMAIN tok.vocab
  <2>1. 1 \in 1 .. most /\ i + 1 - 1 = i
    BY <1>2
  <2>2. SubSeq(text, i, i) = <<text[i]>>
    <3>1. text[i] \in Characters
      BY DEF Texts
    <3>2. /\ SubSeq(text, i, i) \in Seq(Characters) /\ Len(SubSeq(text, i, i)) = 1
          /\ SubSeq(text, i, i)[1] = text[i]
      BY <3>1, SubSeqProperties
    <3>3. /\ <<text[i]>> \in Seq(Characters) /\ Len(<<text[i]>>) = 1
          /\ <<text[i]>>[1] = text[i]
      BY <3>1
    <3>4. \A k \in 1 .. 1 : k = 1
      OBVIOUS
    <3>5. \A k \in 1 .. Len(SubSeq(text, i, i)) : SubSeq(text, i, i)[k] = <<text[i]>>[k]
      BY <3>2, <3>3, <3>4
    <3> QED BY <3>2, <3>3, <3>5, SeqEqual
  <2>3. <<text[i]>> \in DOMAIN tok.vocab => 1 \in M
    BY <2>1, <2>2 DEF Matched
  <2> QED BY <2>3
<1> HIDE DEF M, most
<1>5. M # {} => Max(M) \in M
  <2> SUFFICES ASSUME M # {} PROVE Max(M) \in M
    OBVIOUS
  <2>1. M \subseteq Nat /\ \A n \in M : n <= most
    BY <1>2, <1>3
  <2>2. \E n \in M : \A k \in M : k <= n
    BY <1>2, <2>1, LargestElement
  <2>3. \E n \in M : \A k \in M : n >= k
    BY <2>1, <2>2
  <2> QED BY <2>3 DEF Max
<1>6. Taken(tok, text, i) = IF M = {} THEN 1 ELSE Max(M)
  BY DEF Taken, M
<1>7. Taken(tok, text, i) \in 1 .. Len(text) - i + 1
  <2>1. CASE M = {}
    BY <1>1, <1>6, <2>1
  <2>2. CASE M # {}
    <3>1. Max(M) \in 1 .. most
      BY <1>3, <1>5, <2>2
    <3> QED BY <1>1, <1>2, <1>6, <2>2, <3>1
  <2> QED BY <2>1, <2>2
<1>8. M # {} => SubSeq(text, i, i + Taken(tok, text, i) - 1) \in DOMAIN tok.vocab
  BY <1>3, <1>5, <1>6
<1>9. IdsAt(tok, text, i) \in Seq(Nat)
  <2>1. CASE M = {}
    BY <2>1 DEF IdsAt, M
  <2>2. CASE M # {}
    <3>1. tok.vocab[SubSeq(text, i, i + Taken(tok, text, i) - 1)] \in Nat
      BY <1>8, <2>2 DEF Loaded
    <3> QED BY <2>2, <3>1 DEF IdsAt, M
  <2> QED BY <2>1, <2>2
<1> QED BY <1>4, <1>7, <1>8, <1>9 DEF M

(* Encode, with the ids from each place on.                                *)
IsEncoding(tok, text, from) ==
  from = [i \in 1 .. Len(text) + 1 |->
            IF i > Len(text) THEN <<>>
            ELSE IF Matched(tok, text, i) = {} THEN from[i + 1]
            ELSE LET n == Max(Matched(tok, text, i))
                 IN  <<tok.vocab[SubSeq(text, i, i + n - 1)]>> \o from[i + n]]
Encoding(tok, text) == CHOOSE from : IsEncoding(tok, text, from)

(* There are such ids, and encode gives the first of them.                 *)
LEMMA EncodingSays ==
  ASSUME NEW tok, Loaded(tok), NEW text \in Texts
  PROVE  /\ Encode(tok, text) = Encoding(tok, text)[1]
         /\ Encoding(tok, text) \in [1 .. Len(text) + 1 -> Seq(Nat)]
         /\ Encoding(tok, text)[Len(text) + 1] = <<>>
         /\ \A i \in 1 .. Len(text) :
              Encoding(tok, text)[i] =
                IdsAt(tok, text, i) \o Encoding(tok, text)[i + Taken(tok, text, i)]
<1> DEFINE last == Len(text) + 1
           to(i) == i + Taken(tok, text, i)
           Says(from, k) ==
             /\ from[last] = <<>> /\ \A i \in last - k .. last : from[i] \in Seq(Nat)
             /\ \A i \in last - k .. last : i # last => from[i] = IdsAt(tok, text, i) \o from[to(i)]
<1>0. last \in Nat /\ last >= 1 /\ Len(text) = last - 1
  BY DEF Texts
<1>1. Encode(tok, text) = Encoding(tok, text)[1]
  BY DEF Encode, Encoding, IsEncoding, Matched
<1>2. \A i \in 1 .. last : i # last => to(i) \in i + 1 .. last /\ IdsAt(tok, text, i) \in Seq(Nat)
  <2> SUFFICES ASSUME NEW i \in 1 .. last, i # last
               PROVE  to(i) \in i + 1 .. last /\ IdsAt(tok, text, i) \in Seq(Nat)
    OBVIOUS
  <2>1. i \in 1 .. Len(text)
    BY <1>0
  <2>2. Taken(tok, text, i) \in 1 .. Len(text) - i + 1 /\ IdsAt(tok, text, i) \in Seq(Nat)
    BY <2>1, MatchSays
  <2> QED BY <1>0, <2>1, <2>2
<1>3. ASSUME NEW from, from = [i \in 1 .. last |-> from[i]]
      PROVE  IsEncoding(tok, text, from) <=>
               /\ from[last] = <<>>
               /\ \A i \in 1 .. last : i # last =>
                    from[i] = IF Matched(tok, text, i) = {} THEN from[to(i)]
                              ELSE IdsAt(tok, text, i) \o from[to(i)]
  <2> DEFINE rest(i) == IF i > Len(text) THEN <<>>
                        ELSE IF Matched(tok, text, i) = {} THEN from[i + 1]
                        ELSE LET n == Max(Matched(tok, text, i))
                             IN  <<tok.vocab[SubSeq(text, i, i + n - 1)]>> \o from[i + n]
  <2>1. IsEncoding(tok, text, from) <=> from = [i \in 1 .. last |-> rest(i)]
    BY DEF IsEncoding
  <2>2. rest(last) = <<>>
    BY <1>0
  <2>3. \A i \in 1 .. last : i # last =>
          rest(i) = IF Matched(tok, text, i) = {} THEN from[to(i)]
                    ELSE IdsAt(tok, text, i) \o from[to(i)]
    BY <1>0 DEF Taken, IdsAt
  <2> HIDE DEF rest, last, to
  <2>4. last \in 1 .. last
    BY <1>0
  <2>5. IsEncoding(tok, text, from) <=> \A i \in 1 .. last : from[i] = rest(i)
    BY <1>3, <2>1
  <2> QED BY <2>2, <2>3, <2>4, <2>5
<1> HIDE DEF to, last
<1>4. ASSUME NEW from, from[last] = <<>>,
             \A i \in 1 .. last : i # last =>
               from[i] = IF Matched(tok, text, i) = {} THEN from[to(i)]
                         ELSE IdsAt(tok, text, i) \o from[to(i)]
      PROVE  Says(from, last - 1)
  <2> DEFINE G == {k \in Nat : k < last => Says(from, k)}
  <2>1. 0 \in G
    <3>1. \A i \in last - 0 .. last : i = last
      BY <1>0
    <3>2. <<>> \in Seq(Nat)
      OBVIOUS
    <3> QED BY <1>4, <3>1, <3>2
  <2>2. ASSUME NEW k \in Nat, k \in G PROVE k + 1 \in G
    <3> SUFFICES ASSUME k + 1 < last PROVE Says(from, k + 1)
      OBVIOUS
    <3> DEFINE j == last - (k + 1)
    <3>1. /\ j \in 1 .. last /\ j # last
          /\ \A i \in j .. last : i = j \/ i \in last - k .. last
          /\ \A i \in j + 1 .. last : i \in last - k .. last
      BY <1>0
    <3>2. to(j) \in last - k .. last /\ IdsAt(tok, text, j) \in Seq(Nat)
      BY <1>2, <3>1
    <3>3. from[to(j)] \in Seq(Nat)
      BY <1>0, <2>2, <3>2
    <3>4. from[j] = IdsAt(tok, text, j) \o from[to(j)]
      <4>1. Matched(tok, text, j) = {} => IdsAt(tok, text, j) = <<>>
        BY DEF IdsAt
      <4>2. <<>> \o from[to(j)] = from[to(j)]
        BY <3>3, ConcatEmptySeq
      <4> QED BY <1>4, <3>1, <4>1, <4>2
    <3>5. from[j] \in Seq(Nat)
      BY <3>2, <3>3, <3>4, ConcatProperties
    <3> HIDE DEF j
    <3>6. Says(from, k)
      BY <1>0, <2>2
    <3>7. \A i \in j .. last : from[i] \in Seq(Nat)
      BY <3>1, <3>5, <3>6
    <3>8. \A i \in j .. last : i # last => from[i] = IdsAt(tok, text, i) \o from[to(i)]
      BY <3>1, <3>4, <3>6
    <3> QED BY <3>6, <3>7, <3>8 DEF j
  <2> HIDE DEF G
  <2>3. last - 1 \in G
    BY <1>0, <2>1, <2>2, CountingUp
  <2> QED BY <1>0, <2>3 DEF G
<1>5. \E from : IsEncoding(tok, text, from)
  <2> DEFINE Part(g, k) ==
               /\ g = [i \in last - k .. last |-> g[i]] /\ g[last] = <<>>
               /\ \A i \in last - k .. last : i # last =>
                    g[i] = IF Matched(tok, text, i) = {} THEN g[to(i)]
                           ELSE IdsAt(tok, text, i) \o g[to(i)]
             G == {k \in Nat : k < last => \E g : Part(g, k)}
  <2>1. 0 \in G
    <3>1. \A i \in last - 0 .. last : i = last
      BY <1>0
    <3>2. Part([i \in last - 0 .. last |-> <<>>], 0)
      BY <1>0, <3>1
    <3> HIDE DEF Part
    <3> QED BY <3>2
  <2> HIDE DEF Part
  <2>2. ASSUME NEW k \in Nat, k \in G PROVE k + 1 \in G
    <3> SUFFICES ASSUME k + 1 < last PROVE \E g : Part(g, k + 1)
      OBVIOUS
    <3>1. PICK g : Part(g, k)
      BY <1>0, <2>2
    <3> USE DEF Part
    <3> DEFINE j == last - (k + 1)
               new == IF Matched(tok, text, j) = {} THEN g[to(j)]
                      ELSE IdsAt(tok, text, j) \o g[to(j)]
               h == [i \in j .. last |-> IF i = j THEN new ELSE g[i]]
    <3>2. /\ j \in 1 .. last /\ j # last /\ j \in j .. last /\ last \in j .. last
          /\ \A i \in j .. last : i = j \/ i \in last - k .. last
          /\ \A i \in j + 1 .. last : i \in last - k .. last
          /\ \A i \in last - k .. last : i # j /\ i \in j .. last /\ i \in 1 .. last
          /\ last \in last - k .. last
      BY <1>0
    <3>3. \A i \in j .. last : i # last => to(i) \in last - k .. last
      BY <1>0, <1>2, <3>2
    <3> HIDE DEF new, j
    <3>4. h[j] = new /\ \A i \in last - k .. last : h[i] = g[i]
      BY <3>2
    <3>5. h = [i \in j .. last |-> h[i]]
      OBVIOUS
    <3> HIDE DEF h
    <3>6. h[last] = <<>>
      BY <3>1, <3>2, <3>4
    <3>7. h[j] = IF Matched(tok, text, j) = {} THEN h[to(j)]
                 ELSE IdsAt(tok, text, j) \o h[to(j)]
      BY <3>2, <3>3, <3>4 DEF new
    <3>8. ASSUME NEW i \in last - k .. last, i # last
          PROVE  h[i] = IF Matched(tok, text, i) = {} THEN h[to(i)]
                        ELSE IdsAt(tok, text, i) \o h[to(i)]
      <4>1. h[i] = g[i] /\ h[to(i)] = g[to(i)]
        BY <3>2, <3>3, <3>4, <3>8
      <4> QED BY <3>1, <3>8, <4>1
    <3>9. Part(h, k + 1)
      BY <3>2, <3>5, <3>6, <3>7, <3>8 DEF j
    <3> HIDE DEF Part
    <3> QED BY <3>9
  <2> HIDE DEF G, Part
  <2>3. last - 1 \in G /\ last - 1 < last /\ last - (last - 1) = 1
    BY <1>0, <2>1, <2>2, CountingUp
  <2>4. PICK g : Part(g, last - 1)
    BY <2>3 DEF G
  <2>5. IsEncoding(tok, text, g)
    BY <1>3, <2>3, <2>4 DEF Part
  <2> QED BY <2>5
<1>6. IsEncoding(tok, text, Encoding(tok, text))
  BY <1>5 DEF Encoding
<1>7. Encoding(tok, text) = [i \in 1 .. last |-> Encoding(tok, text)[i]]
  BY <1>6 DEF IsEncoding, last
<1>8. Says(Encoding(tok, text), last - 1)
  BY <1>3, <1>4, <1>6, <1>7
<1> HIDE DEF Says
<1>9. last - (last - 1) = 1 /\ \A i \in 1 .. Len(text) : i \in 1 .. last /\ i # last
  BY <1>0
<1> QED BY <1>1, <1>7, <1>8, <1>9 DEF Says, to, last

-----------------------------------------------------------------------------
(* What is left of a text that is encoded and decoded.                     *)

(* Texts can be joined in any order.                                       *)
LEMMA Joined == \A s, t, u \in Texts : (s \o t) \o u = s \o (t \o u)
<1> SUFFICES ASSUME NEW s \in Seq(Characters), NEW t \in Seq(Characters), NEW u \in Seq(Characters)
             PROVE  (s \o t) \o u = s \o (t \o u)
  BY DEF Texts
<1> QED BY ConcatAssociative

(* Nothing joined to a text changes nothing.                               *)
LEMMA JoinedNothing == \A s \in Texts : s \o <<>> = s /\ <<>> \o s = s
<1> SUFFICES ASSUME NEW s \in Seq(Characters)
             PROVE  s \o <<>> = s /\ <<>> \o s = s
  BY DEF Texts
<1> QED BY ConcatEmptySeq

(* What decode gives for the beginning of some ids it went through on the  *)
(* way.                                                                    *)
LEMMA DecodeBeginning ==
  ASSUME NEW tok, Loaded(tok), NEW ids \in Seq(Nat), NEW m \in 0 .. Len(ids)
  PROVE  Decode(tok, SubSeq(ids, 1, m)) = Decoding(tok, ids)[m]
<1> DEFINE p == SubSeq(ids, 1, m)
           P == Decoding(tok, p)
           D == Decoding(tok, ids)
           G == {k \in Nat : k <= m => P[k] = D[k]}
<1>1. m \in Nat /\ Len(ids) \in Nat /\ m <= Len(ids)
  OBVIOUS
<1>2. Len(p) = m /\ \A i \in 1 .. m : p[i] = ids[i]
  <2>1. \A i \in 1 .. m : ids[i] \in Nat
    BY <1>1
  <2> QED BY <1>1, <2>1, SubSeqProperties
<1> HIDE DEF p
<1>3. Decode(tok, p) = P[m] /\ IsDecoding(tok, p, P) /\ IsDecoding(tok, ids, D)
  BY <1>1, <1>2, DecodingSays
<1> HIDE DEF P, D
<1>4. P[0] = <<>> /\ D[0] = <<>>
  BY <1>1, <1>2, <1>3 DEF IsDecoding
<1>5. \A i \in 1 .. m : /\ i \in 0 .. Len(p) /\ i \in 0 .. Len(ids) /\ i # 0
  BY <1>1, <1>2
<1>6. \A i \in 1 .. m :
        /\ P[i] = IF p[i] \in DOMAIN tok.id_to_token
                  THEN P[i - 1] \o tok.id_to_token[p[i]] ELSE P[i - 1]
        /\ D[i] = IF ids[i] \in DOMAIN tok.id_to_token
                  THEN D[i - 1] \o tok.id_to_token[ids[i]] ELSE D[i - 1]
  BY <1>3, <1>5 DEF IsDecoding
<1>7. 0 \in G
  BY <1>4
<1>8. ASSUME NEW k \in Nat, k \in G PROVE k + 1 \in G
  <2>1. k + 1 <= m => k + 1 \in 1 .. m /\ (k + 1) - 1 = k /\ P[k] = D[k]
    BY <1>1, <1>8
  <2> QED BY <1>2, <1>6, <2>1
<1> HIDE DEF G
<1>9. m \in G
  BY <1>1, <1>7, <1>8, CountingUp
<1>10. P[m] = D[m]
  BY <1>1, <1>9 DEF G
<1> QED BY <1>3, <1>10 DEF D, p

(* What one id more in front adds.                                         *)
LEMMA DecodeOneMore ==
  ASSUME NEW tok, Loaded(tok), NEW id \in Nat, id \in DOMAIN tok.id_to_token,
         NEW rest \in Seq(Nat), NEW m \in 0 .. Len(rest)
  PROVE  Decoding(tok, <<id>> \o rest)[m + 1] =
           tok.id_to_token[id] \o Decoding(tok, rest)[m]
<1> DEFINE c == <<id>> \o rest
           t == tok.id_to_token[id]
           C == Decoding(tok, c)
           D == Decoding(tok, rest)
           G == {k \in Nat : k <= m => C[k + 1] = t \o D[k]}
<1>1. m \in Nat /\ Len(rest) \in Nat /\ m <= Len(rest)
  OBVIOUS
<1>2. Len(c) = Len(rest) + 1 /\ c[1] = id /\ \A i \in 1 .. Len(rest) : c[i + 1] = rest[i]
  OBVIOUS
<1> HIDE DEF c
<1>3. /\ IsDecoding(tok, c, C) /\ IsDecoding(tok, rest, D)
      /\ D \in [0 .. Len(rest) -> Texts]
  BY <1>1, <1>2, DecodingSays
<1>a. t \in Texts
  BY DEF Loaded
<1> HIDE DEF C, D, t
<1>4. C[0] = <<>> /\ D[0] = <<>>
  BY <1>1, <1>2, <1>3 DEF IsDecoding
<1>5. \A i \in 1 .. m : /\ i + 1 \in 0 .. Len(c) /\ i + 1 # 0 /\ (i + 1) - 1 = i
                        /\ i \in 0 .. Len(rest) /\ i # 0
  BY <1>1, <1>2
<1>6. \A i \in 1 .. m :
        /\ C[i + 1] = IF rest[i] \in DOMAIN tok.id_to_token
                      THEN C[i] \o tok.id_to_token[rest[i]] ELSE C[i]
        /\ D[i] = IF rest[i] \in DOMAIN tok.id_to_token
                  THEN D[i - 1] \o tok.id_to_token[rest[i]] ELSE D[i - 1]
  <2> SUFFICES ASSUME NEW i \in 1 .. m
               PROVE  /\ C[i + 1] = IF rest[i] \in DOMAIN tok.id_to_token
                                    THEN C[i] \o tok.id_to_token[rest[i]] ELSE C[i]
                      /\ D[i] = IF rest[i] \in DOMAIN tok.id_to_token
                                THEN D[i - 1] \o tok.id_to_token[rest[i]] ELSE D[i - 1]
    OBVIOUS
  <2>1. C[i + 1] = IF c[i + 1] \in DOMAIN tok.id_to_token
                   THEN C[(i + 1) - 1] \o tok.id_to_token[c[i + 1]] ELSE C[(i + 1) - 1]
    BY <1>3, <1>5 DEF IsDecoding
  <2>2. c[i + 1] = rest[i]
    BY <1>1, <1>2
  <2>3. D[i] = IF rest[i] \in DOMAIN tok.id_to_token
               THEN D[i - 1] \o tok.id_to_token[rest[i]] ELSE D[i - 1]
    BY <1>3, <1>5 DEF IsDecoding
  <2> QED BY <1>5, <2>1, <2>2, <2>3
<1>7. 0 \in G
  <2>1. 1 \in 0 .. Len(c) /\ 1 # 0 /\ 1 - 1 = 0 /\ 0 + 1 = 1
    BY <1>1, <1>2
  <2>2. C[1] = C[0] \o t
    BY <1>2, <1>3, <2>1 DEF IsDecoding, t
  <2>3. <<>> \o t = t /\ t \o <<>> = t
    BY <1>a, ConcatEmptySeq DEF Texts
  <2> QED BY <1>4, <2>1, <2>2, <2>3
<1>8. ASSUME NEW k \in Nat, k \in G PROVE k + 1 \in G
  <2> SUFFICES ASSUME k + 1 <= m PROVE C[(k + 1) + 1] = t \o D[k + 1]
    OBVIOUS
  <2>1. k + 1 \in 1 .. m /\ (k + 1) - 1 = k /\ C[k + 1] = t \o D[k] /\ k \in 0 .. Len(rest)
    BY <1>1, <1>8
  <2>2. D[k] \in Texts
    BY <1>3, <2>1
  <2>3. CASE rest[k + 1] \notin DOMAIN tok.id_to_token
    <3>1. C[(k + 1) + 1] = C[k + 1] /\ D[k + 1] = D[k]
      BY <1>6, <2>1, <2>3
    <3> QED BY <2>1, <3>1
  <2>4. CASE rest[k + 1] \in DOMAIN tok.id_to_token
    <3> DEFINE u == tok.id_to_token[rest[k + 1]]
    <3>1. u \in Texts
      BY <2>4 DEF Loaded
    <3>2. C[(k + 1) + 1] = C[k + 1] \o u /\ D[k + 1] = D[k] \o u
      BY <1>6, <2>1, <2>4
    <3> HIDE DEF u
    <3>3. (t \o D[k]) \o u = t \o (D[k] \o u)
      BY <1>a, <2>2, <3>1, Joined
    <3> QED BY <2>1, <3>2, <3>3
  <2> QED BY <2>3, <2>4
<1> HIDE DEF G
<1>9. m \in G
  BY <1>1, <1>7, <1>8, CountingUp
<1>10. C[m + 1] = t \o D[m]
  BY <1>1, <1>9 DEF G
<1> QED BY <1>10 DEF C, D, c, t

(* Of a stretch of a text all of whose characters are tokens, each is said. *)
LEMMA KnownStretch ==
  ASSUME NEW tok, NEW text \in Texts, NEW i \in 1 .. Len(text),
         NEW n \in 1 .. Len(text) - i + 1,
         \A j \in i .. i + n - 1 : <<text[j]>> \in DOMAIN tok.vocab
  PROVE  Knowing(tok, text)[i + n - 1] =
           Knowing(tok, text)[i - 1] \o SubSeq(text, i, i + n - 1)
<1> DEFINE K == Knowing(tok, text)
           part(d) == SubSeq(text, i, i + d - 1)
           G == {d \in Nat : d <= n => K[i + d - 1] = K[i - 1] \o part(d)}
<1>1. Len(text) \in Nat /\ i \in Nat /\ i >= 1 /\ n \in Nat /\ i + n - 1 <= Len(text)
  BY DEF Texts
<1>2. \A j \in 1 .. Len(text) : text[j] \in Characters
  BY DEF Texts
<1>3. ASSUME NEW d \in Nat, d <= n
      PROVE  /\ part(d) \in Seq(Characters) /\ Len(part(d)) = d
             /\ \A j \in 1 .. d : part(d)[j] = text[i + j - 1]
  <2>1. \A j \in i .. i + d - 1 : text[j] \in Characters
    BY <1>1, <1>2, <1>3
  <2>2. i + d - 1 \in Int /\ i \in Int /\ (i + d - 1) - i + 1 = d
    BY <1>1, <1>3
  <2>3. /\ part(d) \in Seq(Characters)
        /\ Len(part(d)) = IF i <= i + d - 1 THEN (i + d - 1) - i + 1 ELSE 0
        /\ \A j \in 1 .. (i + d - 1) - i + 1 : part(d)[j] = text[i + j - 1]
    BY <2>1, <2>2, SubSeqProperties
  <2>4. Len(part(d)) = d
    BY <1>1, <1>3, <2>3
  <2> QED BY <2>2, <2>3, <2>4
<1> HIDE DEF part
<1>4. IsKnowing(tok, text, K) /\ K \in [0 .. Len(text) -> Texts]
  BY KnowingSays
<1> HIDE DEF K
<1>5. i - 1 \in 0 .. Len(text) /\ K[i - 1] \in Seq(Characters)
  BY <1>1, <1>4, SMTT(30) DEF Texts
<1>6. 0 \in G
  <2>1. part(0) = <<>> /\ i + 0 - 1 = i - 1
    BY <1>1, <1>3
  <2> QED BY <1>5, <2>1, ConcatEmptySeq
<1>7. ASSUME NEW d \in Nat, d \in G PROVE d + 1 \in G
  <2>0. d + 1 \in Nat
    OBVIOUS
  <2> SUFFICES ASSUME d + 1 <= n PROVE K[i + (d + 1) - 1] = K[i - 1] \o part(d + 1)
    BY <2>0, Zenon
  <2> DEFINE j == i + d
  <2>1. /\ d <= n /\ j \in 0 .. Len(text) /\ j # 0 /\ j \in i .. i + n - 1 /\ j \in 1 .. Len(text)
        /\ i + (d + 1) - 1 = j /\ j - 1 = i + d - 1
    BY <1>1
  <2>2. K[i + d - 1] = K[i - 1] \o part(d)
    BY <1>7, <2>1
  <2> HIDE DEF j
  <2>3. K[j] = Append(K[j - 1], text[j])
    BY <1>4, <2>1 DEF IsKnowing
  <2>4. text[j] \in Characters
    BY <1>2, <2>1
  <2>5. Append(K[i - 1] \o part(d), text[j]) = K[i - 1] \o Append(part(d), text[j])
    <3>1. part(d) \in Seq(Characters)
      BY <1>3, <2>1
    <3>2. K[i - 1] \o part(d) \in Seq(Characters) /\ <<text[j]>> \in Seq(Characters)
      BY <1>5, <2>4, <3>1, ConcatProperties
    <3>3. /\ Append(K[i - 1] \o part(d), text[j]) = (K[i - 1] \o part(d)) \o <<text[j]>>
          /\ Append(part(d), text[j]) = part(d) \o <<text[j]>>
      BY <2>4, <3>1, <3>2, AppendIsConcat
    <3>4. (K[i - 1] \o part(d)) \o <<text[j]>> = K[i - 1] \o (part(d) \o <<text[j]>>)
      BY <1>5, <3>1, <3>2, Joined, ZenonT(60) DEF Texts
    <3> QED BY <3>3, <3>4
  <2>6. Append(part(d), text[j]) = part(d + 1)
    <3>1. /\ part(d) \in Seq(Characters) /\ Len(part(d)) = d
          /\ \A k \in 1 .. d : part(d)[k] = text[i + k - 1]
      BY <1>3, <2>1
    <3>2. /\ part(d + 1) \in Seq(Characters) /\ Len(part(d + 1)) = d + 1
          /\ \A k \in 1 .. d + 1 : part(d + 1)[k] = text[i + k - 1]
      BY <1>3
    <3>3. /\ Append(part(d), text[j]) \in Seq(Characters)
          /\ Len(Append(part(d), text[j])) = d + 1
          /\ \A k \in 1 .. d : Append(part(d), text[j])[k] = part(d)[k]
          /\ Append(part(d), text[j])[d + 1] = text[j]
      BY <2>4, <3>1, AppendProperties
    <3>4. \A k \in 1 .. d + 1 : k \in 1 .. d \/ k = d + 1
      OBVIOUS
    <3>5. part(d + 1)[d + 1] = text[j]
      BY <2>1, <3>2
    <3>6. \A k \in 1 .. d + 1 : Append(part(d), text[j])[k] = part(d + 1)[k]
      <4> SUFFICES ASSUME NEW k \in 1 .. d + 1
                   PROVE  Append(part(d), text[j])[k] = part(d + 1)[k]
        OBVIOUS
      <4>1. CASE k = d + 1
        BY <3>3, <3>5, <4>1
      <4>2. CASE k \in 1 .. d
        BY <3>1, <3>2, <3>3, <4>2
      <4> QED BY <3>4, <4>1, <4>2
    <3> QED BY <3>2, <3>3, <3>6, SeqEqual
  <2> QED BY <2>1, <2>2, <2>3, <2>5, <2>6
<1> HIDE DEF G
<1>8. n \in G
  BY <1>1, <1>6, <1>7, CountingUp
<1>9. K[i + n - 1] = K[i - 1] \o part(n)
  BY <1>1, <1>8 DEF G
<1> QED BY <1>9 DEF K, part

(* What is said of a text only grows, from one place in it to another.     *)
LEMMA KnownGrows ==
  ASSUME NEW tok, NEW text \in Texts, NEW i \in 0 .. Len(text)
  PROVE  IsPrefix(Knowing(tok, text)[i], KnownCharacters(tok, text))
<1> DEFINE K == Knowing(tok, text)
           n == Len(text)
           Before(s, t) == Len(s) <= Len(t) /\ \A j \in 1 .. Len(s) : s[j] = t[j]
           G == {k \in Nat : i + k <= n => Before(K[i], K[i + k])}
<1>1. n \in Nat /\ i \in Nat /\ i <= n /\ \A j \in 1 .. n : text[j] \in Characters
  BY DEF Texts
<1>2. /\ KnownCharacters(tok, text) = K[n] /\ IsKnowing(tok, text, K)
      /\ K \in [0 .. n -> Texts]
  BY KnowingSays
<1> HIDE DEF K
<1>3. \A j \in 0 .. n : K[j] \in Seq(Characters) /\ Len(K[j]) \in Nat
  BY <1>2 DEF Texts
<1>4. 0 \in G
  BY <1>1, <1>3
<1>5. ASSUME NEW k \in Nat, k \in G PROVE k + 1 \in G
  <2>0. k + 1 \in Nat
    OBVIOUS
  <2> SUFFICES ASSUME i + (k + 1) <= n PROVE Before(K[i], K[i + (k + 1)])
    BY <2>0, Zenon
  <2> DEFINE j == i + (k + 1)
  <2>1. /\ i + k <= n /\ j \in 0 .. n /\ j # 0 /\ j \in 1 .. n /\ j - 1 = i + k /\ i + k \in 0 .. n
    BY <1>1
  <2>2. Before(K[i], K[i + k])
    BY <1>5, <2>1
  <2> HIDE DEF j
  <2>3. K[j] = IF <<text[j]>> \in DOMAIN tok.vocab THEN Append(K[j - 1], text[j]) ELSE K[j - 1]
    BY <1>2, <2>1 DEF IsKnowing
  <2>4. CASE <<text[j]>> \notin DOMAIN tok.vocab
    BY <2>1, <2>2, <2>3, <2>4 DEF j
  <2>5. CASE <<text[j]>> \in DOMAIN tok.vocab
    <3> DEFINE s == K[i + k]
    <3>1. s \in Seq(Characters) /\ Len(s) \in Nat /\ Len(K[i]) \in Nat
      BY <1>1, <1>3, <2>1
    <3>2. text[j] \in Characters /\ K[j] = Append(s, text[j])
      BY <1>1, <2>1, <2>3, <2>5
    <3> HIDE DEF s
    <3>3. Len(K[j]) = Len(s) + 1 /\ \A l \in 1 .. Len(s) : K[j][l] = s[l]
      BY <3>1, <3>2, AppendProperties
    <3>4. Len(K[i]) <= Len(s) /\ \A l \in 1 .. Len(K[i]) : K[i][l] = s[l]
      BY <2>2 DEF s
    <3>5. \A l \in 1 .. Len(K[i]) : l \in 1 .. Len(s)
      BY <3>1, <3>4
    <3>6. Before(K[i], K[j])
      BY <3>1, <3>3, <3>4, <3>5
    <3> QED BY <3>6 DEF j
  <2> QED BY <2>4, <2>5
<1> HIDE DEF G
<1>6. n - i \in G /\ n - i \in Nat /\ i + (n - i) = n
  BY <1>1, <1>4, <1>5, CountingUp
<1>7. Before(K[i], K[n])
  BY <1>1, <1>6 DEF G
<1>8. K[i] \in Seq(Characters) /\ K[n] \in Seq(Characters) /\ Len(K[i]) \in Nat /\ Len(K[n]) \in Nat
  BY <1>1, <1>3
<1> DEFINE s == K[i]
           t == K[n]
<1>9. IsPrefix(s, t)
  <2> HIDE DEF s, t
  <2>1. /\ s \in Seq(Characters) /\ t \in Seq(Characters) /\ Len(s) \in Nat /\ Len(t) \in Nat
        /\ Len(s) <= Len(t) /\ \A j \in 1 .. Len(s) : s[j] = t[j]
    BY <1>7, <1>8 DEF s, t
  <2>2. \A j \in 1 .. Len(s) : s[j] \in Characters /\ t[j] \in Characters
    BY <2>1
  <2>3. /\ SubSeq(s, 1, Len(s)) \in Seq(Characters) /\ Len(SubSeq(s, 1, Len(s))) = Len(s)
        /\ \A j \in 1 .. Len(s) : SubSeq(s, 1, Len(s))[j] = s[j]
    BY <2>1, <2>2, SubSeqProperties
  <2>4. /\ SubSeq(t, 1, Len(s)) \in Seq(Characters) /\ Len(SubSeq(t, 1, Len(s))) = Len(s)
        /\ \A j \in 1 .. Len(s) : SubSeq(t, 1, Len(s))[j] = t[j]
    BY <2>1, <2>2, SubSeqProperties
  <2>5. SubSeq(s, 1, Len(s)) = SubSeq(t, 1, Len(s))
    BY <2>1, <2>3, <2>4, SeqEqual
  <2> QED BY <2>1, <2>5 DEF IsPrefix
<1> QED BY <1>2, <1>9 DEF K

(* The tokenizer says of an id what has it, and the characters of its      *)
(* tokens are tokens.                                                      *)
Agrees(tok) ==
  \A t \in DOMAIN tok.vocab : /\ tok.vocab[t] \in DOMAIN tok.id_to_token
                              /\ tok.id_to_token[tok.vocab[t]] = t
SpelledOut(tok) ==
  \A t \in DOMAIN tok.vocab : \A i \in DOMAIN t : <<t[i]>> \in DOMAIN tok.vocab

(* Then what is said up to a place, and after it the text of any number of *)
(* the ids from there on, is what is said up to another place.             *)
LEMMA EncodedIsKnown ==
  ASSUME NEW tok, Loaded(tok), Agrees(tok), SpelledOut(tok), NEW text \in Texts
  PROVE  \A i \in 1 .. Len(text) + 1 : \A m \in 0 .. Len(Encoding(tok, text)[i]) :
           \E j \in 0 .. Len(text) :
             Knowing(tok, text)[i - 1] \o Decoding(tok, Encoding(tok, text)[i])[m]
               = Knowing(tok, text)[j]
<1> DEFINE K == Knowing(tok, text)
           E == Encoding(tok, text)
           last == Len(text) + 1
           Known(i) == \A m \in 0 .. Len(E[i]) : \E j \in 0 .. Len(text) :
                         K[i - 1] \o Decoding(tok, E[i])[m] = K[j]
           G == {k \in Nat : \A i \in 1 .. last : last - i <= k => Known(i)}
<1>1. Len(text) \in Nat /\ last \in Nat /\ last = Len(text) + 1
  BY DEF Texts
<1>2. /\ E \in [1 .. last -> Seq(Nat)] /\ E[last] = <<>>
      /\ \A i \in 1 .. Len(text) : E[i] = IdsAt(tok, text, i) \o E[i + Taken(tok, text, i)]
  BY EncodingSays
<1>3. IsKnowing(tok, text, K) /\ K \in [0 .. Len(text) -> Texts]
  BY KnowingSays
<1> HIDE DEF E, last, K
<1>4. \A i \in 1 .. last : /\ E[i] \in Seq(Nat) /\ Len(E[i]) \in Nat
                           /\ i - 1 \in 0 .. Len(text) /\ K[i - 1] \in Texts
  <2>1. \A i \in 1 .. last : i - 1 \in 0 .. Len(text)
    BY <1>1
  <2>2. \A i \in 1 .. last : E[i] \in Seq(Nat) /\ Len(E[i]) \in Nat
    BY <1>2
  <2> QED BY <1>3, <2>1, <2>2
<1>5. ASSUME NEW i \in 1 .. last
      PROVE  K[i - 1] \o Decoding(tok, E[i])[0] = K[i - 1]
  <2>1. Decoding(tok, E[i])[0] = <<>>
    <3>1. IsDecoding(tok, E[i], Decoding(tok, E[i])) /\ 0 \in 0 .. Len(E[i])
      BY <1>4, DecodingSays
    <3> QED BY <3>1 DEF IsDecoding
  <2> QED BY <1>4, <2>1, JoinedNothing
<1>6. 0 \in G
  <2> SUFFICES ASSUME NEW i \in 1 .. last, last - i <= 0 PROVE Known(i)
    OBVIOUS
  <2>1. i = last
    BY <1>1
  <2>2. Len(E[i]) = 0 /\ \A m \in 0 .. 0 : m = 0
    BY <1>2, <2>1
  <2> QED BY <1>4, <1>5, <2>2
<1>7. ASSUME NEW k \in Nat, k \in G PROVE k + 1 \in G
  <2>0. k + 1 \in Nat
    OBVIOUS
  <2> SUFFICES ASSUME NEW i \in 1 .. last, last - i <= k + 1 PROVE Known(i)
    BY <2>0, Zenon
  <2>1. CASE last - i <= k
    BY <1>7, <2>1
  <2>2. CASE ~(last - i <= k)
    <3> DEFINE n == Taken(tok, text, i)
               next == i + n
    <3>1. i \in 1 .. Len(text) /\ i \in Nat
      BY <1>1, <2>2
    <3>2. /\ n \in 1 .. Len(text) - i + 1
          /\ Matched(tok, text, i) = {} => <<text[i]>> \notin DOMAIN tok.vocab
          /\ Matched(tok, text, i) # {} => SubSeq(text, i, i + n - 1) \in DOMAIN tok.vocab
      BY <3>1, MatchSays
    <3>3. E[i] = IdsAt(tok, text, i) \o E[next]
      BY <1>2, <3>1
    <3>4. next \in 1 .. last /\ last - next <= k /\ next - 1 = i + n - 1
      BY <1>1, <3>1, <3>2, SMTT(30)
    <3>5. Known(next)
      BY <1>7, <3>4
    <3> HIDE DEF Known
    <3>6. CASE Matched(tok, text, i) = {}
      <4>1. n = 1 /\ IdsAt(tok, text, i) = <<>>
        BY <3>6 DEF Taken, IdsAt
      <4>2. E[i] = E[next]
        <5>1. E[next] \in Seq(Nat)
          BY <1>4, <3>4
        <5> QED BY <3>3, <4>1, <5>1, ConcatEmptySeq
      <4>3. K[i] = K[i - 1]
        <5>1. i \in 0 .. Len(text) /\ i # 0
          BY <3>1
        <5> QED BY <1>3, <3>2, <3>6, <5>1 DEF IsKnowing
      <4>4. next - 1 = i
        BY <3>1, <4>1
      <4> QED BY <3>5, <4>2, <4>3, <4>4 DEF Known
    <3>7. CASE Matched(tok, text, i) # {}
      <4> DEFINE t == SubSeq(text, i, i + n - 1)
                 id == tok.vocab[t]
                 rest == E[next]
      <4>1. /\ t \in DOMAIN tok.vocab /\ id \in DOMAIN tok.id_to_token
            /\ tok.id_to_token[id] = t /\ id \in Nat /\ t \in Texts
        BY <3>2, <3>7 DEF Agrees, Loaded
      <4>2. E[i] = <<id>> \o rest
        BY <3>3, <3>7 DEF IdsAt
      <4>3. rest \in Seq(Nat) /\ Len(rest) \in Nat
        BY <1>4, <3>4
      <4>4. Len(E[i]) = Len(rest) + 1
        <5> HIDE DEF rest, id
        <5>1. <<id>> \in Seq(Nat) /\ Len(<<id>>) = 1
          BY <4>1
        <5> QED BY <4>2, <4>3, <5>1, ConcatProperties
      <4>5. K[next - 1] = K[i - 1] \o t
        <5>1. ASSUME NEW j \in i .. i + n - 1 PROVE <<text[j]>> \in DOMAIN tok.vocab
          <6>0. n \in Nat /\ n >= 1 /\ i + n - 1 <= Len(text) /\ i \in Nat /\ i >= 1
            BY <1>1, <3>1, <3>2
          <6> HIDE DEF n
          <6>a. \A l \in i .. i + n - 1 : l \in 1 .. Len(text)
            BY <1>1, <6>0
          <6>b. \A l \in i .. i + n - 1 : text[l] \in Characters
            BY <6>a DEF Texts
          <6>1. /\ \A l \in i .. i + n - 1 : text[l] \in Characters
                /\ i + n - 1 \in Int /\ i \in Int /\ i <= i + n - 1
                /\ (i + n - 1) - i + 1 = n
            BY <6>0, <6>b
          <6>2. /\ Len(t) = n /\ t \in Seq(Characters)
                /\ \A l \in 1 .. n : t[l] = text[i + l - 1]
            BY <6>1, SubSeqProperties
          <6>3. j - i + 1 \in 1 .. n /\ i + (j - i + 1) - 1 = j
            BY <6>0
          <6>4. j - i + 1 \in DOMAIN t /\ t[j - i + 1] = text[j]
            <7>1. t[j - i + 1] = text[i + (j - i + 1) - 1]
              BY <6>2, <6>3
            <7>2. DOMAIN t = 1 .. Len(t)
              BY <6>2
            <7> QED BY <6>2, <6>3, <7>1, <7>2
          <6> HIDE DEF t
          <6> QED BY <4>1, <6>4 DEF SpelledOut
        <5>2. K[i + n - 1] = K[i - 1] \o SubSeq(text, i, i + n - 1)
          BY <3>1, <3>2, <5>1, KnownStretch DEF K
        <5> QED BY <3>4, <5>2
      <4> HIDE DEF t, id, rest
      <4>6. ASSUME NEW m \in 0 .. Len(E[i])
            PROVE  \E j \in 0 .. Len(text) : K[i - 1] \o Decoding(tok, E[i])[m] = K[j]
        <5>1. CASE m = 0
          BY <1>4, <1>5, <5>1
        <5>2. CASE m # 0
          <6> DEFINE l == m - 1
                     u == Decoding(tok, rest)[l]
          <6>1. l \in 0 .. Len(rest) /\ l + 1 = m
            BY <4>3, <4>4, <5>2
          <6>2. Decoding(tok, E[i])[m] = t \o u
            <7> HIDE DEF l
            <7>1. Decoding(tok, <<id>> \o rest)[l + 1] = tok.id_to_token[id] \o Decoding(tok, rest)[l]
              BY <4>1, <4>3, <6>1, DecodeOneMore
            <7> QED BY <4>1, <4>2, <6>1, <7>1
          <6>3. u \in Texts
            BY <4>3, <6>1, DecodingSays
          <6>4. PICK j \in 0 .. Len(text) : K[next - 1] \o u = K[j]
            BY <3>5, <6>1 DEF Known, rest
          <6> HIDE DEF u
          <6>5. (K[i - 1] \o t) \o u = K[i - 1] \o (t \o u)
            BY <1>4, <4>1, <6>3, Joined, ZenonT(60)
          <6> QED BY <4>5, <6>2, <6>4, <6>5
        <5> QED BY <5>1, <5>2
      <4> QED BY <4>6 DEF Known
    <3> QED BY <3>6, <3>7
  <2> QED BY <2>1, <2>2
<1> HIDE DEF G, Known
<1>8. \A i \in 1 .. last : i \in Nat /\ last - i \in Nat /\ last - i \in G
  BY <1>1, <1>6, <1>7, CountingUp
<1>9. \A i \in 1 .. last : Known(i)
  BY <1>1, <1>8 DEF G
<1> QED BY <1>9 DEF Known, K, E, last

(* So a beginning of the ids of a text says a beginning of what can be     *)
(* said of it.                                                             *)
LEMMA KnownSurvives ==
  ASSUME NEW tok, Loaded(tok), Agrees(tok), SpelledOut(tok), NEW text \in Texts,
         NEW m \in 0 .. Len(Encode(tok, text))
  PROVE  IsPrefix(Decode(tok, SubSeq(Encode(tok, text), 1, m)), KnownCharacters(tok, text))
<1> DEFINE ids == Encode(tok, text)
           K == Knowing(tok, text)
<1>1. ids = Encoding(tok, text)[1] /\ ids \in Seq(Nat) /\ 1 \in 1 .. Len(text) + 1
  <2>1. Len(text) \in Nat
    BY DEF Texts
  <2>2. 1 \in 1 .. Len(text) + 1
    BY <2>1
  <2> QED BY <2>2, EncodingSays
<1>2. Decode(tok, SubSeq(ids, 1, m)) = Decoding(tok, ids)[m]
  BY <1>1, DecodeBeginning
<1>3. PICK j \in 0 .. Len(text) : K[1 - 1] \o Decoding(tok, ids)[m] = K[j]
  <2>1. \A l \in 0 .. Len(Encoding(tok, text)[1]) : \E j \in 0 .. Len(text) :
          K[1 - 1] \o Decoding(tok, Encoding(tok, text)[1])[l] = K[j]
    BY <1>1, EncodedIsKnown
  <2> QED BY <1>1, <2>1
<1>4. K[1 - 1] = <<>>
  <2>1. IsKnowing(tok, text, K) /\ Len(text) \in Nat
    BY KnowingSays DEF Texts
  <2> HIDE DEF K
  <2> QED BY <2>1 DEF IsKnowing
<1>5. Decoding(tok, ids)[m] \in Texts
  <2>1. Decoding(tok, ids) \in [0 .. Len(ids) -> Texts] /\ m \in 0 .. Len(ids)
    BY <1>1, DecodingSays
  <2> QED BY <2>1
<1>6. Decoding(tok, ids)[m] = K[j]
  BY <1>3, <1>4, <1>5, JoinedNothing
<1> QED BY <1>2, <1>6, KnownGrows

-----------------------------------------------------------------------------
(* What load makes of tokenizer.json.                                      *)

(* The largest of some numbers below a bound is one of them.               *)
LEMMA MaxIs ==
  ASSUME NEW T, T \subseteq Nat, T # {}, NEW n \in Nat, \A m \in T : m <= n
  PROVE  Max(T) \in T /\ \A m \in T : m <= Max(T)
<1>1. \E m \in T : \A k \in T : m >= k
  <2>1. PICK m \in T : \A k \in T : k <= m
    BY LargestElement
  <2>2. \A k \in T : m >= k
    BY <2>1
  <2> QED BY <2>2
<1>2. Max(T) \in T /\ \A k \in T : Max(T) >= k
  BY <1>1 DEF Max
<1>3. \A m \in T : m <= Max(T)
  BY <1>2
<1> QED BY <1>2, <1>3

(* What is loaded is a tokenizer, and if the ids are nobody else's it      *)
(* agrees with itself.                                                     *)
LEMMA LoadSays ==
  ASSUME NEW file \in Files
  PROVE  Loaded(Load(file)) /\ (IdsAreOwn(file) => Agrees(Load(file)))
<1> DEFINE vocab == Narrow(file).vocab
           added == Narrow(file).added
           texts == {added[i].content : i \in DOMAIN added}
           ids == {added[i].id : i \in DOMAIN added}
           known == {vocab[t] : t \in DOMAIN vocab}
           all == known \cup ids \cup {0}
           WithText(t) == {i \in DOMAIN added : added[i].content = t}
           WithId(id) == {i \in DOMAIN added : added[i].id = id}
           tok == Load(file)
<1>1. /\ IsFiniteSet(DOMAIN vocab)
      /\ \A t \in DOMAIN vocab : t \in Texts /\ vocab[t] \in Nat
      /\ added \in Seq([id : Nat, content : Texts])
  <2>1. /\ IsFiniteSet(DOMAIN file.vocab)
        /\ \A t \in DOMAIN file.vocab : t \in Texts /\ file.vocab[t] \in Nat
        /\ file.added \in Seq([id : Nat, content : Texts])
    BY NpuAssumption
  <2>0. IdCount \in Nat /\ IdCount > 0
    <3>1. IdCount \in Nat \ {0}
      BY TokenizerAssumption
    <3> QED BY <3>1
  <2>2. \A n \in Nat : n % IdCount \in Nat
    BY <2>0
  <2>3. vocab = [t \in DOMAIN file.vocab |-> file.vocab[t] % IdCount]
    BY DEF Narrow
  <2>4. added = [i \in DOMAIN file.added |->
                   [id |-> file.added[i].id % IdCount, content |-> file.added[i].content]]
    BY DEF Narrow
  <2>5. /\ Len(file.added) \in Nat /\ DOMAIN file.added = 1 .. Len(file.added)
        /\ \A i \in DOMAIN file.added : file.added[i] \in [id : Nat, content : Texts]
    <3>1. Len(file.added) \in Nat /\ DOMAIN file.added = 1 .. Len(file.added)
      BY <2>1
    <3> QED BY <2>1, <3>1, ElementOfSeq
  <2> HIDE DEF vocab, added
  <2>6. \A i \in DOMAIN file.added :
          file.added[i].id % IdCount \in Nat /\ file.added[i].content \in Texts
    BY <2>2, <2>5
  <2>7. added \in [1 .. Len(file.added) -> [id : Nat, content : Texts]]
    BY <2>4, <2>5, <2>6
  <2>8. added \in Seq([id : Nat, content : Texts])
    <3> DEFINE S == [id : Nat, content : Texts]
               n == Len(file.added)
    <3>1. added \in [1 .. n -> S] /\ n \in Nat
      BY <2>5, <2>7
    <3> HIDE DEF S, n
    <3>2. added \in Seq(S)
      BY <3>1
    <3> QED BY <3>2 DEF S
  <2> QED BY <2>1, <2>2, <2>3, <2>8
<1>2. /\ tok.vocab = [t \in DOMAIN vocab \cup texts |->
                        IF t \in texts THEN added[Max(WithText(t))].id ELSE vocab[t]]
      /\ tok.id_to_token = [id \in 0 .. Max(all) |->
           IF id \in ids THEN added[Max(WithId(id))].content
           ELSE IF id \in known
           THEN CHOOSE t \in DOMAIN vocab : vocab[t] = id
           ELSE <<"<unk>">>]
  BY DEF Load, LastAdded
<1> HIDE DEF tok
<1>3. /\ Len(added) \in Nat /\ DOMAIN added = 1 .. Len(added)
      /\ \A i \in DOMAIN added : added[i].id \in Nat /\ added[i].content \in Texts
  <2>1. Len(added) \in Nat /\ DOMAIN added = 1 .. Len(added)
    BY <1>1
  <2>2. \A i \in DOMAIN added : added[i] \in [id : Nat, content : Texts]
    BY <1>1, <2>1, ElementOfSeq
  <2> QED BY <2>1, <2>2
<1> HIDE DEF added, vocab
<1>4. ASSUME NEW t \in texts
      PROVE  Max(WithText(t)) \in DOMAIN added /\ added[Max(WithText(t))].content = t
  <2>1. WithText(t) \subseteq Nat /\ WithText(t) # {} /\ \A i \in WithText(t) : i <= Len(added)
    BY <1>3
  <2>2. Max(WithText(t)) \in WithText(t)
    <3> HIDE DEF WithText
    <3> QED BY <1>3, <2>1, MaxIs
  <2> QED BY <2>2
<1>5. ASSUME NEW id \in ids
      PROVE  Max(WithId(id)) \in DOMAIN added /\ added[Max(WithId(id))].id = id
  <2>1. WithId(id) \subseteq Nat /\ WithId(id) # {} /\ \A i \in WithId(id) : i <= Len(added)
    BY <1>3
  <2>2. Max(WithId(id)) \in WithId(id)
    <3> HIDE DEF WithId
    <3> QED BY <1>3, <2>1, MaxIs
  <2> QED BY <2>2
<1>6. Max(all) \in Nat /\ \A id \in all : id \in 0 .. Max(all)
  <2>1. PICK n \in Nat : \A t \in DOMAIN vocab : vocab[t] <= n
    BY <1>1, FiniteBounded
  <2> DEFINE idOf == [i \in DOMAIN added |-> added[i].id]
  <2>2. PICK m \in Nat : \A i \in DOMAIN added : idOf[i] <= m
    <3>1. IsFiniteSet(DOMAIN added) /\ \A i \in DOMAIN added : idOf[i] \in Nat
      BY <1>3, FS_Interval
    <3> HIDE DEF idOf
    <3> QED BY <3>1, FiniteBounded
  <2>3. all \subseteq Nat /\ all # {} /\ n + m \in Nat
    BY <1>1, <1>3
  <2>4. \A id \in all : id <= n + m
    BY <1>1, <1>3, <2>1, <2>2
  <2> HIDE DEF all
  <2>5. Max(all) \in all /\ \A id \in all : id <= Max(all)
    BY <2>3, <2>4, MaxIs
  <2>6. Max(all) \in Nat /\ \A id \in all : id \in Nat /\ id <= Max(all)
    BY <2>3, <2>5
  <2> QED BY <2>6
<1> HIDE DEF WithText, WithId
<1>7. Loaded(tok)
  <2>1. ASSUME NEW t \in DOMAIN tok.vocab PROVE t \in Texts /\ tok.vocab[t] \in Nat
    <3>1. CASE t \in texts
      BY <1>2, <1>3, <1>4, <3>1
    <3>2. CASE t \notin texts
      BY <1>1, <1>2, <3>2
    <3> QED BY <3>1, <3>2
  <2>2. ASSUME NEW id \in DOMAIN tok.id_to_token PROVE tok.id_to_token[id] \in Texts
    <3>1. CASE id \in ids
      BY <1>2, <1>3, <1>5, <3>1
    <3>2. CASE id \notin ids /\ id \in known
      <4>1. (CHOOSE t \in DOMAIN vocab : vocab[t] = id) \in DOMAIN vocab
        BY <3>2
      <4> QED BY <1>1, <1>2, <3>2, <4>1
    <3>3. CASE id \notin ids /\ id \notin known
      <4>1. <<"<unk>">> \in Texts
        BY TokenizerAssumption DEF Texts
      <4> QED BY <1>2, <3>3, <4>1
    <3> QED BY <3>1, <3>2, <3>3
  <2> QED BY <2>1, <2>2 DEF Loaded
<1>8. ASSUME IdsAreOwn(file) PROVE Agrees(tok)
  <2> SUFFICES ASSUME NEW t \in DOMAIN tok.vocab
               PROVE  /\ tok.vocab[t] \in DOMAIN tok.id_to_token
                      /\ tok.id_to_token[tok.vocab[t]] = t
    BY DEF Agrees
  <2> DEFINE id == tok.vocab[t]
  <2>1. CASE t \in texts
    <3>1. id = added[Max(WithText(t))].id /\ id \in ids
      BY <1>2, <1>4, <2>1
    <3>2. tok.id_to_token[id] = added[Max(WithId(id))].content /\ id \in DOMAIN tok.id_to_token
      BY <1>2, <1>6, <3>1
    <3>3. added[Max(WithId(id))].content = added[Max(WithText(t))].content
      <4> HIDE DEF id
      <4> QED BY <1>4, <1>5, <1>8, <2>1, <3>1 DEF IdsAreOwn, added, vocab
    <3> QED BY <1>4, <2>1, <3>2, <3>3
  <2>2. CASE t \notin texts
    <3>1. t \in DOMAIN vocab /\ id = vocab[t] /\ id \in known
      BY <1>2, <2>2
    <3> HIDE DEF id
    <3>2. id \notin ids
      BY <1>8, <2>2, <3>1 DEF IdsAreOwn, added, vocab
    <3>3. (CHOOSE u \in DOMAIN vocab : vocab[u] = id) = t
      BY <1>8, <3>1 DEF IdsAreOwn, vocab
    <3>4. tok.id_to_token[id] = t /\ id \in DOMAIN tok.id_to_token
      BY <1>2, <1>6, <3>1, <3>2, <3>3
    <3> QED BY <3>4 DEF id
  <2> QED BY <2>1, <2>2
<1> QED BY <1>7, <1>8 DEF tok

-----------------------------------------------------------------------------
(* What engines are given, and what is answered.                           *)

(* What requests ask of their engines.                                     *)
Jobs == [messages : Messages, input : Seq(Nat), gen_count : Nat]

(* The inductive invariant about what the engines are given and print: an  *)
(* engine is given what its own request asks, cut off, and prints ids.     *)
JobInv ==
  /\ tokenizer \in Tokenizers
  /\ job \in [Requests -> Jobs] /\ output \in [Requests -> Seq(Nat)]
  /\ DOMAIN answer = Requests
  /\ \A r \in Requests : job[r] # NoJob =>
       job[r].input = Truncated(Encode(tokenizer, Prompt(job[r].messages)))

(* What the engine is given is a sequence of ids.                          *)
LEMMA GivenIds ==
  ASSUME NEW t \in Tokenizers, NEW r \in Requests, NEW body \in Bodies[r]
  PROVE  /\ Encoded[t][body.messages] = Encode(t, Prompt(body.messages))
         /\ body.messages \in Messages /\ body.max_tokens \in Nat
         /\ Truncated(Encode(t, Prompt(body.messages))) \in Seq(Nat)
<1>1. r \in DOMAIN Bodies /\ body.messages \in Messages /\ body.max_tokens \in Nat
  BY NpuAssumption DEF Messages
<1>2. body.messages \in Conversations
  BY <1>1 DEF Conversations, Range
<1>3. Encoded[t][body.messages] = Encode(t, Prompt(body.messages))
  BY <1>2 DEF Encoded
<1>4. Loaded(t)
  BY LoadSays DEF Tokenizers
<1> DEFINE text == Prompt(body.messages)
           ids == Encode(t, text)
<1>5. text \in Texts
  BY <1>1, PromptType
<1> HIDE DEF text
<1>6. ids \in Seq(Nat)
  <2>1. Len(text) \in Nat
    BY <1>5 DEF Texts
  <2>2. 1 \in 1 .. Len(text) + 1
    BY <2>1
  <2> QED BY <1>4, <1>5, <2>2, EncodingSays
<1> HIDE DEF ids
<1>7. Truncated(ids) \in Seq(Nat)
  <2> DEFINE m == Min({MaxPrompt, Len(ids)})
  <2>0. Len(ids) \in Nat /\ MaxPrompt \in Nat
    BY <1>6, NpuAssumption
  <2>1. m \in Nat /\ m <= Len(ids)
    BY <2>0, MinOfTwo
  <2> HIDE DEF m
  <2>2. \A i \in 1 .. m : ids[i] \in Nat
    BY <1>6, <2>1
  <2>3. SubSeq(ids, 1, m) \in Seq(Nat)
    BY <2>1, <2>2, SubSeqProperties
  <2> QED BY <2>3 DEF Truncated, m
<1> QED BY <1>1, <1>3, <1>7 DEF ids, text

(* A permit that is dropped makes nobody else done, answered or failed.    *)
LEMMA ReleaseOthers ==
  ASSUME NpuTypeOK, NEW r \in Requests, NEW to, Release(r, to), NEW s \in Requests
  PROVE  /\ s # r /\ phase'[s] # phase[s] => phase'[s] = "granted"
         /\ s = r => phase'[s] \in {to, "granted"}
<1>1. phase \in [Requests -> Phases]
  BY DEF NpuTypeOK
<1> QED BY <1>1 DEF Release

(* Every step of npu-server keeps it.                                      *)
LEMMA JobStep == NpuTypeOK /\ JobInv /\ [NpuNext]_npuVars => JobInv'
<1> SUFFICES ASSUME NpuTypeOK, JobInv, [NpuNext]_npuVars PROVE JobInv'
  OBVIOUS
<1>0. /\ phase \in [Requests -> Phases] /\ tokenizer \in Tokenizers
      /\ job \in [Requests -> Jobs] /\ output \in [Requests -> Seq(Nat)]
      /\ NoJob \in Jobs /\ <<>> \in Seq(Nat)
  <2>1. <<>> \in Messages /\ <<>> \in Seq(Nat)
    BY DEF Messages
  <2>2. NoJob \in Jobs
    BY <2>1 DEF Jobs, NoJob
  <2> QED BY <2>1, <2>2 DEF NpuTypeOK, JobInv
<1>a. ASSUME tokenizer' = tokenizer, DOMAIN answer' = Requests,
             job' \in [Requests -> Jobs], output' \in [Requests -> Seq(Nat)],
             \A s \in Requests : job'[s] # job[s] => job'[s] = NoJob
      PROVE  JobInv'
  <2>1. \A s \in Requests : job'[s] # NoJob =>
          job'[s].input = Truncated(Encode(tokenizer', Prompt(job'[s].messages)))
    BY <1>a DEF JobInv
  <2> QED BY <1>0, <1>a, <2>1 DEF JobInv, Truncated
<1>1. CASE UNCHANGED npuVars
  BY <1>0, <1>1, <1>a DEF npuVars, JobInv
<1>2. ASSUME NEW r \in Requests, Refuse(r) PROVE JobInv'
  BY <1>0, <1>2, <1>a DEF Refuse, JobInv
<1>3. ASSUME NEW r \in Requests, Arrive(r) PROVE JobInv'
  <2>1. PICK body \in Bodies[r] :
          job' = [job EXCEPT ![r] = [messages |-> body.messages,
                                     input |-> Truncated(Encoded[tokenizer][body.messages]),
                                     gen_count |-> Min({body.max_tokens, MaxTokens})]]
    BY <1>3 DEF Arrive
  <2> DEFINE new == [messages |-> body.messages,
                     input |-> Truncated(Encode(tokenizer, Prompt(body.messages))),
                     gen_count |-> Min({body.max_tokens, MaxTokens})]
  <2>2. Encoded[tokenizer][body.messages] = Encode(tokenizer, Prompt(body.messages))
    BY <1>0, GivenIds
  <2>3. new \in Jobs
    <3>1. Min({body.max_tokens, MaxTokens}) \in Nat
      BY <1>0, GivenIds, MinOfTwo, NpuAssumption
    <3> QED BY <1>0, <3>1, GivenIds DEF Jobs
  <2>4. new.input = Truncated(Encode(tokenizer, Prompt(new.messages)))
    OBVIOUS
  <2>5. job' = [job EXCEPT ![r] = new]
    BY <2>1, <2>2
  <2> HIDE DEF new
  <2>6. job' \in [Requests -> Jobs] /\ job'[r] = new /\ \A s \in Requests : s # r => job'[s] = job[s]
    BY <1>0, <2>3, <2>5
  <2>7. tokenizer' = tokenizer /\ output' = output /\ answer' = answer
    BY <1>3 DEF Arrive
  <2>8. \A s \in Requests : job'[s] # NoJob =>
          job'[s].input = Truncated(Encode(tokenizer', Prompt(job'[s].messages)))
    BY <2>4, <2>6, <2>7 DEF JobInv
  <2> QED BY <1>0, <2>6, <2>7, <2>8 DEF JobInv, Truncated
<1>4. ASSUME NEW r \in Requests, Spawn(r) PROVE JobInv'
  <2>1. /\ tokenizer' = tokenizer /\ output' = output /\ answer' = answer
        /\ job' = job \/ job' = [job EXCEPT ![r] = NoJob]
    BY <1>4 DEF Spawn
  <2> QED BY <1>0, <1>a, <2>1 DEF JobInv
<1>5. ASSUME NEW r \in Requests, EngineExits(r) PROVE JobInv'
  <2>1. tokenizer' = tokenizer /\ job' = job /\ answer' = answer
    BY <1>5 DEF EngineExits
  <2>2. output' = output \/ \E ids \in Seq(Nat) : output' = [output EXCEPT ![r] = ids]
    BY <1>5 DEF EngineExits
  <2>3. output' \in [Requests -> Seq(Nat)]
    BY <1>0, <2>2
  <2> QED BY <1>0, <1>a, <2>1, <2>3 DEF JobInv
<1>6. ASSUME NEW r \in Requests, Cancel(r) PROVE JobInv'
  <2>1. /\ tokenizer' = tokenizer /\ answer' = answer
        /\ job' = [job EXCEPT ![r] = NoJob] /\ output' = [output EXCEPT ![r] = <<>>]
    BY <1>6 DEF Cancel
  <2> QED BY <1>0, <1>a, <2>1 DEF JobInv
<1>7. ASSUME NEW r \in Requests, NEW stream \in BOOLEAN, Respond(r, stream)
      PROVE  JobInv'
  <2>1. /\ tokenizer' = tokenizer /\ DOMAIN answer' = Requests
        /\ job' = [job EXCEPT ![r] = NoJob] /\ output' = [output EXCEPT ![r] = <<>>]
    BY <1>7 DEF Respond, JobInv
  <2> QED BY <1>0, <1>a, <2>1 DEF JobInv
<1> QED BY <1>1, <1>2, <1>3, <1>4, <1>5, <1>6, <1>7 DEF NpuNext

(* And it holds when the server begins to serve.                           *)
LEMMA JobHolds == NpuSpec => []JobInv
<1>1. NpuInit => JobInv
  BY DEF NpuInit, JobInv, Jobs, NoJob, Messages
<1>2. NpuSpec => []NpuTypeOK
  BY ControlHolds, PTL DEF ControlInv
<1> QED BY <1>1, <1>2, JobStep, PTL DEF NpuSpec

(* What follows the input in what was printed, if that begins with it.     *)
LEMMA GeneratedFollows ==
  ASSUME NEW input \in Seq(Nat), NEW gen \in Seq(Nat)
  PROVE  SubSeq(input \o gen, Len(input) + 1, Len(input \o gen)) = gen
<1> DEFINE n == Len(input)
           all == input \o gen
           rest == SubSeq(all, n + 1, n + Len(gen))
<1>1. n \in Nat /\ Len(gen) \in Nat
  OBVIOUS
<1>2. /\ all \in Seq(Nat) /\ Len(all) = n + Len(gen)
      /\ \A i \in 1 .. n + Len(gen) : all[i] = IF i <= n THEN input[i] ELSE gen[i - n]
  BY ConcatProperties
<1> HIDE DEF all, n
<1>3. \A i \in n + 1 .. n + Len(gen) : all[i] \in Nat
  BY <1>1, <1>2
<1>4. (n + Len(gen)) - (n + 1) + 1 = Len(gen) /\ n + 1 \in Int /\ n + Len(gen) \in Int
  BY <1>1
<1>5. /\ rest \in Seq(Nat)
      /\ Len(rest) = IF n + 1 <= n + Len(gen) THEN (n + Len(gen)) - (n + 1) + 1 ELSE 0
      /\ \A i \in 1 .. (n + Len(gen)) - (n + 1) + 1 : rest[i] = all[(n + 1) + i - 1]
  BY <1>3, <1>4, SubSeqProperties
<1> HIDE DEF rest
<1>6. Len(rest) = Len(gen)
  BY <1>1, <1>5
<1>7. ASSUME NEW i \in 1 .. Len(gen) PROVE rest[i] = gen[i]
  <2>1. /\ (n + 1) + i - 1 = n + i /\ n + i \in 1 .. n + Len(gen)
        /\ ~(n + i <= n) /\ (n + i) - n = i
    BY <1>1
  <2> QED BY <1>2, <1>4, <1>5, <2>1
<1>8. rest = gen
  BY <1>5, <1>6, <1>7, SeqEqual
<1> QED BY <1>2, <1>8 DEF all, rest, n

(* What Respond takes for the answer: nothing unless more was printed than *)
(* the input, and what follows the input if that was printed first.        *)
LEMMA AnswerTaken ==
  ASSUME JobInv, NEW r \in Requests,
         NEW taken, taken = SubSeq(output[r], Len(job[r].input) + 1, Len(output[r]))
  PROVE  /\ taken # <<>> => Len(output[r]) > Len(job[r].input)
         /\ \A g \in Suffixes(output[r]) : output[r] = job[r].input \o g => g = taken
<1>1. output[r] \in Seq(Nat) /\ job[r].input \in Seq(Nat)
  BY DEF JobInv, Jobs
<1>2. Len(output[r]) \in Nat /\ Len(job[r].input) \in Nat
  BY <1>1
<1>3. ASSUME ~(Len(output[r]) > Len(job[r].input)) PROVE taken = <<>>
  <2> DEFINE n == Len(output[r])
             m == Len(job[r].input) + 1
  <2>1. n \in Int /\ m \in Int /\ n < m
    BY <1>2, <1>3
  <2>2. taken = SubSeq(output[r], m, n)
    OBVIOUS
  <2> HIDE DEF n, m
  <2> QED BY <2>1, <2>2, SubSeqEmpty
<1>4. ASSUME NEW g \in Suffixes(output[r]), output[r] = job[r].input \o g PROVE g = taken
  <2>1. g \in Seq(Nat)
    <3>1. CASE g = <<>>
      BY <3>1
    <3>2. ASSUME NEW l \in 1 .. Len(output[r]), g = SubSeq(output[r], l, Len(output[r]))
          PROVE  g \in Seq(Nat)
      <4>1. l \in Int /\ Len(output[r]) \in Int /\ \A i \in l .. Len(output[r]) : output[r][i] \in Nat
        BY <1>1, <1>2
      <4> QED BY <3>2, <4>1, SubSeqProperties
    <3> QED BY <1>4, <3>1, <3>2 DEF Suffixes
  <2> QED BY <1>1, <1>4, <2>1, GeneratedFollows
<1> QED BY <1>3, <1>4

(* For an engine that prints its input and then what it generates, the     *)
(* answer is all that it generated, but for the first token in a stream,   *)
(* and there is none only if it generated nothing; from one that printed   *)
(* no more than its input no answer is made.                               *)
THEOREM AnswerContinuesPromptHolds == NpuSpec => AnswerContinuesPrompt
<1> DEFINE Generates(r, g) == output[r] = job[r].input \o g
           Said(r, g) == Decode(tokenizer, IF answer'[r].stream THEN Tail(g) ELSE g)
           Continues(r) ==
             /\ phase[r] # "answered" /\ phase'[r] = "answered" =>
                  /\ Len(output[r]) > Len(job[r].input)
                  /\ \A g \in Suffixes(output[r]) :
                       Generates(r, g) => answer'[r].text = Said(r, g)
             /\ phase[r] = "done" /\ phase'[r] = "failed" =>
                  \A g \in Suffixes(output[r]) : Generates(r, g) => g = <<>>
<1>1. NpuTypeOK /\ JobInv /\ [NpuNext]_npuVars => [\A r \in Requests : Continues(r)]_npuVars
  <2> SUFFICES ASSUME NpuTypeOK, JobInv, NpuNext, NEW s \in Requests
               PROVE  Continues(s)
    BY DEF npuVars
  <2>0. phase \in [Requests -> Phases] /\ DOMAIN answer = Requests
    BY DEF NpuTypeOK, JobInv
  <2>a. ASSUME NEW r \in Requests, NEW to \in {"failed", "left"}, Release(r, to),
               phase[r] # "done" \/ to = "left"
        PROVE  (phase'[s] # phase[s] => phase'[s] # "answered") /\
               (phase[s] = "done" /\ phase'[s] # phase[s] => phase'[s] # "failed")
    BY <2>a, ReleaseOthers
  <2>1. ASSUME NEW r \in Requests, Refuse(r) \/ Arrive(r) \/ Spawn(r) \/ EngineExits(r) \/ Cancel(r)
        PROVE  (phase'[s] # phase[s] => phase'[s] # "answered") /\
               (phase[s] = "done" /\ phase'[s] # phase[s] => phase'[s] # "failed")
    <3>1. CASE Refuse(r)
      BY <2>0, <3>1 DEF Refuse
    <3>2. CASE Arrive(r)
      BY <2>0, <3>2 DEF Arrive, Acquire
    <3>3. CASE Spawn(r)
      <4>1. CASE phase' = [phase EXCEPT ![r] = "running"]
        BY <2>0, <4>1
      <4>2. CASE Release(r, "failed")
        BY <2>a, <3>3, <4>2 DEF Spawn
      <4> QED BY <3>3, <4>1, <4>2 DEF Spawn
    <3>4. CASE EngineExits(r)
      <4>1. phase' = phase \/ phase' = [phase EXCEPT ![r] = "done"]
        BY <3>4 DEF EngineExits
      <4> QED BY <2>0, <4>1
    <3>5. CASE Cancel(r)
      <4>1. CASE phase' = [phase EXCEPT ![r] = "left"]
        BY <2>0, <4>1
      <4>2. CASE Release(r, "left")
        BY <2>a, <4>2
      <4> QED BY <3>5, <4>1, <4>2 DEF Cancel
    <3> QED BY <2>1, <3>1, <3>2, <3>3, <3>4, <3>5
  <2>2. ASSUME NEW r \in Requests, NEW stream \in BOOLEAN, Respond(r, stream)
        PROVE  Continues(s)
    <3> DEFINE taken == SubSeq(output[r], Len(job[r].input) + 1, Len(output[r]))
    <3>1. /\ phase[r] = "done" /\ tokenizer' = tokenizer
          /\ \/ taken = <<>> /\ Release(r, "failed")
             \/ /\ taken # <<>> /\ Release(r, "answered")
                /\ answer' = [answer EXCEPT ![r] = Content(taken, stream)]
      BY <2>2 DEF Respond
    <3>2. /\ taken # <<>> => Len(output[r]) > Len(job[r].input)
          /\ \A g \in Suffixes(output[r]) : Generates(r, g) => g = taken
      BY AnswerTaken
    <3> HIDE DEF taken
    <3>3. CASE taken = <<>> /\ Release(r, "failed")
      BY <3>2, <3>3, ReleaseOthers
    <3>4. CASE /\ taken # <<>> /\ Release(r, "answered")
               /\ answer' = [answer EXCEPT ![r] = Content(taken, stream)]
      <4>1. CASE s = r
        <5>1. answer'[r].stream = stream /\ answer'[r].text = Said(r, taken)
          BY <2>0, <3>4 DEF Content
        <5>2. phase'[s] \in {"answered", "granted"}
          BY <3>4, <4>1, ReleaseOthers
        <5>3. \A g \in Suffixes(output[r]) : Generates(r, g) => answer'[r].text = Said(r, g)
          BY <3>2, <5>1
        <5> HIDE DEF Generates, Said
        <5> QED BY <3>2, <3>4, <4>1, <5>2, <5>3
      <4>2. CASE s # r
        BY <3>4, <4>2, ReleaseOthers
      <4> QED BY <4>1, <4>2
    <3> QED BY <3>1, <3>3, <3>4
  <2> QED BY <2>1, <2>2 DEF NpuNext
<1>2. NpuSpec => []NpuTypeOK
  BY ControlHolds, PTL DEF ControlInv
<1>3. NpuSpec => [][\A r \in Requests : Continues(r)]_npuVars
  BY <1>1, <1>2, JobHolds, PTL DEF NpuSpec
<1> QED BY <1>3 DEF AnswerContinuesPrompt

(* If no id of tokenizer.json is another's, the engine is given the        *)
(* beginning of the prompt, each character of which that is a token once   *)
(* and in order.  (Without that decode need not undo encode.)              *)
THEOREM KnownTextSurvivesHolds ==
  ASSUME \A file \in Files : IdsAreOwn(file)
  PROVE  NpuSpec => []KnownTextSurvives
<1>1. JobInv => KnownTextSurvives
  <2> SUFFICES ASSUME JobInv, CharactersAreTokens, NEW r \in Requests, job[r] # NoJob
               PROVE  IsPrefix(Decode(tokenizer, job[r].input),
                               KnownCharacters(tokenizer, Prompt(job[r].messages)))
    BY DEF KnownTextSurvives
  <2> DEFINE text == Prompt(job[r].messages)
             ids == Encode(tokenizer, text)
             m == Min({MaxPrompt, Len(ids)})
  <2>1. Loaded(tokenizer) /\ Agrees(tokenizer) /\ SpelledOut(tokenizer)
    <3>1. PICK file \in Files : tokenizer = Load(file)
      BY DEF JobInv, Tokenizers
    <3> QED BY <3>1, LoadSays DEF CharactersAreTokens, SpelledOut
  <2>2. text \in Texts
    BY PromptType DEF JobInv, Jobs
  <2>3. job[r].input = SubSeq(ids, 1, m)
    BY DEF JobInv, Truncated
  <2> HIDE DEF text
  <2>4. ids \in Seq(Nat)
    <3>1. Len(text) \in Nat
      BY <2>2 DEF Texts
    <3>2. 1 \in 1 .. Len(text) + 1
      BY <3>1
    <3> QED BY <2>1, <2>2, <3>2, EncodingSays
  <2>5. m \in 0 .. Len(ids)
    <3> HIDE DEF ids
    <3>1. Len(ids) \in Nat /\ MaxPrompt \in Nat
      BY <2>4, NpuAssumption
    <3>2. m \in Nat /\ m <= Len(ids)
      BY <3>1, MinOfTwo
    <3> QED BY <3>1, <3>2
  <2> HIDE DEF m
  <2>6. IsPrefix(Decode(tokenizer, SubSeq(ids, 1, m)), KnownCharacters(tokenizer, text))
    BY <2>1, <2>2, <2>5, KnownSurvives
  <2> QED BY <2>3, <2>6 DEF text
<1> QED BY <1>1, JobHolds, PTL

=============================================================================
