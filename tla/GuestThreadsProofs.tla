-------------------------- MODULE GuestThreadsProofs --------------------------
(***************************************************************************)
(* Proofs about pthread_create, join and detach, for any number of threads *)
(* and any ceiling.                                                        *)
(*                                                                         *)
(* What a join answers is settled long before it answers: when it was      *)
(* called for a thread noted as started, and nobody else has that thread,  *)
(* the host thread is there to be waited for and stays until it is         *)
(* (InTime).  That nobody else has it is Claims; that a slot has one host  *)
(* thread is Slots.                                                        *)
(***************************************************************************)
EXTENDS GuestThreads, FiniteSetTheorems, TLAPS

(* The threads that count as alive, and the counter.                       *)
Live == {i \in Ids : life[i] \in {"running", "stored"}}
Counted == g_live_threads = Cardinality(Live)

(* A slot is unused until it is handed out, and then one Create's.         *)
Slots ==
  /\ \A i \in Ids : i > made => life[i] = "none"
  /\ \A a \in Callers : op[a][1] \notin {"guest", "create"} => Of(a) \in Ids
  /\ \A a \in Callers : At(a, "start") => Of(a) <= made /\ life[Of(a)] = "made"
  /\ \A a, b \in Callers : At(a, "start") /\ At(b, "start") /\ Of(a) = Of(b) => a = b

Results == \A i \in Ids : life[i] \in {"stored", "ended"} => result[i] = i

ClaimSteps == {"join", "copy", "detach"}
Claims ==
  /\ \A a \in Callers : op[a][1] \in ClaimSteps => Of(a) \in claimed
  /\ \A a, b \in Callers :
       op[a][1] \in ClaimSteps /\ op[b][1] \in ClaimSteps /\ Of(a) = Of(b) => a = b
  /\ \A i \in Ids : answer[i] # None \/ detached[i] => i \in claimed

(* What a call that came in time relies on.                                *)
InTime ==
  \A a \in Callers : op[a][1] \in ClaimSteps /\ Of(a) \notin overtook =>
    IF At(a, "copy") THEN life[Of(a)] = "ended" /\ Of(a) \in reaped ELSE started[Of(a)]

IInv ==
  /\ TypeOK
  /\ Counted
  /\ Slots
  /\ Results
  /\ Claims
  /\ InTime
  /\ JoinDeliversResult
  /\ NoHostThreadLeft

(* A set of slots is finite and no larger than the number of slots.        *)
LEMMA FewThreads ==
  ASSUME NEW S, S \subseteq Ids
  PROVE  IsFiniteSet(S) /\ Cardinality(S) \in 0..MaxThreads
<1>1. IsFiniteSet(Ids) /\ Cardinality(Ids) = MaxThreads
  BY FS_Interval, ThreadsAssumption DEF Ids
<1>2. IsFiniteSet(S) /\ Cardinality(S) <= Cardinality(Ids)
  BY <1>1, FS_Subset
<1>3. Cardinality(S) \in Nat
  BY <1>2, FS_CardinalityType
<1> QED
  BY <1>1, <1>2, <1>3, ThreadsAssumption

(* A caller moves on, and the others stay where they are.                  *)
LEMMA MovesOn ==
  ASSUME TypeOK, NEW a \in Callers, NEW step \in Steps, NEW i \in Ids \cup {0}, Do(a, step, i)
  PROVE  /\ op' \in [Callers -> Steps \X (Ids \cup {0})]
         /\ op'[a][1] = step /\ op'[a][2] = i
         /\ \A b \in Callers \ {a} : op'[b] = op[b]
  BY DEF TypeOK, Do

(* No thread to begin with.                                                *)
LEMMA InitIInv == Init => IInv
<1> SUFFICES ASSUME Init PROVE IInv
  OBVIOUS
<1>1. \A a \in Callers : op[a][1] = "guest" /\ op[a][2] = 0
  BY DEF Init
<1>2. TypeOK
  BY ThreadsAssumption DEF Init, TypeOK, Ids, Lives, Steps, None
<1>3. Counted
  <2>1. Live = {}
    BY DEF Init, Live
  <2> QED
    BY <2>1, FS_EmptySet DEF Init, Counted
<1>4. Slots /\ Results /\ Claims /\ InTime
  BY <1>1 DEF Init, Slots, Results, Claims, ClaimSteps, InTime, At
<1>5. JoinDeliversResult /\ NoHostThreadLeft
  BY DEF Init, JoinDeliversResult, NoHostThreadLeft
<1> QED
  BY <1>2, <1>3, <1>4, <1>5 DEF IInv

-----------------------------------------------------------------------------
(* Create looks at the ceiling.                                            *)
LEMMA CheckCeilingKeeps ==
  ASSUME IInv, NEW a \in Callers, CheckCeiling(a)
  PROVE  IInv'
<1>1. /\ At(a, "guest") /\ Do(a, "create", 0)
      /\ UNCHANGED <<made, g_live_threads, life, slot, known, history>>
  BY DEF CheckCeiling, InGuest
<1>2. /\ op' \in [Callers -> Steps \X (Ids \cup {0})]
      /\ op'[a][1] = "create" /\ op'[a][2] = 0
      /\ \A b \in Callers \ {a} : op'[b] = op[b]
  BY <1>1, MovesOn DEF IInv, Steps
<1>3. TypeOK' /\ Counted' /\ Results' /\ JoinDeliversResult'
  BY <1>1, <1>2 DEF IInv, TypeOK, Counted, Live, Results, JoinDeliversResult, slot, history
<1>4. Slots'
  BY <1>1, <1>2 DEF IInv, Slots, At, Of
<1>5. Claims' /\ InTime'
  BY <1>1, <1>2 DEF IInv, Claims, InTime, ClaimSteps, At, Of, slot, history
<1>6. NoHostThreadLeft'
  BY <1>1, <1>2 DEF IInv, NoHostThreadLeft, At, Of, slot, history
<1> QED
  BY <1>3, <1>4, <1>5, <1>6 DEF IInv

(* The new slot is nobody else's.                                          *)
LEMMA ObtainSlotKeeps ==
  ASSUME IInv, NEW a \in Callers, ObtainSlot(a)
  PROVE  IInv'
<1> DEFINE n == made + 1
<1>1. /\ At(a, "create") /\ Do(a, "start", n) /\ made' = n
      /\ life' = [life EXCEPT ![n] = "made"]
      /\ UNCHANGED <<g_live_threads, slot, known, history>>
  BY DEF ObtainSlot
<1>2. n \in Ids /\ life[n] = "none" /\ made \in Nat
  BY ThreadsAssumption DEF ObtainSlot, IInv, TypeOK, Slots, Ids
<1>3. /\ op' \in [Callers -> Steps \X (Ids \cup {0})]
      /\ op'[a][1] = "start" /\ op'[a][2] = n
      /\ \A b \in Callers \ {a} : op'[b] = op[b]
  BY <1>1, <1>2, MovesOn DEF IInv, Steps
<1>4. /\ life' \in [Ids -> Lives] /\ life'[n] = "made"
      /\ \A i \in Ids \ {n} : life'[i] = life[i]
  BY <1>1, <1>2 DEF IInv, TypeOK, Lives
<1>5. TypeOK'
  BY <1>1, <1>2, <1>3, <1>4 DEF IInv, TypeOK, slot, history, Ids
<1>6. Counted'
  <2>1. Live' = Live
    BY <1>2, <1>4 DEF Live
  <2> QED
    BY <1>1, <2>1 DEF IInv, Counted
<1>7. Slots'
  <2>1. \A i \in Ids : i > n => life'[i] = "none"
    BY <1>2, <1>4 DEF IInv, Slots, Ids
  <2>2. \A b \in Callers \ {a} : At(b, "start") => Of(b) # n /\ Of(b) <= n /\ Of(b) \in Ids
    BY <1>2 DEF IInv, Slots, At, Ids
  <2>3. \A b \in Callers : op'[b][1] = "start" =>
          op'[b][2] <= n /\ life'[op'[b][2]] = "made"
    BY <1>2, <1>3, <1>4, <2>2 DEF IInv, Slots, At, Of
  <2>4. \A b, c \in Callers :
          op'[b][1] = "start" /\ op'[c][1] = "start" /\ op'[b][2] = op'[c][2] => b = c
    BY <1>3, <2>2 DEF IInv, Slots, At, Of
  <2>5. \A b \in Callers : op'[b][1] \notin {"guest", "create"} => op'[b][2] \in Ids
    BY <1>2, <1>3 DEF IInv, Slots, Of
  <2> QED
    BY <1>1, <2>1, <2>3, <2>4, <2>5 DEF Slots, At, Of
<1>8. Results' /\ JoinDeliversResult'
  BY <1>1, <1>2, <1>4 DEF IInv, Results, JoinDeliversResult, slot, history
<1>9. Claims'
  BY <1>1, <1>3 DEF IInv, Claims, ClaimSteps, Of, slot, history
<1>10. InTime'
  BY <1>1, <1>2, <1>3, <1>4 DEF IInv, InTime, Slots, ClaimSteps, At, Of, slot, history
<1>11. NoHostThreadLeft'
  BY <1>1, <1>3 DEF IInv, NoHostThreadLeft, At, Of, slot, history
<1> QED
  BY <1>5, <1>6, <1>7, <1>8, <1>9, <1>10, <1>11 DEF IInv

(* A host thread for the slot, or none.                                    *)
LEMMA StartHostKeeps ==
  ASSUME IInv, NEW a \in Callers, StartHost(a)
  PROVE  IInv'
<1>1. /\ At(a, "start") /\ UNCHANGED <<made, g_live_threads, slot, known, history>>
  BY DEF StartHost
<1>2. PICK n \in Ids : n = Of(a) /\ n <= made /\ life[n] = "made"
  BY <1>1 DEF IInv, Slots, At
<1>3. \/ life' = [life EXCEPT ![n] = "born"] /\ Do(a, "note", n)
      \/ life' = life /\ Do(a, "guest", 0)
  BY <1>2 DEF StartHost
<1>4. /\ op' \in [Callers -> Steps \X (Ids \cup {0})]
      /\ op'[a] \in {<<"note", n>>, <<"guest", 0>>}
      /\ \A b \in Callers \ {a} : op'[b] = op[b]
  BY <1>3, MovesOn DEF IInv, Steps
<1>5. /\ life' \in [Ids -> Lives] /\ life'[n] \in {"made", "born"}
      /\ \A i \in Ids \ {n} : life'[i] = life[i]
  BY <1>2, <1>3 DEF IInv, TypeOK, Lives
<1>6. TypeOK'
  BY <1>1, <1>4, <1>5 DEF IInv, TypeOK, slot, history
<1>7. Counted'
  <2>1. Live' = Live
    BY <1>2, <1>5 DEF Live
  <2> QED
    BY <1>1, <2>1 DEF IInv, Counted
<1>8. Slots'
  <2>1. \A i \in Ids : i > made => life'[i] = "none"
    BY <1>2, <1>5 DEF IInv, Slots, TypeOK, Ids
  <2>2. \A b \in Callers : op'[b][1] = "start" => b # a /\ op'[b] = op[b]
    BY <1>4
  <2>3. \A b \in Callers \ {a} : At(b, "start") => Of(b) # n /\ Of(b) \in Ids
    BY <1>1, <1>2 DEF IInv, Slots, At
  <2>4. \A b \in Callers : op'[b][1] = "start" =>
          op'[b][2] <= made /\ life'[op'[b][2]] = "made"
    BY <1>5, <2>2, <2>3 DEF IInv, Slots, At, Of
  <2>5. \A b, c \in Callers :
          op'[b][1] = "start" /\ op'[c][1] = "start" /\ op'[b][2] = op'[c][2] => b = c
    BY <2>2 DEF IInv, Slots, At, Of
  <2>6. \A b \in Callers : op'[b][1] \notin {"guest", "create"} => op'[b][2] \in Ids
    BY <1>2, <1>4 DEF IInv, Slots, Of
  <2> QED
    BY <1>1, <2>1, <2>4, <2>5, <2>6 DEF Slots, At, Of
<1>9. Results' /\ JoinDeliversResult'
  BY <1>1, <1>2, <1>5 DEF IInv, Results, JoinDeliversResult, slot, history
<1>10. Claims'
  BY <1>1, <1>4 DEF IInv, Claims, ClaimSteps, Of, slot, history
<1>11. InTime'
  BY <1>1, <1>2, <1>4, <1>5 DEF IInv, InTime, Slots, ClaimSteps, At, Of, slot, history
<1>12. NoHostThreadLeft'
  BY <1>1, <1>4 DEF IInv, NoHostThreadLeft, At, Of, slot, history
<1> QED
  BY <1>6, <1>7, <1>8, <1>9, <1>10, <1>11, <1>12 DEF IInv

(* t->started = true.                                                      *)
LEMMA NoteStartedKeeps ==
  ASSUME IInv, NEW a \in Callers, NoteStarted(a)
  PROVE  IInv'
<1>1. /\ At(a, "note") /\ UNCHANGED <<made, g_live_threads, life, detached, result,
                                     reaped, known, history>>
  BY DEF NoteStarted
<1>2. PICK n \in Ids : n = Of(a)
  BY <1>1 DEF IInv, Slots, At
<1>3. started' = [started EXCEPT ![n] = TRUE] /\ Do(a, "out", n)
  BY <1>2 DEF NoteStarted
<1>4. /\ op' \in [Callers -> Steps \X (Ids \cup {0})]
      /\ op'[a][1] = "out" /\ op'[a][2] = n
      /\ \A b \in Callers \ {a} : op'[b] = op[b]
  BY <1>3, MovesOn DEF IInv, Steps
<1>5. /\ started' \in [Ids -> BOOLEAN]
      /\ \A i \in Ids : started[i] => started'[i]
  BY <1>3 DEF IInv, TypeOK
<1>6. TypeOK' /\ Counted' /\ Results' /\ JoinDeliversResult'
  BY <1>1, <1>4, <1>5 DEF IInv, TypeOK, Counted, Live, Results, JoinDeliversResult, history
<1>7. Slots'
  BY <1>1, <1>2, <1>4 DEF IInv, Slots, At, Of
<1>8. Claims'
  BY <1>1, <1>4 DEF IInv, Claims, ClaimSteps, Of, history
<1>9. InTime'
  BY <1>1, <1>4, <1>5 DEF IInv, InTime, Slots, ClaimSteps, At, Of, history
<1>10. NoHostThreadLeft'
  BY <1>1, <1>4 DEF IInv, NoHostThreadLeft, At, Of, history
<1> QED
  BY <1>6, <1>7, <1>8, <1>9, <1>10 DEF IInv

(* The id is stored.                                                       *)
LEMMA StoreIdKeeps ==
  ASSUME IInv, NEW a \in Callers, StoreId(a)
  PROVE  IInv'
<1>1. /\ At(a, "out") /\ Do(a, "guest", 0) /\ known' = known \cup {Of(a)}
      /\ UNCHANGED <<made, g_live_threads, life, slot, history>>
  BY DEF StoreId
<1>2. Of(a) \in Ids
  BY <1>1 DEF IInv, Slots, At
<1>3. /\ op' \in [Callers -> Steps \X (Ids \cup {0})]
      /\ op'[a][1] = "guest" /\ op'[a][2] = 0
      /\ \A b \in Callers \ {a} : op'[b] = op[b]
  BY <1>1, MovesOn DEF IInv, Steps
<1>4. TypeOK' /\ Counted' /\ Results' /\ JoinDeliversResult'
  BY <1>1, <1>2, <1>3 DEF IInv, TypeOK, Counted, Live, Results, JoinDeliversResult, slot, history
<1>5. Slots'
  BY <1>1, <1>3 DEF IInv, Slots, At, Of
<1>6. Claims' /\ InTime'
  BY <1>1, <1>3 DEF IInv, Claims, InTime, ClaimSteps, At, Of, slot, history
<1>7. NoHostThreadLeft'
  BY <1>1, <1>3 DEF IInv, NoHostThreadLeft, At, Of, slot, history
<1> QED
  BY <1>4, <1>5, <1>6, <1>7 DEF IInv

-----------------------------------------------------------------------------
(* RunGuestThread begins: one more is alive.                               *)
LEMMA BeginKeeps ==
  ASSUME IInv, NEW n \in Ids, Begin(n)
  PROVE  IInv'
<1>1. /\ life[n] = "born" /\ life' = [life EXCEPT ![n] = "running"]
      /\ g_live_threads' = g_live_threads + 1
      /\ UNCHANGED <<made, slot, known, op, history>>
  BY DEF Begin
<1>2. /\ life' \in [Ids -> Lives] /\ life'[n] = "running"
      /\ \A i \in Ids \ {n} : life'[i] = life[i]
  BY <1>1 DEF IInv, TypeOK, Lives
<1>3. Counted' /\ g_live_threads' \in 0..MaxThreads
  <2>1. Live' = Live \cup {n} /\ n \notin Live
    BY <1>1, <1>2 DEF Live
  <2>2. IsFiniteSet(Live)
    BY FewThreads DEF Live
  <2>3. Cardinality(Live') = Cardinality(Live) + 1
    BY <2>1, <2>2, FS_AddElement
  <2>4. Cardinality(Live') \in 0..MaxThreads
    <3>1. Live' \subseteq Ids
      BY DEF Live
    <3> QED
      BY <3>1, FewThreads
  <2> QED
    BY <1>1, <2>3, <2>4 DEF IInv, Counted
<1>4. TypeOK'
  BY <1>1, <1>2, <1>3 DEF IInv, TypeOK, slot, history
<1>5. Slots'
  BY <1>1, <1>2 DEF IInv, Slots, At, Of
<1>6. Results' /\ JoinDeliversResult'
  BY <1>1, <1>2 DEF IInv, Results, JoinDeliversResult, slot, history
<1>7. Claims' /\ NoHostThreadLeft'
  BY <1>1 DEF IInv, Claims, NoHostThreadLeft, ClaimSteps, At, Of, slot, history
<1>8. InTime'
  BY <1>1, <1>2 DEF IInv, InTime, ClaimSteps, Claims, TypeOK, At, Of, slot, history
<1> QED
  BY <1>3, <1>4, <1>5, <1>6, <1>7, <1>8 DEF IInv

(* A thread tells the guest who it is.                                     *)
LEMMA PublishSelfKeeps ==
  ASSUME IInv, NEW n \in Ids, PublishSelf(n)
  PROVE  IInv'
<1>1. known' = known \cup {n} /\ UNCHANGED <<made, g_live_threads, life, slot, op, history>>
  BY DEF PublishSelf
<1>2. TypeOK'
  BY <1>1 DEF IInv, TypeOK, slot, history
<1> QED
  BY <1>1, <1>2 DEF IInv, Counted, Live, Slots, Results, Claims, InTime, JoinDeliversResult,
                    NoHostThreadLeft, ClaimSteps, At, Of, slot, history

(* The guest's entry point returns.                                        *)
LEMMA StoreResultKeeps ==
  ASSUME IInv, NEW n \in Ids, StoreResult(n)
  PROVE  IInv'
<1>1. /\ life[n] = "running" /\ life' = [life EXCEPT ![n] = "stored"]
      /\ result' = [result EXCEPT ![n] = n]
      /\ UNCHANGED <<made, g_live_threads, started, detached, reaped, known, op, history>>
  BY DEF StoreResult
<1>2. /\ life' \in [Ids -> Lives] /\ life'[n] = "stored"
      /\ \A i \in Ids \ {n} : life'[i] = life[i]
  BY <1>1 DEF IInv, TypeOK, Lives
<1>3. /\ result' \in [Ids -> Ids \cup {0}] /\ result'[n] = n
      /\ \A i \in Ids \ {n} : result'[i] = result[i]
  BY <1>1 DEF IInv, TypeOK
<1>4. Counted'
  <2>1. Live' = Live
    BY <1>1, <1>2 DEF Live
  <2> QED
    BY <1>1, <2>1 DEF IInv, Counted
<1>5. TypeOK'
  BY <1>1, <1>2, <1>3 DEF IInv, TypeOK, history
<1>6. Slots'
  BY <1>1, <1>2 DEF IInv, Slots, At, Of
<1>7. Results' /\ JoinDeliversResult'
  BY <1>1, <1>2, <1>3 DEF IInv, Results, JoinDeliversResult, history
<1>8. Claims' /\ NoHostThreadLeft'
  BY <1>1 DEF IInv, Claims, NoHostThreadLeft, ClaimSteps, At, Of, history
<1>9. InTime'
  BY <1>1, <1>2 DEF IInv, InTime, ClaimSteps, Claims, TypeOK, At, Of, history
<1> QED
  BY <1>4, <1>5, <1>6, <1>7, <1>8, <1>9 DEF IInv

(* And its host thread ends: one fewer is alive.                           *)
LEMMA EndKeeps ==
  ASSUME IInv, NEW n \in Ids, End(n)
  PROVE  IInv'
<1>1. /\ life[n] = "stored" /\ life' = [life EXCEPT ![n] = "ended"]
      /\ g_live_threads' = g_live_threads - 1
      /\ UNCHANGED <<made, slot, known, op, history>>
  BY DEF End
<1>2. /\ life' \in [Ids -> Lives] /\ life'[n] = "ended"
      /\ \A i \in Ids \ {n} : life'[i] = life[i]
  BY <1>1 DEF IInv, TypeOK, Lives
<1>3. Counted' /\ g_live_threads' \in 0..MaxThreads
  <2>1. Live' = Live \ {n} /\ n \in Live
    BY <1>1, <1>2 DEF Live
  <2>2. IsFiniteSet(Live)
    BY FewThreads DEF Live
  <2>3. Cardinality(Live') = Cardinality(Live) - 1
    BY <2>1, <2>2, FS_RemoveElement
  <2>4. Cardinality(Live') \in 0..MaxThreads
    <3>1. Live' \subseteq Ids
      BY DEF Live
    <3> QED
      BY <3>1, FewThreads
  <2> QED
    BY <1>1, <2>3, <2>4 DEF IInv, Counted
<1>4. TypeOK'
  BY <1>1, <1>2, <1>3 DEF IInv, TypeOK, slot, history
<1>5. Slots'
  BY <1>1, <1>2 DEF IInv, Slots, At, Of
<1>6. Results' /\ JoinDeliversResult'
  BY <1>1, <1>2 DEF IInv, Results, JoinDeliversResult, slot, history
<1>7. Claims' /\ NoHostThreadLeft'
  BY <1>1 DEF IInv, Claims, NoHostThreadLeft, ClaimSteps, At, Of, slot, history
<1>8. InTime'
  BY <1>1, <1>2 DEF IInv, InTime, ClaimSteps, Claims, TypeOK, At, Of, slot, history
<1> QED
  BY <1>3, <1>4, <1>5, <1>6, <1>7, <1>8 DEF IInv

-----------------------------------------------------------------------------
(* Join and Detach lay hold of a thread nobody has called for yet.         *)
LEMMA CallJoinKeeps ==
  ASSUME IInv, NEW a \in Callers, NEW n \in Ids, CallJoin(a, n)
  PROVE  IInv'
<1>1. /\ At(a, "guest") /\ n \notin claimed /\ Claim(n)
      /\ UNCHANGED <<made, g_live_threads, life, slot, known>>
  BY DEF CallJoin, MayClaim, InGuest
<1>2. PICK step \in {"join", "copy"} :
        /\ step = IF started[n] /\ ~detached[n] THEN "join" ELSE "copy"
        /\ Do(a, step, n)
  BY DEF CallJoin
<1>3. /\ op' \in [Callers -> Steps \X (Ids \cup {0})]
      /\ op'[a][1] = step /\ op'[a][2] = n
      /\ \A b \in Callers \ {a} : op'[b] = op[b]
  BY <1>2, MovesOn DEF IInv, Steps
<1>4. /\ claimed' = claimed \cup {n} /\ answer' = answer
      /\ overtook' = IF started[n] THEN overtook ELSE overtook \cup {n}
  BY <1>1 DEF Claim
<1>5. n \notin overtook' => step = "join" /\ started[n]
  BY <1>1, <1>2, <1>4 DEF IInv, Claims
<1>6. TypeOK' /\ Counted' /\ Results' /\ JoinDeliversResult'
  BY <1>1, <1>3, <1>4 DEF IInv, TypeOK, Counted, Live, Results, JoinDeliversResult, slot
<1>7. Slots'
  BY <1>1, <1>2, <1>3 DEF IInv, Slots, At, Of
<1>8. Claims'
  <2>1. \A b \in Callers \ {a} : op[b][1] \in ClaimSteps => op[b][2] # n
    BY <1>1 DEF IInv, Claims, Of
  <2>2. \A b, c \in Callers :
          op'[b][1] \in ClaimSteps /\ op'[c][1] \in ClaimSteps /\ op'[b][2] = op'[c][2] => b = c
    BY <1>3, <2>1 DEF IInv, Claims, Of
  <2>3. \A b \in Callers : op'[b][1] \in ClaimSteps => op'[b][2] \in claimed'
    BY <1>3, <1>4 DEF IInv, Claims, Of
  <2> QED
    BY <1>1, <1>4, <2>2, <2>3 DEF IInv, Claims, Of, slot
<1>9. InTime'
  BY <1>1, <1>2, <1>3, <1>4, <1>5 DEF IInv, InTime, Claims, ClaimSteps, At, Of, slot
<1>10. NoHostThreadLeft'
  BY <1>1, <1>3, <1>4, <1>5 DEF IInv, NoHostThreadLeft, At, Of, slot
<1> QED
  BY <1>6, <1>7, <1>8, <1>9, <1>10 DEF IInv

(* Detach does as Join, and notes it.                                      *)
LEMMA CallDetachKeeps ==
  ASSUME IInv, NEW a \in Callers, NEW n \in Ids, CallDetach(a, n)
  PROVE  IInv'
<1>1. /\ At(a, "guest") /\ n \notin claimed /\ Claim(n) /\ Do(a, "detach", n)
      /\ detached' = [detached EXCEPT ![n] = TRUE]
      /\ UNCHANGED <<made, g_live_threads, life, started, result, reaped, known>>
  BY DEF CallDetach, MayClaim, InGuest
<1>2. /\ op' \in [Callers -> Steps \X (Ids \cup {0})]
      /\ op'[a][1] = "detach" /\ op'[a][2] = n
      /\ \A b \in Callers \ {a} : op'[b] = op[b]
  BY <1>1, MovesOn DEF IInv, Steps
<1>3. /\ claimed' = claimed \cup {n} /\ answer' = answer
      /\ overtook' = IF started[n] THEN overtook ELSE overtook \cup {n}
  BY <1>1 DEF Claim
<1>4. detached' \in [Ids -> BOOLEAN] /\ \A i \in Ids \ {n} : detached'[i] = detached[i]
  BY <1>1 DEF IInv, TypeOK
<1>5. TypeOK' /\ Counted' /\ Results' /\ JoinDeliversResult'
  BY <1>1, <1>2, <1>3, <1>4 DEF IInv, TypeOK, Counted, Live, Results, JoinDeliversResult
<1>6. Slots'
  BY <1>1, <1>2 DEF IInv, Slots, At, Of
<1>7. Claims'
  <2>1. \A b \in Callers \ {a} : op[b][1] \in ClaimSteps => op[b][2] # n
    BY <1>1 DEF IInv, Claims, Of
  <2>2. \A b, c \in Callers :
          op'[b][1] \in ClaimSteps /\ op'[c][1] \in ClaimSteps /\ op'[b][2] = op'[c][2] => b = c
    BY <1>2, <2>1 DEF IInv, Claims, Of
  <2>3. \A b \in Callers : op'[b][1] \in ClaimSteps => op'[b][2] \in claimed'
    BY <1>2, <1>3 DEF IInv, Claims, Of
  <2>4. \A i \in Ids : answer'[i] # None \/ detached'[i] => i \in claimed'
    BY <1>3, <1>4 DEF IInv, Claims
  <2> QED
    BY <2>2, <2>3, <2>4 DEF Claims, Of
<1>8. InTime'
  BY <1>1, <1>2, <1>3 DEF IInv, InTime, Claims, ClaimSteps, At, Of
<1>9. NoHostThreadLeft'
  BY <1>1, <1>2, <1>3 DEF IInv, NoHostThreadLeft, At, Of
<1> QED
  BY <1>5, <1>6, <1>7, <1>8, <1>9 DEF IInv

(* The host thread has ended, and Join lets go of it.                      *)
LEMMA JoinHostKeeps ==
  ASSUME IInv, NEW a \in Callers, JoinHost(a)
  PROVE  IInv'
<1>1. At(a, "join") /\ UNCHANGED <<made, g_live_threads, life, detached, result, known, history>>
  BY DEF JoinHost
<1>2. PICK n \in Ids : n = Of(a)
  BY <1>1 DEF IInv, Slots, At
<1>3. /\ life[n] = "ended" /\ reaped' = reaped \cup {n}
      /\ started' = [started EXCEPT ![n] = FALSE] /\ Do(a, "copy", n)
  BY <1>2 DEF JoinHost
<1>4. /\ op' \in [Callers -> Steps \X (Ids \cup {0})]
      /\ op'[a][1] = "copy" /\ op'[a][2] = n
      /\ \A b \in Callers \ {a} : op'[b] = op[b]
  BY <1>3, MovesOn DEF IInv, Steps
<1>5. started' \in [Ids -> BOOLEAN] /\ \A i \in Ids \ {n} : started'[i] = started[i]
  BY <1>3 DEF IInv, TypeOK
<1>6. /\ n \in claimed
      /\ \A b \in Callers \ {a} : op[b][1] \in ClaimSteps => op[b][2] # n /\ op[b][2] \in Ids
  BY <1>1, <1>2 DEF IInv, Claims, ClaimSteps, Slots, At, Of
<1>7. TypeOK' /\ Counted' /\ Results' /\ JoinDeliversResult'
  BY <1>1, <1>3, <1>4, <1>5 DEF IInv, TypeOK, Counted, Live, Results, JoinDeliversResult, history
<1>8. Slots'
  BY <1>1, <1>4 DEF IInv, Slots, At, Of
<1>9. Claims'
  BY <1>1, <1>4, <1>6 DEF IInv, Claims, Of, history
<1>10. InTime'
  BY <1>1, <1>3, <1>4, <1>5, <1>6 DEF IInv, InTime, ClaimSteps, At, Of, history
<1>11. NoHostThreadLeft'
  BY <1>1, <1>2, <1>3, <1>4 DEF IInv, NoHostThreadLeft, At, Of, history
<1> QED
  BY <1>7, <1>8, <1>9, <1>10, <1>11 DEF IInv

(* Join answers.                                                           *)
LEMMA CopyResultKeeps ==
  ASSUME IInv, NEW a \in Callers, CopyResult(a)
  PROVE  IInv'
<1>1. /\ At(a, "copy") /\ Do(a, "guest", 0)
      /\ UNCHANGED <<made, g_live_threads, life, slot, known, claimed, overtook>>
  BY DEF CopyResult
<1>2. PICK n \in Ids : n = Of(a)
  BY <1>1 DEF IInv, Slots, At
<1>3. answer' = [answer EXCEPT ![n] = result[n]]
  BY <1>2 DEF CopyResult
<1>4. /\ op' \in [Callers -> Steps \X (Ids \cup {0})]
      /\ op'[a][1] = "guest" /\ op'[a][2] = 0
      /\ \A b \in Callers \ {a} : op'[b] = op[b]
  BY <1>1, MovesOn DEF IInv, Steps
<1>5. /\ n \in claimed
      /\ n \notin overtook => life[n] = "ended" /\ n \in reaped /\ result[n] = n
  BY <1>1, <1>2 DEF IInv, Claims, InTime, Results, ClaimSteps, At, Of
<1>6. /\ answer' \in [Ids -> Ids \cup {0, None}] /\ answer'[n] = result[n]
      /\ \A i \in Ids \ {n} : answer'[i] = answer[i]
  BY <1>3 DEF IInv, TypeOK
<1>7. TypeOK' /\ Counted' /\ Results'
  BY <1>1, <1>4, <1>6 DEF IInv, TypeOK, Counted, Live, Results, slot
<1>8. JoinDeliversResult'
  BY <1>1, <1>5, <1>6 DEF IInv, JoinDeliversResult, slot
<1>9. Slots'
  BY <1>1, <1>4 DEF IInv, Slots, At, Of
<1>10. Claims'
  BY <1>1, <1>4, <1>5, <1>6 DEF IInv, Claims, ClaimSteps, Of, slot
<1>11. InTime'
  BY <1>1, <1>4 DEF IInv, InTime, ClaimSteps, At, Of, slot
<1>12. NoHostThreadLeft'
  BY <1>1, <1>4 DEF IInv, NoHostThreadLeft, At, Of, slot
<1> QED
  BY <1>7, <1>8, <1>9, <1>10, <1>11, <1>12 DEF IInv

(* Detach lets go of a host thread noted as started.                       *)
LEMMA DetachHostKeeps ==
  ASSUME IInv, NEW a \in Callers, DetachHost(a)
  PROVE  IInv'
<1>1. /\ At(a, "detach") /\ Do(a, "guest", 0)
      /\ UNCHANGED <<made, g_live_threads, life, detached, result, known, history>>
  BY DEF DetachHost
<1>2. PICK n \in Ids : n = Of(a)
  BY <1>1 DEF IInv, Slots, At
<1>3. IF started[n] THEN reaped' = reaped \cup {n} /\ started' = [started EXCEPT ![n] = FALSE]
      ELSE reaped' = reaped /\ started' = started
  BY <1>2 DEF DetachHost
<1>4. /\ op' \in [Callers -> Steps \X (Ids \cup {0})]
      /\ op'[a][1] = "guest" /\ op'[a][2] = 0
      /\ \A b \in Callers \ {a} : op'[b] = op[b]
  BY <1>1, MovesOn DEF IInv, Steps
<1>5. /\ started' \in [Ids -> BOOLEAN] /\ \A i \in Ids \ {n} : started'[i] = started[i]
      /\ reaped \subseteq reaped' /\ reaped' \subseteq Ids
  <2>0. started \in [Ids -> BOOLEAN] /\ reaped \subseteq Ids
    BY DEF IInv, TypeOK
  <2>1. CASE started[n]
    <3>1. reaped' = reaped \cup {n} /\ started' = [started EXCEPT ![n] = FALSE]
      BY <2>1, <1>3
    <3>2. reaped \subseteq reaped' /\ reaped' \subseteq Ids
      BY <2>0, <3>1, <1>2
    <3>3. started' \in [Ids -> BOOLEAN] /\ \A i \in Ids \ {n} : started'[i] = started[i]
      BY <2>0, <3>1
    <3> QED
      BY <3>2, <3>3
  <2>2. CASE ~started[n]
    <3>1. reaped' = reaped /\ started' = started
      BY <2>2, <1>3
    <3> QED
      BY <2>0, <3>1
  <2> QED
    BY <2>1, <2>2
<1>6. /\ n \notin overtook => n \in reaped'
      /\ \A b \in Callers \ {a} : op[b][1] \in ClaimSteps => op[b][2] # n /\ op[b][2] \in Ids
  BY <1>1, <1>2, <1>3 DEF IInv, Claims, InTime, ClaimSteps, Slots, At, Of
<1>7. TypeOK' /\ Counted' /\ Results' /\ JoinDeliversResult'
  BY <1>1, <1>4, <1>5 DEF IInv, TypeOK, Counted, Live, Results, JoinDeliversResult, history
<1>8. Slots'
  BY <1>1, <1>4 DEF IInv, Slots, At, Of
<1>9. Claims'
  BY <1>1, <1>4 DEF IInv, Claims, ClaimSteps, Of, history
<1>10. InTime'
  BY <1>1, <1>4, <1>5, <1>6 DEF IInv, InTime, ClaimSteps, At, Of, history
<1>11. NoHostThreadLeft'
  BY <1>1, <1>2, <1>4, <1>5, <1>6 DEF IInv, NoHostThreadLeft, At, Of, history
<1> QED
  BY <1>7, <1>8, <1>9, <1>10, <1>11 DEF IInv

-----------------------------------------------------------------------------
(* The inductive invariant holds in every reachable state.                 *)
THEOREM Invariance == Spec => []IInv
<1>1. ASSUME IInv, UNCHANGED vars PROVE IInv'
  BY <1>1 DEF vars, slot, history, IInv, TypeOK, Counted, Live, Slots, Results, Claims,
              InTime, JoinDeliversResult, NoHostThreadLeft, ClaimSteps, At, Of
<1>2. IInv /\ [Next]_vars => IInv'
  BY <1>1, CheckCeilingKeeps, ObtainSlotKeeps, StartHostKeeps, NoteStartedKeeps, StoreIdKeeps,
     BeginKeeps, PublishSelfKeeps, StoreResultKeeps, EndKeeps, CallJoinKeeps, CallDetachKeeps,
     JoinHostKeeps, CopyResultKeeps, DetachHostKeeps
  DEF Next, CallerStep
<1> QED
  BY InitIInv, <1>2, PTL DEF Spec

(* A join that was not called before its thread was noted as started       *)
(* answers with what the thread returned, and such a join or detach leaves *)
(* no host thread behind: for any number of threads, however creators,     *)
(* threads and joiners overtake one another.                               *)
THEOREM JoinsAreSound == Spec => []JoinsSound
<1>1. IInv => JoinsSound
  BY DEF IInv, JoinsSound
<1> QED
  BY <1>1, Invariance, PTL

=============================================================================
